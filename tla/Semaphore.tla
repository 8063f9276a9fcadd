------------------------------ MODULE Semaphore ------------------------------
(***************************************************************************)
(* Binary and counting semaphores (Src/osSemaphore.c).  Both are a stored  *)
(* value and a FIFO of waiters; they differ in the capacity of the value   *)
(* and in what a Give at capacity reports.                                 *)
(***************************************************************************)
EXTENDS KernelWait, Integers

CONSTANTS BinSems,        \* the semaphores used through the osBinSem API
          maxCount,       \* the limit giveSignal is called with
          InitialCounts   \* the initial counts the application asks for

ASSUME maxCountAssumption ==
  /\ BinSems \subseteq Sems
  /\ maxCount \in [Sems -> Nat \ {0}]
  /\ \A s \in BinSems : maxCount[s] = 1
ASSUME InitialCountsAssumption == InitialCounts \subseteq Int

VARIABLE value            \* osSemaphoreCore.value

SemaphoreTypeOK == value \in [Sems -> Nat]

\* A binary semaphore clamps whatever it is given.
osBinSemInit(s, initial) == value[s] = IF initial > 0 THEN 1 ELSE 0

\* A counting one refuses a count outside its range, and is not used then.
osCountSemInit(s, initial) == initial \in 0..maxCount[s] /\ value[s] = initial

SemaphoreInit ==
  /\ value \in [Sems -> 0..1 \cup (InitialCounts \cap Nat)]
  /\ \A s \in Sems : \E initial \in InitialCounts :
       IF s \in BinSems THEN osBinSemInit(s, initial)
                         ELSE osCountSemInit(s, initial)

TakeOperation(s) == IF s \in BinSems THEN "SEMAPHORE" ELSE "COUNT_SEMAPHORE"

\* Mutant of takeSignal: blocks first, refuses the caller afterwards.
takeSignalLateCheck(s, errors) ==
  IF value[s] > 0
  THEN /\ value' = [value EXCEPT ![s] = @ - 1]
       /\ UNCHANGED <<waitVars, state, pendSV, portVars>>
  ELSE /\ waiters' = [waiters EXCEPT ![s] = Append(@, currentPt)]
       /\ state' = [state EXCEPT ![currentPt] = "BLOCKED"]
       /\ waitSem' = [waitSem EXCEPT ![currentPt] = s]
       /\ UNCHANGED <<value, waitMutex, owner, portVars>>
       /\ osKernelRequestContextSwitch(TRUE)

(***************************************************************************)
(* The critical section of takeSignal.  "errors" is the snapshot of the    *)
(* caller's context, taken before interrupts were masked.  A caller that   *)
(* may not wait leaves the section and goes on to osPortBlockingFault with *)
(* the errors TakeRefusal names.                                           *)
(***************************************************************************)
TakeRefusal(s, errors) == IF value[s] > 0 THEN {} ELSE errors

takeSignal(s, errors) ==
  IF value[s] > 0
  THEN /\ value' = [value EXCEPT ![s] = @ - 1]
       /\ UNCHANGED <<waitVars, state, pendSV, portVars>>
  ELSE IF TakeRefusal(s, errors) # {}
  THEN UNCHANGED <<value, waitVars, state, pendSV, portVars>>
  ELSE /\ osKernelBlockCurrentOnSemaphore(s)
       /\ osKernelRequestContextSwitch(TRUE)
       /\ UNCHANGED value

\* Mutant of Accepted: a token that is handed over is reported as rejected.
AcceptedIfStored(s) == waiters[s] = <<>> /\ value[s] < maxCount[s]

\* What giveSignal reports to the caller of osCountSemGive.
Accepted(s) == waiters[s] # <<>> \/ value[s] < maxCount[s]

\* Mutant of giveSignal: stores the token and leaves the waiters asleep.
giveSignalStoring(s) ==
  /\ value' = [value EXCEPT ![s] = IF @ < maxCount[s] THEN @ + 1 ELSE @]
  /\ UNCHANGED <<waitVars, state, pendSV, portVars>>

\* Mutant of giveSignal: a handed-off token is stored as well.
giveSignalTwice(s) ==
  /\ value' = [value EXCEPT ![s] = IF @ < maxCount[s] THEN @ + 1 ELSE @]
  /\ IF waiters[s] # <<>>
     THEN /\ osKernelUnblockOneOnSemaphore(s)
          /\ osKernelRequestContextSwitch(TRUE)
     ELSE UNCHANGED <<waitVars, state, pendSV, portVars>>

giveSignal(s) ==
  IF waiters[s] # <<>>
  THEN /\ osKernelUnblockOneOnSemaphore(s)
       /\ osKernelRequestContextSwitch(TRUE)
       /\ UNCHANGED value
  ELSE /\ value' = [value EXCEPT ![s] = IF @ < maxCount[s] THEN @ + 1 ELSE @]
       /\ UNCHANGED <<waitVars, state, pendSV, portVars>>
=============================================================================
