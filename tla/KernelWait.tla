----------------------------- MODULE KernelWait -----------------------------
(***************************************************************************)
(* Wait relationships between tasks and synchronization objects            *)
(* (Src/osKernelWait.c): a task blocked on a semaphore or mutex is in its   *)
(* FIFO queue, points back to it, and is not READY.                        *)
(*                                                                         *)
(* A queue is the sequence of the owners of its nodes, oldest first; the   *)
(* links of the intrusive list of Src/osWaitQueue.c are abstracted to it.    *)
(* Every operator here runs inside the caller's critical section.          *)
(***************************************************************************)
EXTENDS Kernel, Sequences, Functions

CONSTANTS Sems,     \* semaphores, binary and counting
          Mutexes,
          NULL

ASSUME ObjectsAssumption ==
  /\ Sems \cap Mutexes = {}
  /\ NULL \notin Sems \cup Mutexes \cup Threads

VARIABLES waiters,    \* [object -> queue of waiting tasks]
          waitSem,    \* tcbs[t].waitSem
          waitMutex,  \* tcbs[t].waitMutex
          owner       \* osMutex.owner

Objects == Sems \cup Mutexes
MAX_NODES == 8

waitVars == <<waiters, waitSem, waitMutex, owner>>

WaitTypeOK ==
  /\ waiters \in [Objects -> Seq(Threads)]
  /\ waitSem \in [Threads -> Sems \cup {NULL}]
  /\ waitMutex \in [Threads -> Mutexes \cup {NULL}]
  /\ owner \in [Mutexes -> Threads \cup {NULL}]

WaitInit ==
  /\ waiters = [o \in Objects |-> <<>>]
  /\ waitSem = [t \in Threads |-> NULL]
  /\ waitMutex = [t \in Threads |-> NULL]
  /\ owner = [m \in Mutexes |-> NULL]

osKernelCurrentThreadIdentity ==
  IF osKernelHasRunnableCaller THEN currentPt ELSE NULL

(***************************************************************************)
(* What the queue operations report for the one node a task has.           *)
(***************************************************************************)
Linked(t) == \E o \in Objects : t \in Range(waiters[o])

CanPush(o, t) == ~Linked(t) /\ Len(waiters[o]) < MAX_NODES

waitFault(operation) ==
  /\ osPortBlockingFault({"WAIT_QUEUE"}, operation)
  /\ UNCHANGED <<waiters, waitSem, waitMutex, owner, state>>

\* The scheduling request that follows a published wait transition.
osKernelRequestContextSwitch(transition) ==
  pendSV' = (pendSV \/ (transition /\ fault' = NoFault))

NotWaiting(t) == waitSem[t] = NULL /\ waitMutex[t] = NULL

\* Mutant of Enqueue: last in, first out.
EnqueueFront(o) ==
  /\ waiters' = [waiters EXCEPT ![o] = <<currentPt>> \o @]
  /\ state' = [state EXCEPT ![currentPt] = "BLOCKED"]
  /\ UNCHANGED portVars

Enqueue(o) ==
  /\ waiters' = [waiters EXCEPT ![o] = Append(@, currentPt)]
  /\ state' = [state EXCEPT ![currentPt] = "BLOCKED"]
  /\ UNCHANGED portVars

\* Mutant of Dequeue: the waiter is not made runnable.
DequeueAsleep(o) ==
  /\ waiters' = [waiters EXCEPT ![o] = Tail(@)]
  /\ UNCHANGED <<state, portVars>>

\* The oldest waiter of o leaves its queue and becomes runnable.
Dequeue(o) ==
  /\ waiters' = [waiters EXCEPT ![o] = Tail(@)]
  /\ state' = [state EXCEPT ![Head(waiters[o])] = "READY"]
  /\ UNCHANGED portVars

osKernelBlockCurrentOnSemaphore(s) ==
  IF osKernelHasRunnableCaller /\ NotWaiting(currentPt) /\ CanPush(s, currentPt)
  THEN /\ Enqueue(s)
       /\ waitSem' = [waitSem EXCEPT ![currentPt] = s]
       /\ UNCHANGED <<waitMutex, owner>>
  ELSE waitFault("WAIT_ENQUEUE")

\* Mutant of osKernelUnblockOneOnSemaphore: waitSem is not cleared.
UnblockKeepingLink(s) ==
  /\ Dequeue(s)
  /\ UNCHANGED <<waitSem, waitMutex, owner>>

\* The caller has seen that somebody waits.
osKernelUnblockOneOnSemaphore(s) ==
  LET t == Head(waiters[s])
  IN  IF state[t] = "BLOCKED" /\ waitSem[t] = s /\ waitMutex[t] = NULL
      THEN /\ Dequeue(s)
           /\ waitSem' = [waitSem EXCEPT ![t] = NULL]
           /\ UNCHANGED <<waitMutex, owner>>
      ELSE waitFault("WAIT_DEQUEUE")

osKernelBlockCurrentOnMutex(m) ==
  IF /\ osKernelHasRunnableCaller /\ NotWaiting(currentPt)
     /\ owner[m] \in Threads \ {currentPt}
     /\ CanPush(m, currentPt)
  THEN /\ Enqueue(m)
       /\ waitMutex' = [waitMutex EXCEPT ![currentPt] = m]
       /\ UNCHANGED <<waitSem, owner>>
  ELSE waitFault("WAIT_ENQUEUE")

\* Mutant of osKernelReleaseMutex: the waiter is woken, the mutex left free.
ReleaseWithoutTransfer(m) ==
  /\ owner' = [owner EXCEPT ![m] = NULL]
  /\ UNCHANGED waitSem
  /\ IF waiters[m] = <<>>
     THEN UNCHANGED <<waiters, waitMutex, state, portVars>>
     ELSE /\ Dequeue(m)
          /\ waitMutex' = [waitMutex EXCEPT ![Head(waiters[m])] = NULL]

\* The oldest waiter resumes as the owner; without one the mutex is free.
osKernelReleaseMutex(m) ==
  LET t == Head(waiters[m])
  IN  IF ~osKernelHasRunnableCaller \/ owner[m] # currentPt
      THEN waitFault("WAIT_DEQUEUE")
      ELSE IF waiters[m] = <<>>
      THEN /\ owner' = [owner EXCEPT ![m] = NULL]
           /\ UNCHANGED <<waiters, waitSem, waitMutex, state, portVars>>
      ELSE IF /\ state[t] = "BLOCKED" /\ waitMutex[t] = m
              /\ waitSem[t] = NULL /\ t # currentPt
           THEN /\ Dequeue(m)
                /\ owner' = [owner EXCEPT ![m] = t]
                /\ waitMutex' = [waitMutex EXCEPT ![t] = NULL]
                /\ UNCHANGED waitSem
           ELSE waitFault("WAIT_DEQUEUE")
=============================================================================
