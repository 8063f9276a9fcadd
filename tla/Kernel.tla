------------------------------- MODULE Kernel -------------------------------
(***************************************************************************)
(* Dispatch, time base and delays (Src/osKernel.c).                        *)
(*                                                                         *)
(* Thread i is the TCB in slot i; slot 0 is the idle task osInit creates.  *)
(* createThread links slot i to slot i + 1 and the last slot to slot 0, so *)
(* the ring of nextPt pointers is addition modulo N.  The context switch   *)
(* itself (stack pointers, register frames) is abstracted to currentPt.    *)
(***************************************************************************)
EXTENDS Port

CONSTANTS N,        \* thread_count at osKernelLaunch, the idle task included
          SignBit   \* 2^31: the sign bit of the wake-up comparison

MAX_THREADS == 8

ASSUME NAssumption == N \in 1..MAX_THREADS
ASSUME SignBitAssumption == SignBit \in Nat \ {0}

VARIABLES running,    \* osKernelRunning
          currentPt,  \* slot of the running thread
          state,      \* tcbs[t].state
          wakeAt,     \* tcbs[t].wake_at_ms
          osTimeMs,   \* the millisecond counter
          pendSV      \* the PendSV pending bit of SCB->ICSR

Threads == 0..(N - 1)
Idle == 0
Time == 0..(2 * SignBit - 1)

kernelVars == <<running, currentPt, state, wakeAt, osTimeMs, pendSV>>

KernelTypeOK ==
  /\ running \in BOOLEAN
  /\ currentPt \in Threads
  /\ state \in [Threads -> {"READY", "BLOCKED", "SLEEPING"}]
  /\ wakeAt \in [Threads -> Time]
  /\ osTimeMs \in Time
  /\ pendSV \in BOOLEAN

KernelInit ==
  /\ running = FALSE
  /\ currentPt = Idle
  /\ state = [t \in Threads |-> "READY"]
  /\ wakeAt = [t \in Threads |-> 0]
  /\ osTimeMs = 0
  /\ pendSV = FALSE

(***************************************************************************)
(* Unsigned arithmetic at the width of the counter.                        *)
(***************************************************************************)
AddUnwrapped(a, b) == a + b   \* mutant of Add: a counter that never wraps
Add(a, b) == IF a + b < 2 * SignBit THEN a + b ELSE a + b - 2 * SignBit
Subtract(a, b) == IF a >= b THEN a - b ELSE a - b + 2 * SignBit

\* Mutant of Expired: strictly after the wake-up time.
ExpiredStrict(now, wake) == Subtract(now, wake) \in 1..(SignBit - 1)

\* (int32_t)(now - wake) >= 0
Expired(now, wake) == Subtract(now, wake) < SignBit

(***************************************************************************)
(* Calling context.                                                        *)
(***************************************************************************)
osKernelHasRunnableCaller == running /\ state[currentPt] = "READY"

\* Mutant of osBlockingContextErrors: the snapshot is taken after masking.
ContextErrorsInside(inHandler) ==
  {"PRIMASK"} \cup masks \cup (IF inHandler THEN {"ISR"} ELSE {})

osBlockingContextErrors(inHandler) ==
  masks \cup (IF inHandler THEN {"ISR"} ELSE {})
        \cup (IF osKernelHasRunnableCaller THEN {} ELSE {"NO_TASK"})

\* With a switch pending and nothing masked the core takes PendSV before the
\* thread's next instruction (the DSB and ISB of osYield).
SwitchDue == running /\ pendSV /\ LowestPriorityEnabled

\* Thread t executes its own code.
Executes(t) == Alive /\ running /\ currentPt = t /\ ~SwitchDue

(***************************************************************************)
(* Scheduling.                                                             *)
(***************************************************************************)
osYield == pendSV' = TRUE

Hop(t, k) == IF t + k < N THEN t + k ELSE t + k - N

Skipped(t) == state[t] \in {"BLOCKED", "SLEEPING"}

\* Mutant of osScheduler: one try less.
osSchedulerShort(u) ==
  \E k \in 1..(N - 1) :
    /\ u = Hop(currentPt, k)
    /\ \A j \in 1..(k - 1) : Skipped(Hop(currentPt, j))
    /\ k < N - 1 => ~Skipped(u)

\* Mutant of osScheduler: the search starts at the first slot of the ring.
osSchedulerFromFirst(u) ==
  u \in Threads /\ ~Skipped(u) /\ \A t \in Threads : t < u => Skipped(t)

\* The do-while of osScheduler left currentPt at u: every thread between was
\* skipped, and the loop stopped at u or had used up its N tries there.
osScheduler(u) ==
  \E k \in 1..N :
    /\ u = Hop(currentPt, k)
    /\ \A j \in 1..(k - 1) : Skipped(Hop(currentPt, j))
    /\ k < N => ~Skipped(u)

PendSV_Handler ==
  /\ Alive /\ SwitchDue
  /\ pendSV' = FALSE
  /\ \E u \in Threads : osScheduler(u) /\ currentPt' = u
  /\ UNCHANGED <<running, state, wakeAt, osTimeMs, portVars>>

\* Mutant of SysTick_Handler: the end of the quantum requests no switch.
SysTickNoRequest ==
  /\ Alive /\ running /\ LowestPriorityEnabled
  /\ UNCHANGED <<kernelVars, portVars>>

SysTick_Handler ==
  /\ Alive /\ running /\ LowestPriorityEnabled
  /\ osYield
  /\ UNCHANGED <<running, currentPt, state, wakeAt, osTimeMs, portVars>>

osKernelLaunch ==
  /\ Alive /\ ~running
  /\ running' = TRUE
  /\ pendSV' = FALSE
  /\ masks' = masks \ {"PRIMASK"}
  /\ UNCHANGED <<currentPt, state, wakeAt, osTimeMs, fault>>

(***************************************************************************)
(* Time.  TIM2 counts whether or not the scheduler was launched.           *)
(***************************************************************************)
\* Mutant of osWakeSleeping: the loop stops one slot early.
osWakeSleepingShort(now) ==
  state' = [t \in Threads |->
              IF t < N - 1 /\ state[t] = "SLEEPING" /\ Expired(now, wakeAt[t])
              THEN "READY" ELSE state[t]]

osWakeSleeping(now) ==
  state' = [t \in Threads |->
              IF state[t] = "SLEEPING" /\ Expired(now, wakeAt[t])
              THEN "READY" ELSE state[t]]

osKernelTick ==
  /\ Alive /\ InterruptsEnabled
  /\ osTimeMs' = Add(osTimeMs, 1)
  /\ osWakeSleeping(osTimeMs')
  /\ UNCHANGED <<running, currentPt, wakeAt, pendSV, portVars>>

\* The critical section of osDelay, by the current thread.
Sleep(ms) ==
  /\ wakeAt' = [wakeAt EXCEPT ![currentPt] = Add(osTimeMs, ms)]
  /\ state' = [state EXCEPT ![currentPt] = "SLEEPING"]
  /\ osYield
  /\ UNCHANGED <<running, currentPt, osTimeMs, portVars>>
=============================================================================
