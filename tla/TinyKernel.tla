----------------------------- MODULE TinyKernel -----------------------------
(***************************************************************************)
(* The kernel in use: tasks and interrupt handlers that call the public    *)
(* API in any order, on one core, under preemption.                        *)
(*                                                                         *)
(* A call that examines its caller's context before it masks interrupts    *)
(* (osDelay, the Takes, osMutexGive) takes two steps, CheckContext and the *)
(* critical section, and can be preempted between them; a call that may    *)
(* block takes a third, Return, when it is resumed, and a call that is     *)
(* refused takes its own, BlockingFault, because the code unmasks before   *)
(* it enters the trap.                                                     *)
(***************************************************************************)
EXTENDS Semaphore, Mutex, FiniteSets

CONSTANTS Delays,        \* arguments the application passes to osDelay
          TaskCalls,     \* what tasks do
          HandlerCalls,  \* what interrupt handlers do beyond the tick
          AppMasks       \* the masks tasks set around their own code

ContextCalls == {"DELAY", "SEMAPHORE", "MUTEX_TAKE", "MUTEX_GIVE"}
AllCalls == ContextCalls \cup {"GIVE", "YIELD", "EXIT"}

ASSUME CallsAssumption ==
  /\ Delays \subseteq Time
  /\ TaskCalls \subseteq AllCalls
  /\ HandlerCalls \subseteq ContextCalls \cup {"GIVE"}
  /\ AppMasks \subseteq MaskRegisters

VARIABLES
  pc,      \* where each thread is: see Places
  call,    \* the call in progress
  arg,     \* its argument
  errs,    \* its snapshot of the context errors
  \* History: what the callers know.
  held,    \* mutexes whose Take returned to the task, and not given back
  credit,  \* initial count + stored or handed-off Gives - returned Takes
  slept    \* ticks since a sleeping task called osDelay

taskVars == <<pc, call, arg, errs>>
historyVars == <<held, credit, slept>>
vars == <<portVars, kernelVars, waitVars, value, taskVars, historyVars>>

(***************************************************************************)
(* "wfi" and "awake" are the two points of the loop of idle_task; a task   *)
(* is in its own code ("run"), between the context check of a call and its *)
(* critical section ("checked"), past it and not yet back ("resume"), on   *)
(* its way to osPortBlockingFault with the errors in errs ("refused"), or  *)
(* in the loop of osThreadExit ("exited").                                 *)
(***************************************************************************)
Places == {"wfi", "awake", "run", "checked", "resume", "refused", "exited"}
Tasks == Threads \ {Idle}

\* Bound of the history counter slept: above every delay, which is below 2 * SignBit.
SleptLimit == 2 * SignBit

TypeOK ==
  /\ PortTypeOK /\ KernelTypeOK /\ WaitTypeOK /\ SemaphoreTypeOK
  /\ pc \in [Threads -> Places]
  /\ call \in [Threads -> ContextCalls \cup {"NONE"}]
  /\ arg \in [Threads -> Delays \cup Objects \cup {NULL}]
  /\ errs \in [Threads -> SUBSET ErrorBits]
  /\ held \in [Threads -> SUBSET Mutexes]
  /\ credit \in [Sems -> Int]
  /\ slept \in [Threads -> 0..SleptLimit]

Init ==
  /\ PortInit /\ KernelInit /\ WaitInit /\ SemaphoreInit
  /\ pc = [t \in Threads |-> IF t = Idle THEN "wfi" ELSE "run"]
  /\ call = [t \in Threads |-> "NONE"]
  /\ arg = [t \in Threads |-> NULL]
  /\ errs = [t \in Threads |-> {}]
  /\ held = [t \in Threads |-> {}]
  /\ credit = value
  /\ slept = [t \in Threads |-> 0]

(***************************************************************************)
(* A task's calls.                                                         *)
(***************************************************************************)
Arguments(c) ==
  IF c = "DELAY" THEN Delays ELSE IF c = "SEMAPHORE" THEN Sems ELSE Mutexes

\* The errors a call refuses before its critical section.
Refused(c, errors) ==
  IF c = "DELAY" THEN errors ELSE errors \cap {"ISR", "NO_TASK"}

FaultCode(c, a) == IF c = "SEMAPHORE" THEN TakeOperation(a) ELSE c

CheckContext(t, c, a) ==
  LET errors == osBlockingContextErrors(FALSE)
  IN  /\ Executes(t) /\ pc[t] = "run" /\ c \in TaskCalls
      /\ pc' = [pc EXCEPT ![t] =
                  IF Refused(c, errors) = {} THEN "checked" ELSE "refused"]
      /\ call' = [call EXCEPT ![t] = c]
      /\ arg' = [arg EXCEPT ![t] = a]
      /\ errs' = [errs EXCEPT ![t] = errors]
      /\ UNCHANGED <<portVars, kernelVars, waitVars, value, historyVars>>

Refuses(t, errors) ==
  /\ pc' = [pc EXCEPT ![t] = "refused"]
  /\ errs' = [errs EXCEPT ![t] = errors]
  /\ UNCHANGED <<call, arg>>

\* A refused caller reaches osPortBlockingFault.
BlockingFault(t) ==
  /\ Executes(t) /\ pc[t] = "refused"
  /\ osPortBlockingFault(errs[t], FaultCode(call[t], arg[t]))
  /\ UNCHANGED <<kernelVars, waitVars, value, taskVars, historyVars>>

InCall(t, c) == Executes(t) /\ pc[t] = "checked" /\ call[t] = c

Returns(t) ==
  /\ pc' = [pc EXCEPT ![t] = "run"]
  /\ call' = [call EXCEPT ![t] = "NONE"]
  /\ arg' = [arg EXCEPT ![t] = NULL]
  /\ errs' = [errs EXCEPT ![t] = {}]

Suspends(t) ==
  /\ pc' = [pc EXCEPT ![t] = IF fault' = NoFault THEN "resume" ELSE @]
  /\ UNCHANGED <<call, arg, errs>>

osDelay(t) ==
  /\ InCall(t, "DELAY")
  /\ Sleep(arg[t])
  /\ Suspends(t)
  /\ UNCHANGED <<waitVars, value, historyVars>>

Take(t) ==
  LET s == arg[t]
  IN  /\ InCall(t, "SEMAPHORE")
      /\ takeSignal(s, errs[t])
      /\ IF value[s] > 0
         THEN Returns(t) /\ credit' = [credit EXCEPT ![s] = @ - 1]
         ELSE IF TakeRefusal(s, errs[t]) # {}
         THEN Refuses(t, errs[t]) /\ UNCHANGED credit
         ELSE Suspends(t) /\ UNCHANGED credit
      /\ UNCHANGED <<running, currentPt, wakeAt, osTimeMs, held, slept>>

MutexTake(t) ==
  LET m == arg[t]
  IN  /\ InCall(t, "MUTEX_TAKE")
      /\ osMutexTake(m, errs[t])
      /\ IF MutexRefusal(m, errs[t]) # {}
         THEN Refuses(t, MutexRefusal(m, errs[t])) /\ UNCHANGED held
         ELSE IF owner[m] = NULL /\ fault' = NoFault
         THEN Returns(t) /\ held' = [held EXCEPT ![t] = @ \cup {m}]
         ELSE Suspends(t) /\ UNCHANGED held
      /\ UNCHANGED <<running, currentPt, wakeAt, osTimeMs, value, credit, slept>>

MutexGive(t) ==
  LET m == arg[t]
  IN  /\ InCall(t, "MUTEX_GIVE")
      /\ osMutexGive(m)
      /\ IF fault' = NoFault
         THEN Returns(t) /\ held' = [held EXCEPT ![t] = @ \ {m}]
         ELSE UNCHANGED <<taskVars, held>>
      /\ UNCHANGED <<running, currentPt, wakeAt, osTimeMs, value, credit, slept>>

\* A blocked or sleeping caller was dispatched again.
Return(t) ==
  /\ Executes(t) /\ pc[t] = "resume"
  /\ Returns(t)
  /\ held' = [held EXCEPT ![t] =
                IF call[t] = "MUTEX_TAKE" THEN @ \cup {arg[t]} ELSE @]
  /\ credit' = IF call[t] = "SEMAPHORE"
               THEN [credit EXCEPT ![arg[t]] = @ - 1] ELSE credit
  /\ UNCHANGED <<portVars, kernelVars, waitVars, value, slept>>

Give(s) ==
  /\ giveSignal(s)
  /\ credit' = [credit EXCEPT ![s] = IF Accepted(s) THEN @ + 1 ELSE @]
  /\ UNCHANGED <<running, currentPt, wakeAt, osTimeMs, taskVars, held, slept>>

TaskGive(t, s) == Executes(t) /\ pc[t] = "run" /\ "GIVE" \in TaskCalls /\ Give(s)

TaskYield(t) ==
  /\ Executes(t) /\ pc[t] = "run" /\ "YIELD" \in TaskCalls
  /\ osYield
  /\ UNCHANGED <<running, currentPt, state, wakeAt, osTimeMs>>
  /\ UNCHANGED <<portVars, waitVars, value, taskVars, historyVars>>

SetMask(t, r) ==
  /\ Executes(t) /\ pc[t] = "run" /\ r \in AppMasks
  /\ masks' = masks \cup {r}
  /\ UNCHANGED <<fault, kernelVars, waitVars, value, taskVars, historyVars>>

ClearMask(t, r) ==
  /\ Executes(t) /\ pc[t] = "run" /\ r \in AppMasks \cap masks
  /\ masks' = masks \ {r}
  /\ UNCHANGED <<fault, kernelVars, waitVars, value, taskVars, historyVars>>

\* The task function returns to osThreadExit: the thread stays READY for ever.
osThreadExit(t) ==
  /\ Executes(t) /\ pc[t] = "run" /\ "EXIT" \in TaskCalls
  /\ pc' = [pc EXCEPT ![t] = "exited"]
  /\ UNCHANGED <<portVars, kernelVars, waitVars, value, call, arg, errs, historyVars>>

TaskStep(t) ==
  \/ \E c \in ContextCalls : \E a \in Arguments(c) : CheckContext(t, c, a)
  \/ BlockingFault(t)
  \/ osDelay(t)
  \/ Take(t)
  \/ MutexTake(t)
  \/ MutexGive(t)
  \/ Return(t)
  \/ \E s \in Sems : TaskGive(t, s)
  \/ TaskYield(t)
  \/ \E r \in MaskRegisters : SetMask(t, r)
  \/ \E r \in MaskRegisters : ClearMask(t, r)
  \/ osThreadExit(t)

\* idle_task: an interrupt ended the WFI, so offer the processor.
IdleYield ==
  /\ Executes(Idle) /\ pc[Idle] = "awake"
  /\ osYield
  /\ pc' = [pc EXCEPT ![Idle] = "wfi"]
  /\ UNCHANGED <<running, currentPt, state, wakeAt, osTimeMs, call, arg, errs>>
  /\ UNCHANGED <<portVars, waitVars, value, historyVars>>

(***************************************************************************)
(* Exceptions.                                                             *)
(***************************************************************************)
\* An interrupt ends the WFI that idle_task is executing.
WakesIdle ==
  /\ pc' = [pc EXCEPT ![Idle] =
              IF Executes(Idle) THEN "awake" ELSE @]
  /\ UNCHANGED <<call, arg, errs>>

Switch ==
  /\ PendSV_Handler
  /\ UNCHANGED <<waitVars, value, taskVars, historyVars>>

Quantum ==
  /\ SysTick_Handler
  /\ WakesIdle
  /\ UNCHANGED <<waitVars, value, historyVars>>

TIM2_IRQHandler ==
  /\ osKernelTick
  /\ WakesIdle
  /\ slept' = [t \in Threads |->
                 IF state'[t] # "SLEEPING" THEN 0
                 ELSE IF slept[t] < SleptLimit THEN slept[t] + 1 ELSE slept[t]]
  /\ UNCHANGED <<waitVars, value, held, credit>>

HandlerGive(s) ==
  /\ Alive /\ InterruptsEnabled /\ "GIVE" \in HandlerCalls
  /\ giveSignal(s)
  /\ credit' = [credit EXCEPT ![s] = IF Accepted(s) THEN @ + 1 ELSE @]
  /\ WakesIdle
  /\ UNCHANGED <<running, currentPt, wakeAt, osTimeMs, held, slept>>

\* A task-only call made by a handler.
HandlerContextCall(c, a) ==
  /\ Alive /\ InterruptsEnabled /\ c \in HandlerCalls
  /\ osPortBlockingFault(osBlockingContextErrors(TRUE), FaultCode(c, a))
  /\ UNCHANGED <<kernelVars, waitVars, value, taskVars, historyVars>>

(***************************************************************************)
(* main before osKernelLaunch.                                             *)
(***************************************************************************)
Launch ==
  /\ osKernelLaunch
  /\ UNCHANGED <<waitVars, value, taskVars, historyVars>>

MainGive(s) == Alive /\ ~running /\ "GIVE" \in TaskCalls /\ Give(s)

MainContextCall(c, a) ==
  /\ Alive /\ ~running /\ c \in TaskCalls
  /\ osPortBlockingFault(osBlockingContextErrors(FALSE), FaultCode(c, a))
  /\ UNCHANGED <<kernelVars, waitVars, value, taskVars, historyVars>>

\* osPortBlockingFault, and osThreadExit with every interrupt masked, loop.
Stopped ==
  /\ ~Alive \/ (running /\ pc[currentPt] = "exited" /\ ~InterruptsEnabled)
  /\ UNCHANGED vars

Interrupt ==
  \/ Switch
  \/ Quantum
  \/ TIM2_IRQHandler
  \/ \E s \in Sems : HandlerGive(s)
  \/ \E c \in ContextCalls : \E a \in Arguments(c) : HandlerContextCall(c, a)

Main ==
  \/ Launch
  \/ \E s \in Sems : MainGive(s)
  \/ \E c \in ContextCalls : \E a \in Arguments(c) : MainContextCall(c, a)

Next ==
  \/ \E t \in Tasks : TaskStep(t)
  \/ IdleYield
  \/ Interrupt
  \/ Main
  \/ Stopped

Spec == Init /\ [][Next]_vars

(***************************************************************************)
(* Safety.                                                                 *)
(***************************************************************************)

\* The processor never executes an instruction of a task that published a
\* blocked or sleeping state: the switch osYield requested intervenes
\* (osKernel.c osDelay and osScheduler, osSemaphore.c takeSignal).
OnlyReadyExecutes ==
  Alive /\ running /\ ~SwitchDue => state[currentPt] = "READY"

\* A task is in at most one queue, once; it is in the queue of exactly the
\* object its TCB points to, and exactly then is it BLOCKED (osKernelWait.c).
WaitRelation ==
  /\ \A o \in Objects : \A t \in Threads :
       /\ t \in Range(waiters[o]) <=> o \in {waitSem[t], waitMutex[t]}
       /\ t \in Range(waiters[o]) => state[t] = "BLOCKED"
  /\ \A o \in Objects : IsInjective(waiters[o])
  /\ \A t \in Threads :
       /\ state[t] = "BLOCKED" <=> ~NotWaiting(t)
       /\ waitSem[t] = NULL \/ waitMutex[t] = NULL

\* Nobody waits for what is available: a stored token or a free mutex has no
\* waiter, whatever Gives by tasks and handlers raced with the Take.
NoLostWakeup ==
  /\ \A s \in Sems : value[s] > 0 => waiters[s] = <<>>
  /\ \A m \in Mutexes : owner[m] = NULL => waiters[m] = <<>>
  /\ \A m \in Mutexes : owner[m] \notin Range(waiters[m])

\* A task whose osMutexTake returned is the owner until its own osMutexGive,
\* so two tasks are never inside the same mutex; and an owner that has not
\* returned yet is a waiter that was handed the mutex and is runnable.
MutualExclusion ==
  \A m \in Mutexes : \A t \in Threads :
    /\ m \in held[t] => owner[m] = t
    /\ owner[m] = t /\ m \notin held[t] =>
         pc[t] = "resume" /\ call[t] = "MUTEX_TAKE" /\ arg[t] = m /\ state[t] = "READY"

\* What a semaphore stores, plus what it handed to waiters that have not
\* resumed, is exactly what was put in and not taken out, and never exceeds
\* the capacity through the stored part (osSemaphore.c giveSignal).
Granted(s) ==
  {t \in Threads : pc[t] = "resume" /\ call[t] = "SEMAPHORE" /\ arg[t] = s
                      /\ state[t] = "READY"}

TokenConservation ==
  \A s \in Sems :
    /\ credit[s] = value[s] + Cardinality(Granted(s))
    /\ value[s] <= maxCount[s]

\* The context a call captured before masking interrupts still describes its
\* caller when the critical section uses it, however often the task was
\* preempted in between (osSemaphore.c takeSignal, osMutex.c osMutexTake).
SnapshotValid ==
  \A t \in Tasks : Alive /\ pc[t] = "checked" =>
    errs[t] = IF t = currentPt THEN masks ELSE {}

\* The kernel stops only on misuse by its caller: a task-only call from a
\* handler or before the launch, a wait while masked, or a recursive Take.
\* Its own consistency checks (WAIT_QUEUE) never fire.
FaultOnlyOnMisuse ==
  ~Alive =>
    \/ "ISR" \in fault.errors
    \/ ~running /\ fault.errors = {"NO_TASK"}
    \/ fault.errors # {} /\ fault.errors \subseteq AppMasks
    \/ fault.errors = {"MUTEX_RECURSION"} /\ arg[currentPt] \in held[currentPt]

\* What osPortBlockingFault is entered for by a task: its own masks, or a
\* mutex it holds already.
Misused(t) ==
  \/ errs[t] # {} /\ errs[t] \subseteq AppMasks
  \/ errs[t] = {"MUTEX_RECURSION"} /\ arg[t] \in held[t]

\* Where a task is in its call agrees with what its TCB says: only a task that
\* went through a blocking call is not READY, its wait pointers name the
\* argument of that call, and a waiter made READY by osMutexGive owns it.
CallMatchesTcb ==
  \A t \in Threads :
    /\ pc[t] \in {"wfi", "awake"} <=> t = Idle
    /\ state[t] # "READY" => pc[t] = "resume"
    /\ pc[t] \in {"checked", "resume", "refused"} =>
         call[t] # "NONE" /\ arg[t] \in Arguments(call[t])
    /\ pc[t] = "refused" => Misused(t)
    /\ pc[t] = "checked" => Refused(call[t], errs[t]) = {}
    /\ pc[t] = "resume" => call[t] # "MUTEX_GIVE"
    /\ state[t] = "SLEEPING" => call[t] = "DELAY"
    /\ waitSem[t] # NULL => call[t] = "SEMAPHORE" /\ arg[t] = waitSem[t]
    /\ waitMutex[t] # NULL => call[t] = "MUTEX_TAKE" /\ arg[t] = waitMutex[t]
    /\ pc[t] = "resume" /\ call[t] = "MUTEX_TAKE" /\ state[t] = "READY" =>
         owner[arg[t]] = t /\ arg[t] \notin held[t]

\* Nothing was dispatched before osKernelLaunch, so no task ever waited.
BeforeLaunch ==
  /\ ~running =>
       /\ currentPt = Idle /\ ~pendSV
       /\ \A t \in Tasks : pc[t] = "run"
  /\ Alive => masks \subseteq (IF running THEN AppMasks ELSE {})

\* The inductive invariant: the safety properties above, strengthened.
IInv ==
  /\ TypeOK
  /\ OnlyReadyExecutes
  /\ WaitRelation
  /\ NoLostWakeup
  /\ MutualExclusion
  /\ SnapshotValid
  /\ FaultOnlyOnMisuse
  /\ CallMatchesTcb
  /\ BeforeLaunch

\* A refused call leaves no half-made transition behind, for the tasks that go
\* on or for the debugger: every check precedes every change of kernel or object
\* state, in the caller that unmasks before the trap and in the trap itself.
Refusing ==
  (Alive /\ ~Alive') \/ (\E t \in Threads : pc[t] # "refused" /\ pc'[t] = "refused")

RefusalLeavesState == Refusing => UNCHANGED <<kernelVars, waitVars, value>>

FaultChangesNothing == [][RefusalLeavesState]_vars

\* A delay of ms milliseconds ends at tick ms exactly (a delay of 0 at the
\* next tick), neither earlier nor later, across the wrap of osTimeMs and
\* however ticks and switches interleave (osKernel.c osWakeSleeping).  The
\* signed comparison can tell this up to 2^31 + 1 milliseconds.
Ticks(ms) == IF ms = 0 THEN 1 ELSE ms

DelayExact ==
  [][\A t \in Tasks : state[t] = "SLEEPING" /\ arg[t] <= SignBit + 1 =>
       IF osTimeMs' # osTimeMs
       THEN state'[t] = "READY" <=> slept[t] + 1 = Ticks(arg[t])
       ELSE state'[t] = "SLEEPING"]_vars

\* osKernel.c:349-350 promises the same for every argument: a delay never ends
\* before its number of milliseconds has passed.
DelayNeverEarly ==
  [][\A t \in Tasks : state[t] = "SLEEPING" /\ state'[t] = "READY" =>
       slept[t] + 1 >= arg[t]]_vars

\* osKernel.c:85-86: the idle thread runs when no other thread is ready.
IdleOnlyWhenNoneReady ==
  [][running /\ currentPt # Idle /\ currentPt' = Idle =>
       \A t \in Tasks : state[t] # "READY"]_vars

\* How many steps round the ring thread t is behind the processor at thread u.
Behind(u, t) == IF t > u THEN t - u ELSE t - u + N

Dispatches == (pendSV /\ ~pendSV') \/ currentPt' # currentPt

\* Round robin passes nobody over: every switch dispatches a READY thread or
\* brings the processor nearer to it, so a thread that stays READY waits for at
\* most N - 1 switches, whatever the tasks and handlers between them made READY,
\* BLOCKED or SLEEPING (osKernel.c osScheduler).
NobodyPassedOver ==
  [][Dispatches => \A t \in Threads : state[t] = "READY" =>
       currentPt' = t \/ Behind(currentPt', t) < Behind(currentPt, t)]_vars

(***************************************************************************)
(* A mutex is the FIFO lock: the line is its owner followed by its queue,  *)
(* and a client is inside from the return of osMutexTake to osMutexGive.   *)
(***************************************************************************)
Line(m) == IF owner[m] = NULL THEN <<>> ELSE <<owner[m]>> \o waiters[m]
Inside(m) == {t \in Threads : m \in held[t]}

Lock(m) == INSTANCE FifoLock WITH Clients <- Tasks, line <- Line(m), inside <- Inside(m)

\* Each mutex implements the FIFO lock (osMutex.c, osKernelWait.c
\* osKernelReleaseMutex): ownership goes to the oldest waiter before anybody
\* else can run, so no later Take steals the mutex.
LocksStep == \A m \in Mutexes : [Lock(m)!Next]_<<Line(m), Inside(m)>>

ImplementsFifoLock == (\A m \in Mutexes : Lock(m)!Init) /\ [][LocksStep]_vars

(***************************************************************************)
(* A semaphore is the FIFO semaphore: its queue is the line, and a client  *)
(* is granted a token from the Give that wakes it to the return of its     *)
(* Take.                                                                   *)
(***************************************************************************)
Gate(s) == INSTANCE FifoSemaphore WITH
             Clients <- Tasks, Capacity <- maxCount[s],
             stored <- value[s], line <- waiters[s], granted <- Granted(s)

\* Each semaphore implements the FIFO semaphore (osSemaphore.c takeSignal and
\* giveSignal): tokens reach the takers in the order of their Takes, a taker that
\* comes before the woken one was dispatched gets no token meant for it, and what
\* is handed over is not stored.
GatesStep == \A s \in Sems : [Gate(s)!Next]_<<value[s], waiters[s], Granted(s)>>

ImplementsFifoSemaphore == (\A s \in Sems : Gate(s)!Init) /\ [][GatesStep]_vars

(***************************************************************************)
(* The waiters of all objects stand in the lines that osWaitQueue.c is     *)
(* shown to implement.  What a line answers is used inside the step.       *)
(***************************************************************************)
Queues == INSTANCE WaitLine WITH
            Queues <- Objects, Nodes <- Threads, MaxNodes <- MAX_NODES,
            line <- waiters, result <- "OK", out <- NULL

\* osKernelWait.c asks its queues only what they grant: the current thread joins a line
\* while it stands in none and there is room, and the oldest member leaves a line that
\* is not empty.  No member leaves from the middle, and no queue changes otherwise.
WaitTransition ==
  \/ UNCHANGED waiters
  \/ \E o \in Objects : Queues!Joins(o, currentPt) \/ Queues!Served(o)

UsesWaitLines == [][WaitTransition]_vars

(***************************************************************************)
(* Liveness.                                                               *)
(***************************************************************************)

\* The steps by which a task gets out of a call it made, once it is running.
FinishCall(t) ==
  osDelay(t) \/ Take(t) \/ MutexTake(t) \/ MutexGive(t) \/ Return(t) \/ BlockingFault(t)

RestoreMasks(t) == \E r \in MaskRegisters : ClearMask(t, r)

(***************************************************************************)
(* A pended exception is taken once nothing masks it, and the pending bits *)
(* of SysTick and TIM2 are latched, so a mask window cannot lose them; the *)
(* timers never stop; a running task executes its instructions and leaves  *)
(* a masked region some time.                                              *)
(***************************************************************************)
Fairness ==
  /\ WF_vars(Launch)
  /\ WF_vars(Switch)
  /\ SF_vars(Quantum)
  /\ SF_vars(TIM2_IRQHandler)
  /\ \A t \in Tasks : SF_vars(FinishCall(t)) /\ SF_vars(RestoreMasks(t))

FairSpec == Spec /\ Fairness

\* A task function returned while it masked interrupts: its loop never unmasks.
MaskedForever == pc[currentPt] = "exited" /\ masks # {}

\* Round robin starves nobody: a READY thread gets the processor, whatever the
\* other tasks and the handlers do, tasks that ended or deadlocked included,
\* unless the kernel stopped on a fault or for ever behind a mask.
ReadyIsDispatched ==
  \A t \in Threads :
    (Alive /\ running /\ state[t] = "READY")
      ~> (currentPt = t \/ ~Alive \/ MaskedForever)

\* A call to osDelay returns, under the same conditions.
DelayReturns ==
  \A t \in Tasks :
    (Alive /\ pc[t] = "resume" /\ call[t] = "DELAY")
      ~> (pc[t] = "run" \/ ~Alive \/ MaskedForever)

(***************************************************************************)
(* What waiting tasks need from the application: handlers go on giving the *)
(* semaphores, and a task that executes and owns a mutex some time calls   *)
(* osMutexGive for it.                                                     *)
(***************************************************************************)
ApplicationFairness ==
  /\ \A s \in Sems : SF_vars(HandlerGive(s))
  /\ \A t \in Tasks : \A m \in Mutexes :
       SF_vars(m \in held[t] /\ CheckContext(t, "MUTEX_GIVE", m))

ServedSpec == FairSpec /\ ApplicationFairness

\* Task t is in a set of tasks each of which has ended, or waits for a mutex that
\* a task of the set owns: a deadlock of the application, or a line behind one.
Stranded(t) ==
  \E S \in SUBSET Tasks :
    /\ t \in S
    /\ \A u \in S : \/ pc[u] = "exited"
                    \/ waitMutex[u] # NULL /\ owner[waitMutex[u]] \in S

\* Direct handoff to the oldest waiter starves no waiter: a blocked Take returns,
\* however often other tasks take the same objects meanwhile, unless it waits
\* behind a mutex whose owner ended or takes part in a deadlock.  Nothing but the
\* application's own ordering of its mutexes can strand a task.
WaiterIsServed ==
  \A t \in Tasks :
    (Alive /\ pc[t] = "resume" /\ call[t] \in {"SEMAPHORE", "MUTEX_TAKE"})
      ~> (pc[t] = "run" \/ ~Alive \/ Stranded(t))
=============================================================================
