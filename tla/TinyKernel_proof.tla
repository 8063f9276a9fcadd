-------------------------- MODULE TinyKernel_proof --------------------------
(***************************************************************************)
(* Proof that IInv is an invariant of the kernel, for every number of      *)
(* threads, semaphores and mutexes, every capacity and counter width, and  *)
(* every choice of calls the tasks and handlers make.                      *)
(***************************************************************************)
EXTENDS TinyKernel, TLAPS, FiniteSetTheorems, SequenceTheorems

(***************************************************************************)
(* Waiting lists.                                                          *)
(***************************************************************************)

\* A new waiter goes behind the others and occurs once.
LEMMA AppendWaiter ==
  ASSUME NEW S, NEW q \in Seq(S), NEW t \in S
  PROVE  /\ Append(q, t) \in Seq(S)
         /\ Append(q, t) # <<>>
         /\ Range(Append(q, t)) = Range(q) \cup {t}
         /\ IsInjective(q) /\ t \notin Range(q) => IsInjective(Append(q, t))
<1>1. /\ Append(q, t) \in Seq(S) /\ Len(Append(q, t)) = Len(q) + 1
      /\ \A i \in 1..Len(q) : Append(q, t)[i] = q[i]
      /\ Append(q, t)[Len(q) + 1] = t
      /\ DOMAIN q = 1..Len(q) /\ DOMAIN Append(q, t) = 1..(Len(q) + 1)
      /\ Len(q) \in Nat
  OBVIOUS
<1>2. Append(q, t) # <<>>
  BY <1>1
<1>3. Range(Append(q, t)) = Range(q) \cup {t}
  BY <1>1 DEF Range
<1>4. IsInjective(q) /\ t \notin Range(q) => IsInjective(Append(q, t))
  BY <1>1 DEF IsInjective, Range
<1> QED BY <1>1, <1>2, <1>3, <1>4

\* Taking the oldest waiter removes exactly that one.
LEMMA RemoveOldest ==
  ASSUME NEW S, NEW q \in Seq(S), q # <<>>
  PROVE  /\ Head(q) \in S /\ Head(q) \in Range(q)
         /\ Tail(q) \in Seq(S)
         /\ IsInjective(q) => /\ IsInjective(Tail(q))
                              /\ Range(Tail(q)) = Range(q) \ {Head(q)}
<1>1. /\ Len(q) \in Nat \ {0} /\ DOMAIN q = 1..Len(q)
      /\ Head(q) = q[1] /\ \A i \in 1..Len(q) : q[i] \in S
      /\ Tail(q) \in Seq(S) /\ Len(Tail(q)) = Len(q) - 1
      /\ DOMAIN Tail(q) = 1..(Len(q) - 1)
      /\ \A i \in 1..(Len(q) - 1) : Tail(q)[i] = q[i + 1]
  OBVIOUS
<1>2. Head(q) \in S /\ Head(q) \in Range(q)
  BY <1>1 DEF Range
<1>3. ASSUME IsInjective(q)
      PROVE  IsInjective(Tail(q))
  BY <1>1, <1>3 DEF IsInjective
<1>4. ASSUME IsInjective(q)
      PROVE  Range(Tail(q)) = Range(q) \ {Head(q)}
  <2>1. ASSUME NEW x \in Range(Tail(q)) PROVE x \in Range(q) \ {Head(q)}
    BY <1>1, <1>4, <2>1 DEF IsInjective, Range
  <2>2. ASSUME NEW x \in Range(q) \ {Head(q)} PROVE x \in Range(Tail(q))
    <3>1. PICK i \in 1..Len(q) : q[i] = x /\ i # 1
      BY <1>1, <2>2 DEF Range
    <3>2. i - 1 \in 1..(Len(q) - 1) /\ Tail(q)[i - 1] = x
      BY <1>1, <3>1
    <3> QED BY <1>1, <3>2 DEF Range
  <2> QED BY <2>1, <2>2
<1> QED BY <1>1, <1>2, <1>3, <1>4

\* Nobody waits exactly when the list is empty.
LEMMA EmptyWaiters ==
  ASSUME NEW S, NEW q \in Seq(S)
  PROVE  /\ q = <<>> <=> \A t \in S : t \notin Range(q)
         /\ Range(<<>>) = {}
         /\ IsInjective(<<>>)
<1>1. Range(<<>>) = {} /\ IsInjective(<<>>)
  BY DEF Range, IsInjective
<1>2. q # <<>> => Head(q) \in S /\ Head(q) \in Range(q)
  BY RemoveOldest
<1> QED BY <1>1, <1>2

\* The queue of an object always has room for one more thread: its members are
\* pairwise different and the caller is not among them (osWaitQueue.h:
\* OS_WAIT_QUEUE_MAX_NODES covers OS_MAX_THREADS).
LEMMA QueueHasRoom ==
  ASSUME NEW q \in Seq(Threads), NEW t \in Threads,
         IsInjective(q), t \notin Range(q)
  PROVE  Len(q) < MAX_NODES
<1>1. N \in 1..8
  BY NAssumption DEF MAX_THREADS
<1>2. Len(q) \in Nat /\ DOMAIN q = 1..Len(q) /\ q \in [1..Len(q) -> Threads]
  OBVIOUS
<1>3. q \in Injection(1..Len(q), Threads \ {t})
  BY <1>2 DEF Injection, Range
<1>4. IsFiniteSet(Threads) /\ Cardinality(Threads) = N
  BY <1>1, FS_Interval DEF Threads
<1>5. IsFiniteSet(Threads \ {t}) /\ Cardinality(Threads \ {t}) = N - 1
  BY <1>4, FS_RemoveElement
<1>6. Cardinality(1..Len(q)) = Len(q)
  BY <1>2, FS_Interval
<1>7. Cardinality(1..Len(q)) <= N - 1
  BY <1>3, <1>5, FS_Injection
<1> QED BY <1>1, <1>2, <1>6, <1>7 DEF MAX_NODES

(***************************************************************************)
(* Dispatch.                                                               *)
(***************************************************************************)

\* The admitted threads are 1..N, a finite nonempty set that starts with idle.
LEMMA ThreadsFacts ==
  Idle \in Threads /\ Threads \subseteq Int /\ NULL \notin Threads
  BY NAssumption, ObjectsAssumption DEF Threads, Idle, MAX_THREADS

\* The idle task is READY whatever the others do, so a READY task exists.
LEMMA IdleReady ==
  ASSUME IInv
  PROVE  state[Idle] = "READY"
  BY ThreadsFacts DEF IInv, CallMatchesTcb

\* The scheduler only ever chooses a READY thread: idle is READY, so the search
\* cannot run out of tries on a thread that waits (osKernel.c osScheduler).
LEMMA SchedulerChoosesReady ==
  ASSUME IInv, NEW u, osScheduler(u)
  PROVE  u \in Threads /\ state[u] = "READY"
<1>1. N \in Nat \ {0} /\ currentPt \in 0..(N - 1)
  BY NAssumption DEF IInv, TypeOK, KernelTypeOK, Threads, MAX_THREADS
<1>2. PICK k \in 1..N : /\ u = Hop(currentPt, k)
                        /\ \A j \in 1..(k - 1) : Skipped(Hop(currentPt, j))
                        /\ k < N => ~Skipped(u)
  BY DEF osScheduler
<1>3. u \in Threads
  BY <1>1, <1>2 DEF Hop, Threads
<1>4. k < N => state[u] = "READY"
  BY <1>2, <1>3 DEF IInv, TypeOK, KernelTypeOK, Skipped
<1>5. ASSUME k = N, currentPt # Idle
      PROVE  FALSE
  <2>1. N - currentPt \in 1..(k - 1) /\ Hop(currentPt, N - currentPt) = Idle
    BY <1>1, <1>5 DEF Hop, Idle
  <2>2. Skipped(Idle)
    BY <1>2, <2>1
  <2> QED BY <2>2, IdleReady DEF Skipped
<1>6. k = N /\ currentPt = Idle => u = Idle
  BY <1>1, <1>2 DEF Hop, Idle
<1> QED BY <1>1, <1>2, <1>3, <1>4, <1>5, <1>6, IdleReady

\* osPendSV_Handler: the dispatched task is READY and no wait changes.
LEMMA SwitchStep ==
  ASSUME IInv, Switch
  PROVE  IInv'
<1> USE DEF IInv, Switch, PendSV_Handler, portVars, waitVars, taskVars, historyVars
<1>1. currentPt' \in Threads /\ state[currentPt'] = "READY"
  BY SchedulerChoosesReady
<1>2. TypeOK'
  BY <1>1 DEF TypeOK, PortTypeOK, KernelTypeOK, WaitTypeOK, SemaphoreTypeOK
<1>3. OnlyReadyExecutes'
  BY <1>1 DEF OnlyReadyExecutes
<1>4. (WaitRelation /\ NoLostWakeup /\ MutualExclusion /\ CallMatchesTcb)'
  BY DEF Misused, WaitRelation, NoLostWakeup, MutualExclusion, CallMatchesTcb, NotWaiting
<1>5. SnapshotValid'
  BY DEF SnapshotValid, SwitchDue, LowestPriorityEnabled, Alive
<1>6. FaultOnlyOnMisuse' /\ BeforeLaunch'
  BY DEF FaultOnlyOnMisuse, BeforeLaunch, Alive, SwitchDue
<1> QED BY <1>2, <1>3, <1>4, <1>5, <1>6

\* A stuttering step changes nothing the invariant speaks of.
LEMMA StutterStep ==
  ASSUME IInv, UNCHANGED vars
  PROVE  IInv'
<1> USE DEF IInv, vars, portVars, kernelVars, waitVars, taskVars, historyVars
<1>1. TypeOK'
  BY DEF TypeOK, PortTypeOK, KernelTypeOK, WaitTypeOK, SemaphoreTypeOK
<1>2. (OnlyReadyExecutes /\ WaitRelation /\ NoLostWakeup /\ MutualExclusion)'
  BY DEF OnlyReadyExecutes, WaitRelation, NoLostWakeup, MutualExclusion, NotWaiting,
         SwitchDue, LowestPriorityEnabled, Alive
<1>3. (SnapshotValid /\ FaultOnlyOnMisuse /\ CallMatchesTcb /\ BeforeLaunch)'
  BY DEF Misused, SnapshotValid, FaultOnlyOnMisuse, CallMatchesTcb, BeforeLaunch, NotWaiting,
         Alive
<1> QED BY <1>1, <1>2, <1>3

(***************************************************************************)
(* Steps that leave every wait relationship alone.                         *)
(***************************************************************************)

\* The state osKernelLaunch starts from satisfies the invariant.
LEMMA InitIInv ==
  ASSUME Init
  PROVE  IInv
<1> USE DEF Init, PortInit, KernelInit, WaitInit, SemaphoreInit
<1>1. Range(<<>>) = {} /\ IsInjective(<<>>)
  BY DEF Range, IsInjective
<1>2. TypeOK
  <2>1. PortTypeOK
    BY DEF PortTypeOK, NoFault
  <2>2. KernelTypeOK
    <3>1. 0 \in Time
      BY SignBitAssumption DEF Time
    <3> QED BY <3>1, ThreadsFacts DEF KernelTypeOK
  <2>3. WaitTypeOK
    BY DEF WaitTypeOK
  <2>4. 0..1 \cup (InitialCounts \cap Nat) \subseteq Nat /\ Nat \subseteq Int
    OBVIOUS
  <2>5. SemaphoreTypeOK /\ credit \in [Sems -> Int]
    BY <2>4 DEF SemaphoreTypeOK
  <2>6. 0 \in 0..SleptLimit
    BY SignBitAssumption DEF SleptLimit
  <2> QED BY <2>1, <2>2, <2>3, <2>5, <2>6 DEF TypeOK, Places
<1>3. OnlyReadyExecutes
  BY DEF OnlyReadyExecutes
<1>4. WaitRelation
  BY <1>1, ObjectsAssumption DEF WaitRelation, NotWaiting, Objects
<1>5. NoLostWakeup
  BY <1>1 DEF NoLostWakeup, Objects
<1>6. MutualExclusion
  BY ObjectsAssumption DEF MutualExclusion
<1>7. SnapshotValid /\ FaultOnlyOnMisuse /\ BeforeLaunch
  BY DEF SnapshotValid, FaultOnlyOnMisuse, BeforeLaunch, Alive, NoFault, Tasks
<1>8. CallMatchesTcb
  BY DEF CallMatchesTcb
<1> QED BY <1>2, <1>3, <1>4, <1>5, <1>6, <1>7, <1>8 DEF IInv

\* TIM2 with the end of a quantum only pends a switch.
LEMMA QuantumStep ==
  ASSUME IInv, Quantum
  PROVE  IInv'
<1> USE DEF IInv, Quantum, SysTick_Handler, WakesIdle, osYield, portVars, waitVars,
            historyVars
<1>1. TypeOK'
  BY DEF TypeOK, PortTypeOK, KernelTypeOK, WaitTypeOK, SemaphoreTypeOK, Places
<1>2. OnlyReadyExecutes' /\ WaitRelation' /\ NoLostWakeup'
  BY DEF OnlyReadyExecutes, WaitRelation, NoLostWakeup, NotWaiting, SwitchDue,
         LowestPriorityEnabled, Alive
<1>3. \A t \in Tasks : pc'[t] = pc[t]
  BY ThreadsFacts DEF TypeOK, Tasks
<1>4. pc'[Idle] \in {"wfi", "awake"}
  BY ThreadsFacts DEF TypeOK, CallMatchesTcb
<1>5. \A t \in Threads : Misused(t)' <=> Misused(t)
  BY DEF Misused
<1>6. MutualExclusion' /\ CallMatchesTcb'
  BY <1>3, <1>4, <1>5, ThreadsFacts DEF MutualExclusion, CallMatchesTcb, Tasks
<1>7. SnapshotValid' /\ FaultOnlyOnMisuse' /\ BeforeLaunch'
  BY <1>3 DEF SnapshotValid, FaultOnlyOnMisuse, BeforeLaunch, Alive
<1> QED BY <1>1, <1>2, <1>6, <1>7

\* TIM2: waking a sleeper (SLEEPING to READY) touches no queue.
LEMMA TickStep ==
  ASSUME IInv, TIM2_IRQHandler
  PROVE  IInv'
<1> USE DEF IInv, TIM2_IRQHandler, osKernelTick, osWakeSleeping, WakesIdle, portVars,
            waitVars
<1>1. \A t \in Threads : /\ state'[t] \in {"READY", "BLOCKED", "SLEEPING"}
                         /\ \/ state'[t] = state[t]
                            \/ state[t] = "SLEEPING" /\ state'[t] = "READY"
  BY DEF TypeOK, KernelTypeOK
<1>2. TypeOK'
  <2>1. osTimeMs' \in Time
    BY SignBitAssumption DEF TypeOK, KernelTypeOK, Time, Add
  <2>2. state' \in [Threads -> {"READY", "BLOCKED", "SLEEPING"}]
    BY <1>1
  <2>3. pc' \in [Threads -> Places]
    BY DEF TypeOK, Places
  <2>4. \A t \in Threads : slept[t] \in 0..SleptLimit
    BY DEF TypeOK
  <2>5. slept' \in [Threads -> 0..SleptLimit]
    BY <2>4, SignBitAssumption DEF SleptLimit
  <2> QED BY <2>1, <2>2, <2>3, <2>5
      DEF TypeOK, PortTypeOK, KernelTypeOK, WaitTypeOK, SemaphoreTypeOK
<1>3. OnlyReadyExecutes' /\ WaitRelation' /\ NoLostWakeup'
  BY <1>1 DEF OnlyReadyExecutes, WaitRelation, NoLostWakeup, NotWaiting, SwitchDue,
         LowestPriorityEnabled, Alive, TypeOK, KernelTypeOK
<1>4. \A t \in Tasks : pc'[t] = pc[t]
  BY ThreadsFacts DEF TypeOK, Tasks
<1>5. pc'[Idle] \in {"wfi", "awake"}
  BY ThreadsFacts DEF TypeOK, CallMatchesTcb
<1>6. MutualExclusion'
  BY <1>1, <1>4, <1>5, ThreadsFacts DEF MutualExclusion, CallMatchesTcb, Tasks
<1>7. CallMatchesTcb'
  <2>1. \A t \in Threads : Misused(t)' <=> Misused(t)
    BY DEF Misused
  <2>2. \A t \in Threads : pc'[t] = pc[t] \/ t = Idle
    BY <1>4 DEF Tasks
  <2>3. state'[Idle] = "READY" /\ NotWaiting(Idle)
    BY <1>1, IdleReady, ThreadsFacts DEF WaitRelation
  <2>4. \A t \in Threads : pc'[t] \in {"wfi", "awake"} <=> t = Idle
    BY <1>5, <2>2 DEF CallMatchesTcb
  <2> QED BY <1>1, <2>1, <2>2, <2>3, <2>4 DEF CallMatchesTcb, NotWaiting
<1>8. SnapshotValid' /\ FaultOnlyOnMisuse' /\ BeforeLaunch'
  BY <1>4 DEF SnapshotValid, FaultOnlyOnMisuse, BeforeLaunch, Alive
<1> QED BY <1>2, <1>3, <1>6, <1>7, <1>8

\* osKernelLaunch: the first task enters with nobody waiting.
LEMMA LaunchStep ==
  ASSUME IInv, Launch
  PROVE  IInv'
<1> USE DEF IInv, Launch, osKernelLaunch, waitVars, taskVars, historyVars
<1>1. TypeOK'
  BY DEF TypeOK, PortTypeOK, KernelTypeOK, WaitTypeOK, SemaphoreTypeOK
<1>2. OnlyReadyExecutes'
  BY IdleReady DEF OnlyReadyExecutes, BeforeLaunch
<1>3. WaitRelation' /\ NoLostWakeup' /\ MutualExclusion' /\ CallMatchesTcb'
  BY DEF Misused, WaitRelation, NoLostWakeup, MutualExclusion, CallMatchesTcb, NotWaiting
<1>4. SnapshotValid' /\ FaultOnlyOnMisuse' /\ BeforeLaunch'
  BY DEF SnapshotValid, FaultOnlyOnMisuse, BeforeLaunch, Alive
<1> QED BY <1>1, <1>2, <1>3, <1>4

\* osYield by a task: the request to switch disturbs no wait.
LEMMA YieldStep ==
  ASSUME IInv, NEW t \in Tasks, TaskYield(t)
  PROVE  IInv'
<1> USE DEF IInv, TaskYield, osYield, portVars, waitVars, taskVars, historyVars
<1>1. TypeOK'
  BY DEF TypeOK, PortTypeOK, KernelTypeOK, WaitTypeOK, SemaphoreTypeOK
<1>2. OnlyReadyExecutes'
  BY DEF OnlyReadyExecutes, Executes, SwitchDue, LowestPriorityEnabled, Alive
<1>3. WaitRelation' /\ NoLostWakeup' /\ MutualExclusion' /\ CallMatchesTcb'
  BY DEF Misused, WaitRelation, NoLostWakeup, MutualExclusion, CallMatchesTcb, NotWaiting
<1>4. SnapshotValid' /\ FaultOnlyOnMisuse' /\ BeforeLaunch'
  BY DEF SnapshotValid, FaultOnlyOnMisuse, BeforeLaunch, Alive, Executes
<1> QED BY <1>1, <1>2, <1>3, <1>4

\* The idle loop of osKernel.c yields and never blocks.
LEMMA IdleYieldStep ==
  ASSUME IInv, IdleYield
  PROVE  IInv'
<1> USE DEF IInv, IdleYield, osYield, portVars, waitVars, historyVars
<1>1. TypeOK'
  BY DEF TypeOK, PortTypeOK, KernelTypeOK, WaitTypeOK, SemaphoreTypeOK, Places
<1>2. OnlyReadyExecutes' /\ WaitRelation' /\ NoLostWakeup'
  BY DEF OnlyReadyExecutes, WaitRelation, NoLostWakeup, NotWaiting, Executes, SwitchDue,
         LowestPriorityEnabled, Alive
<1>3. /\ \A t \in Tasks : pc'[t] = pc[t]
      /\ pc'[Idle] = "wfi"
  BY ThreadsFacts DEF TypeOK, Tasks
<1>4. MutualExclusion' /\ CallMatchesTcb'
  BY <1>3, ThreadsFacts DEF Misused, MutualExclusion, CallMatchesTcb, Tasks
<1>5. SnapshotValid' /\ FaultOnlyOnMisuse' /\ BeforeLaunch'
  BY <1>3 DEF SnapshotValid, FaultOnlyOnMisuse, BeforeLaunch, Alive, Executes
<1> QED BY <1>1, <1>2, <1>4, <1>5

\* A task that sets or clears PRIMASK or BASEPRI is READY and in no call.
LEMMA MaskStep ==
  ASSUME IInv, NEW t \in Tasks, NEW r \in MaskRegisters,
         SetMask(t, r) \/ ClearMask(t, r)
  PROVE  IInv'
<1> USE DEF IInv, SetMask, ClearMask, kernelVars, waitVars, taskVars, historyVars
<1>1. masks' \subseteq masks \cup (AppMasks \cap {r})
  OBVIOUS
<1>2. TypeOK'
  BY <1>1 DEF TypeOK, PortTypeOK, KernelTypeOK, WaitTypeOK, SemaphoreTypeOK
<1>3. OnlyReadyExecutes'
  BY DEF OnlyReadyExecutes, Executes
<1>4. WaitRelation' /\ NoLostWakeup' /\ MutualExclusion'
  BY DEF WaitRelation, NoLostWakeup, MutualExclusion, NotWaiting
<1>5. CallMatchesTcb'
  BY DEF Misused, CallMatchesTcb, Refused
<1>6. SnapshotValid'
  BY DEF SnapshotValid, Executes, Alive
<1>7. FaultOnlyOnMisuse' /\ BeforeLaunch'
  BY <1>1 DEF FaultOnlyOnMisuse, BeforeLaunch, Alive, Executes
<1> QED BY <1>2, <1>3, <1>4, <1>5, <1>6, <1>7

\* osThreadExit: the task that ends owns no place in any queue.
LEMMA ExitStep ==
  ASSUME IInv, NEW t \in Tasks, osThreadExit(t)
  PROVE  IInv'
<1> USE DEF IInv, osThreadExit, portVars, kernelVars, waitVars, historyVars
<1>1. TypeOK'
  BY DEF TypeOK, PortTypeOK, KernelTypeOK, WaitTypeOK, SemaphoreTypeOK, Places
<1>2. OnlyReadyExecutes' /\ WaitRelation' /\ NoLostWakeup'
  BY DEF OnlyReadyExecutes, WaitRelation, NoLostWakeup, NotWaiting, SwitchDue,
         LowestPriorityEnabled, Alive
<1>3. t \in Threads /\ t # Idle /\ pc[t] = "run" /\ pc'[t] = "exited"
      /\ \A u \in Threads \ {t} : pc'[u] = pc[u]
  BY DEF TypeOK, Tasks
<1>4. MutualExclusion'
  BY <1>3 DEF MutualExclusion
<1>5. CallMatchesTcb'
  BY <1>3 DEF Misused, CallMatchesTcb, Refused
<1>6. SnapshotValid' /\ FaultOnlyOnMisuse' /\ BeforeLaunch'
  BY <1>3 DEF SnapshotValid, FaultOnlyOnMisuse, BeforeLaunch, Alive, Executes, Tasks
<1> QED BY <1>1, <1>2, <1>4, <1>5, <1>6

(***************************************************************************)
(* Calls that are refused, or only checked.                                *)
(***************************************************************************)

\* Entering osPortBlockingFault for a reason that is the caller's fault.
LEMMA RefusalStep ==
  ASSUME IInv, Alive, NEW e \in SUBSET ErrorBits, NEW op \in FaultOperations,
         osPortBlockingFault(e, op),
         \/ "ISR" \in e
         \/ ~running /\ e = {"NO_TASK"}
         \/ e # {} /\ e \subseteq AppMasks
         \/ e = {"MUTEX_RECURSION"} /\ arg[currentPt] \in held[currentPt],
         UNCHANGED <<kernelVars, waitVars, value, taskVars, historyVars>>
  PROVE  IInv'
<1> USE DEF IInv, osPortBlockingFault, kernelVars, waitVars, taskVars, historyVars
<1>1. ~Alive' /\ fault'.errors = e
  BY DEF Alive, NoFault
<1>2. TypeOK'
  BY DEF TypeOK, PortTypeOK, KernelTypeOK, WaitTypeOK, SemaphoreTypeOK, MaskRegisters
<1>3. OnlyReadyExecutes' /\ SnapshotValid'
  BY <1>1 DEF OnlyReadyExecutes, SnapshotValid
<1>4. WaitRelation' /\ NoLostWakeup' /\ MutualExclusion' /\ CallMatchesTcb'
  BY DEF Misused, WaitRelation, NoLostWakeup, MutualExclusion, CallMatchesTcb, NotWaiting
<1>5. FaultOnlyOnMisuse' /\ BeforeLaunch'
  BY <1>1 DEF FaultOnlyOnMisuse, BeforeLaunch
<1> QED BY <1>2, <1>3, <1>4, <1>5

\* osPortBlockingFault records one of the codes of osPort.h.
LEMMA FaultCodeType ==
  ASSUME NEW c \in ContextCalls, NEW a
  PROVE  FaultCode(c, a) \in FaultOperations
  BY DEF ContextCalls, FaultCode, FaultOperations, TakeOperation

\* A blocking call in a handler is refused with BLOCKING_IN_ISR.
LEMMA HandlerContextCallStep ==
  ASSUME IInv, NEW c \in ContextCalls, NEW a, HandlerContextCall(c, a)
  PROVE  IInv'
<1>1. osBlockingContextErrors(TRUE) \in SUBSET ErrorBits
  BY DEF osBlockingContextErrors, IInv, TypeOK, PortTypeOK, ErrorBits
<1>2. "ISR" \in osBlockingContextErrors(TRUE)
  BY DEF osBlockingContextErrors
<1> QED BY <1>1, <1>2, FaultCodeType, RefusalStep DEF HandlerContextCall

\* A blocking call before osKernelLaunch is refused, and nothing else changes.
LEMMA MainContextCallStep ==
  ASSUME IInv, NEW c \in ContextCalls, NEW a, MainContextCall(c, a)
  PROVE  IInv'
<1>1. osBlockingContextErrors(FALSE) = {"NO_TASK"}
  BY DEF osBlockingContextErrors, osKernelHasRunnableCaller, MainContextCall, IInv, BeforeLaunch
<1> QED BY <1>1, FaultCodeType, RefusalStep DEF MainContextCall, ErrorBits

\* A thread that executes is READY, so its context is just its masks.
LEMMA RunningContext ==
  ASSUME IInv, NEW t \in Tasks, Executes(t)
  PROVE  /\ t \in Threads /\ t # Idle /\ t = currentPt
         /\ state[t] = "READY"
         /\ osKernelHasRunnableCaller
         /\ osKernelCurrentThreadIdentity = t
         /\ osBlockingContextErrors(FALSE) = masks
         /\ masks \subseteq AppMasks
         /\ \A r \in masks : r \notin {"ISR", "NO_TASK"}
         /\ NotWaiting(t) /\ ~Linked(t)
<1>1. t \in Threads /\ t # Idle /\ t = currentPt /\ state[t] = "READY" /\ running
  BY DEF Executes, OnlyReadyExecutes, IInv, Tasks
<1>2. osKernelHasRunnableCaller /\ osKernelCurrentThreadIdentity = t
      /\ osBlockingContextErrors(FALSE) = masks
  BY <1>1 DEF osKernelHasRunnableCaller, osKernelCurrentThreadIdentity, osBlockingContextErrors
<1>3. masks \subseteq AppMasks /\ \A r \in masks : r \notin {"ISR", "NO_TASK"}
  BY <1>1 DEF Executes, IInv, BeforeLaunch, TypeOK, PortTypeOK, MaskRegisters
<1>4. NotWaiting(t) /\ ~Linked(t)
  BY <1>1 DEF IInv, WaitRelation, Linked
<1> QED BY <1>1, <1>2, <1>3, <1>4

\* osPortCheckBlockingContext: the caller goes on with its own masks recorded.
LEMMA CheckContextStep ==
  ASSUME IInv, NEW t \in Tasks, NEW c \in ContextCalls, NEW a \in Arguments(c),
         CheckContext(t, c, a)
  PROVE  IInv'
<1> USE DEF IInv, portVars, kernelVars, waitVars, historyVars
<1> DEFINE place == IF Refused(c, masks) = {} THEN "checked" ELSE "refused"
<1>1. Executes(t) /\ pc[t] = "run" /\ Alive
  BY DEF CheckContext, Executes
<1>2. /\ t \in Threads /\ t # Idle /\ t = currentPt /\ state[t] = "READY" /\ NotWaiting(t)
      /\ masks \subseteq AppMasks /\ osBlockingContextErrors(FALSE) = masks
  BY <1>1, RunningContext
<1>3. /\ pc' = [pc EXCEPT ![t] = place]
      /\ call' = [call EXCEPT ![t] = c]
      /\ arg' = [arg EXCEPT ![t] = a]
      /\ errs' = [errs EXCEPT ![t] = masks]
      /\ UNCHANGED <<portVars, kernelVars, waitVars, value, historyVars>>
  BY <1>2 DEF CheckContext
<1>4. /\ place \in {"checked", "refused"}
      /\ place = "checked" => Refused(c, masks) = {}
      /\ place = "refused" => masks # {}
  BY DEF Refused
<1> HIDE DEF place
<1>5. /\ pc'[t] = place /\ call'[t] = c /\ arg'[t] = a /\ errs'[t] = masks
      /\ \A u \in Threads \ {t} : /\ pc'[u] = pc[u] /\ call'[u] = call[u]
                                   /\ arg'[u] = arg[u] /\ errs'[u] = errs[u]
  BY <1>2, <1>3 DEF TypeOK
<1>6. TypeOK'
  <2>1. a \in Delays \cup Objects \cup {NULL}
    BY DEF Arguments, Objects
  <2>2. masks \in SUBSET ErrorBits
    BY DEF TypeOK, PortTypeOK, ErrorBits
  <2> QED BY <1>3, <1>4, <2>1, <2>2
      DEF TypeOK, PortTypeOK, KernelTypeOK, WaitTypeOK, SemaphoreTypeOK, Places
<1>7. OnlyReadyExecutes' /\ WaitRelation' /\ NoLostWakeup'
  BY <1>3 DEF OnlyReadyExecutes, WaitRelation, NoLostWakeup, NotWaiting, SwitchDue,
         LowestPriorityEnabled, Alive
<1>8. MutualExclusion'
  BY <1>1, <1>2, <1>3, <1>5 DEF MutualExclusion
<1>9. CallMatchesTcb'
  <2>1. c # "NONE"
    BY DEF ContextCalls
  <2>2. ASSUME NEW u \in Threads, u # t
        PROVE  /\ pc'[u] = pc[u] /\ call'[u] = call[u] /\ arg'[u] = arg[u]
               /\ errs'[u] = errs[u]
    BY <1>5, <2>2
  <2> QED BY <1>2, <1>3, <1>4, <1>5, <2>1, <2>2 DEF CallMatchesTcb, NotWaiting, Misused
<1>10. SnapshotValid'
  BY <1>2, <1>3, <1>5 DEF SnapshotValid, Alive, Tasks
<1>11. FaultOnlyOnMisuse' /\ BeforeLaunch'
  BY <1>1, <1>3 DEF FaultOnlyOnMisuse, BeforeLaunch, Alive, Executes
<1> QED BY <1>6, <1>7, <1>8, <1>9, <1>10, <1>11

\* A caller that leaves its critical section for the trap has changed nothing.
LEMMA RefuseStep ==
  ASSUME IInv, NEW t \in Tasks, Executes(t), pc[t] = "checked",
         NEW e \in SUBSET ErrorBits, Refuses(t, e),
         (e # {} /\ e \subseteq AppMasks) \/ (e = {"MUTEX_RECURSION"} /\ arg[t] \in held[t]),
         UNCHANGED <<portVars, kernelVars, waitVars, value, historyVars>>
  PROVE  IInv'
<1> USE DEF IInv, portVars, kernelVars, waitVars, historyVars
<1>1. /\ t \in Threads /\ t # Idle /\ t = currentPt /\ state[t] = "READY" /\ NotWaiting(t)
      /\ Alive /\ running
  BY RunningContext DEF Executes
<1>2. /\ pc'[t] = "refused" /\ errs'[t] = e
      /\ \A u \in Threads \ {t} : pc'[u] = pc[u] /\ errs'[u] = errs[u]
  BY <1>1 DEF Refuses, TypeOK
<1>3. TypeOK'
  BY DEF Refuses, TypeOK, PortTypeOK, KernelTypeOK, WaitTypeOK, SemaphoreTypeOK, Places
<1>4. OnlyReadyExecutes' /\ WaitRelation' /\ NoLostWakeup'
  BY DEF OnlyReadyExecutes, WaitRelation, NoLostWakeup, NotWaiting, SwitchDue,
         LowestPriorityEnabled, Alive
<1>5. MutualExclusion'
  BY <1>1, <1>2 DEF MutualExclusion, Refuses
<1>6. CallMatchesTcb'
  <2>1. ASSUME NEW u \in Threads, u # t
        PROVE  pc'[u] = pc[u] /\ errs'[u] = errs[u]
    BY <1>2, <2>1
  <2>2. Misused(t)'
    BY <1>2 DEF Misused, Refuses
  <2> QED BY <1>1, <1>2, <2>1, <2>2 DEF CallMatchesTcb, NotWaiting, Refuses, Misused
<1>7. SnapshotValid' /\ FaultOnlyOnMisuse' /\ BeforeLaunch'
  BY <1>1, <1>2 DEF SnapshotValid, FaultOnlyOnMisuse, BeforeLaunch, Alive, Tasks, Refuses
<1> QED BY <1>3, <1>4, <1>5, <1>6, <1>7

\* A refused caller reaches the trap.
LEMMA BlockingFaultStep ==
  ASSUME IInv, NEW t \in Tasks, BlockingFault(t)
  PROVE  IInv'
<1>1. Executes(t) /\ pc[t] = "refused" /\ t \in Threads /\ t = currentPt /\ Alive
  BY RunningContext DEF BlockingFault, Executes
<1>2. Misused(t) /\ call[t] # "NONE"
  BY <1>1 DEF IInv, CallMatchesTcb
<1>3. errs[t] \in SUBSET ErrorBits /\ call[t] \in ContextCalls
  BY <1>1, <1>2 DEF IInv, TypeOK
<1>4. FaultCode(call[t], arg[t]) \in FaultOperations
  BY <1>3, FaultCodeType
<1>5. osPortBlockingFault(errs[t], FaultCode(call[t], arg[t]))
      /\ UNCHANGED <<kernelVars, waitVars, value, taskVars, historyVars>>
  BY DEF BlockingFault
<1> QED BY <1>1, <1>2, <1>3, <1>4, <1>5, RefusalStep DEF Misused

(***************************************************************************)
(* Delays and returns.                                                     *)
(***************************************************************************)

\* osDelay: the sleeper leaves the processor and joins no queue.
LEMMA DelayStep ==
  ASSUME IInv, NEW t \in Tasks, osDelay(t)
  PROVE  IInv'
<1> USE DEF IInv, osDelay, Sleep, Suspends, osYield, portVars, waitVars, historyVars
<1>1. t \in Threads /\ t # Idle /\ t = currentPt /\ state[t] = "READY" /\ NotWaiting(t)
      /\ Alive /\ running /\ pc[t] = "checked" /\ call[t] = "DELAY" /\ fault' = NoFault
  BY RunningContext DEF InCall, Executes, Alive
<1>2. /\ pc'[t] = "resume" /\ state'[t] = "SLEEPING"
      /\ \A u \in Threads \ {t} : pc'[u] = pc[u] /\ state'[u] = state[u]
  BY <1>1 DEF TypeOK, KernelTypeOK
<1>3. TypeOK'
  <2>1. arg[t] \in Time
    BY <1>1, CallsAssumption DEF CallMatchesTcb, Arguments
  <2>2. Add(osTimeMs, arg[t]) \in Time
    BY <2>1, SignBitAssumption DEF Add, Time, TypeOK, KernelTypeOK
  <2> QED BY <1>1, <2>2
      DEF TypeOK, PortTypeOK, KernelTypeOK, WaitTypeOK, SemaphoreTypeOK, Places
<1>4. masks = {}
  BY <1>1 DEF CallMatchesTcb, Refused, SnapshotValid
<1>5. OnlyReadyExecutes' /\ NoLostWakeup'
  BY <1>4 DEF OnlyReadyExecutes, NoLostWakeup, SwitchDue, LowestPriorityEnabled
<1>6. WaitRelation'
  BY <1>1, <1>2 DEF WaitRelation, NotWaiting
<1>7. MutualExclusion'
  BY <1>1, <1>2 DEF MutualExclusion
<1>8. CallMatchesTcb'
  BY <1>1, <1>2 DEF Misused, CallMatchesTcb, NotWaiting
<1>9. SnapshotValid'
  BY <1>1, <1>2 DEF SnapshotValid, Alive, Tasks
<1>10. FaultOnlyOnMisuse' /\ BeforeLaunch'
  BY <1>1 DEF FaultOnlyOnMisuse, BeforeLaunch, Alive
<1> QED BY <1>3, <1>5, <1>6, <1>7, <1>8, <1>9, <1>10

\* A task that comes back from a blocked call is READY and in no queue.
LEMMA ReturnStep ==
  ASSUME IInv, NEW t \in Tasks, Return(t)
  PROVE  IInv'
<1> USE DEF IInv, Return, Returns, portVars, kernelVars, waitVars
<1>1. t \in Threads /\ t # Idle /\ t = currentPt /\ state[t] = "READY" /\ NotWaiting(t)
      /\ Alive /\ running /\ pc[t] = "resume"
  BY RunningContext DEF Executes
<1>2. /\ pc'[t] = "run" /\ call'[t] = "NONE" /\ arg'[t] = NULL /\ errs'[t] = {}
      /\ held'[t] = IF call[t] = "MUTEX_TAKE" THEN held[t] \cup {arg[t]} ELSE held[t]
      /\ \A u \in Threads \ {t} : /\ pc'[u] = pc[u] /\ call'[u] = call[u]
                                   /\ arg'[u] = arg[u] /\ errs'[u] = errs[u]
                                   /\ held'[u] = held[u]
  BY <1>1 DEF TypeOK
<1>3. call[t] = "MUTEX_TAKE" => arg[t] \in Mutexes /\ owner[arg[t]] = t
  BY <1>1 DEF CallMatchesTcb, Arguments
<1>4. TypeOK'
  <2>1. held' \in [Threads -> SUBSET Mutexes]
    BY <1>1, <1>3 DEF TypeOK
  <2>2. call[t] = "SEMAPHORE" => arg[t] \in Sems
    BY <1>1 DEF CallMatchesTcb, Arguments
  <2>3. credit' \in [Sems -> Int]
    BY <2>2 DEF TypeOK
  <2> QED BY <2>1, <2>3
      DEF TypeOK, PortTypeOK, KernelTypeOK, WaitTypeOK, SemaphoreTypeOK, Places
<1>5. OnlyReadyExecutes' /\ WaitRelation' /\ NoLostWakeup'
  BY DEF OnlyReadyExecutes, WaitRelation, NoLostWakeup, NotWaiting, SwitchDue,
         LowestPriorityEnabled, Alive
<1>6. MutualExclusion'
  BY <1>1, <1>2, <1>3 DEF MutualExclusion
<1>7. CallMatchesTcb'
  BY <1>1, <1>2 DEF Misused, CallMatchesTcb, NotWaiting
<1>8. SnapshotValid'
  BY <1>1, <1>2 DEF SnapshotValid, Alive, Tasks
<1>9. FaultOnlyOnMisuse' /\ BeforeLaunch'
  BY <1>1 DEF FaultOnlyOnMisuse, BeforeLaunch, Alive
<1> QED BY <1>4, <1>5, <1>6, <1>7, <1>8, <1>9

(***************************************************************************)
(* Entering and leaving a queue.                                           *)
(***************************************************************************)

\* Enqueue adds the running thread to one queue, and nothing else.
LEMMA EnqueueFacts ==
  ASSUME IInv, NEW t \in Threads, t = currentPt, ~Linked(t), NEW o \in Objects, Enqueue(o)
  PROVE  /\ waiters' \in [Objects -> Seq(Threads)]
         /\ waiters'[o] # <<>>
         /\ \A p \in Objects :
              /\ IsInjective(waiters'[p])
              /\ Range(waiters'[p]) = Range(waiters[p]) \cup (IF p = o THEN {t} ELSE {})
              /\ p # o => waiters'[p] = waiters[p]
         /\ state' \in [Threads -> {"READY", "BLOCKED", "SLEEPING"}]
         /\ state'[t] = "BLOCKED"
         /\ \A u \in Threads \ {t} : state'[u] = state[u]
<1>1. waiters \in [Objects -> Seq(Threads)] /\ waiters[o] \in Seq(Threads)
  BY DEF IInv, TypeOK, WaitTypeOK
<1>2. IsInjective(waiters[o]) /\ t \notin Range(waiters[o])
  BY DEF IInv, WaitRelation, Linked
<1>3. waiters'[o] = Append(waiters[o], t) /\ \A p \in Objects \ {o} : waiters'[p] = waiters[p]
  BY <1>1 DEF Enqueue
<1>4. /\ Append(waiters[o], t) \in Seq(Threads)
      /\ Append(waiters[o], t) # <<>>
      /\ Range(Append(waiters[o], t)) = Range(waiters[o]) \cup {t}
      /\ IsInjective(Append(waiters[o], t))
  BY <1>1, <1>2, AppendWaiter
<1>5. waiters' \in [Objects -> Seq(Threads)]
  BY <1>1, <1>4 DEF Enqueue
<1>6. \A p \in Objects : IsInjective(waiters[p])
  BY DEF IInv, WaitRelation
<1>7. /\ state' \in [Threads -> {"READY", "BLOCKED", "SLEEPING"}]
      /\ state'[t] = "BLOCKED"
      /\ \A u \in Threads \ {t} : state'[u] = state[u]
  BY DEF Enqueue, IInv, TypeOK, KernelTypeOK
<1>8. waiters'[o] # <<>> /\ IsInjective(waiters'[o])
      /\ Range(waiters'[o]) = Range(waiters[o]) \cup {t}
  BY <1>3, <1>4
<1> QED BY <1>3, <1>5, <1>6, <1>7, <1>8

\* Dequeue removes the oldest waiter of one queue and makes it READY.
LEMMA DequeueFacts ==
  ASSUME IInv, NEW o \in Objects, waiters[o] # <<>>, Dequeue(o),
         NEW h, h = Head(waiters[o])
  PROVE  /\ waiters' \in [Objects -> Seq(Threads)]
         /\ \A p \in Objects :
              /\ IsInjective(waiters'[p])
              /\ Range(waiters'[p]) = Range(waiters[p]) \ {h}
              /\ p # o => waiters'[p] = waiters[p]
         /\ state' \in [Threads -> {"READY", "BLOCKED", "SLEEPING"}]
         /\ state'[h] = "READY"
         /\ \A u \in Threads \ {h} : state'[u] = state[u]
<1>1. waiters \in [Objects -> Seq(Threads)] /\ waiters[o] \in Seq(Threads)
  BY DEF IInv, TypeOK, WaitTypeOK
<1>2. \A p \in Objects : IsInjective(waiters[p])
  BY DEF IInv, WaitRelation
<1>3. waiters'[o] = Tail(waiters[o]) /\ \A p \in Objects \ {o} : waiters'[p] = waiters[p]
  BY <1>1 DEF Dequeue
<1>4. /\ h \in Threads /\ h \in Range(waiters[o])
      /\ Tail(waiters[o]) \in Seq(Threads)
      /\ IsInjective(Tail(waiters[o]))
      /\ Range(Tail(waiters[o])) = Range(waiters[o]) \ {h}
  BY <1>1, <1>2, RemoveOldest
<1>5. \A p \in Objects \ {o} : h \notin Range(waiters[p])
  <2>1. \A p \in Objects : h \in Range(waiters[p]) => p \in {waitSem[h], waitMutex[h]}
    BY <1>4 DEF IInv, WaitRelation
  <2>2. waitSem[h] = NULL \/ waitMutex[h] = NULL
    BY <1>4 DEF IInv, WaitRelation
  <2>3. NULL \notin Objects
    BY ObjectsAssumption DEF Objects
  <2> QED BY <1>4, <2>1, <2>2, <2>3
<1>6. waiters' \in [Objects -> Seq(Threads)]
  BY <1>1, <1>4 DEF Dequeue
<1>7. /\ state' \in [Threads -> {"READY", "BLOCKED", "SLEEPING"}]
      /\ state'[h] = "READY"
      /\ \A u \in Threads \ {h} : state'[u] = state[u]
  BY <1>4 DEF Dequeue, IInv, TypeOK, KernelTypeOK
<1>8. IsInjective(waiters'[o]) /\ Range(waiters'[o]) = Range(waiters[o]) \ {h}
  BY <1>3, <1>4
<1>9. \A p \in Objects \ {o} : Range(waiters'[p]) = Range(waiters[p]) \ {h}
  BY <1>3, <1>5
<1> QED BY <1>2, <1>3, <1>6, <1>7, <1>8, <1>9

\* The oldest waiter of an object passes the kernel's consistency checks.
LEMMA OldestWaiter ==
  ASSUME IInv, NEW o \in Objects, waiters[o] # <<>>, NEW h, h = Head(waiters[o])
  PROVE  /\ h \in Threads /\ h # Idle /\ state[h] = "BLOCKED" /\ h \in Range(waiters[o])
         /\ o \in Sems => waitSem[h] = o /\ waitMutex[h] = NULL
         /\ o \in Mutexes => waitMutex[h] = o /\ waitSem[h] = NULL
<1>1. waiters[o] \in Seq(Threads)
  BY DEF IInv, TypeOK, WaitTypeOK
<1>2. h \in Threads /\ h \in Range(waiters[o])
  BY <1>1, RemoveOldest
<1>3. state[h] = "BLOCKED" /\ o \in {waitSem[h], waitMutex[h]}
      /\ (waitSem[h] = NULL \/ waitMutex[h] = NULL)
  BY <1>2 DEF IInv, WaitRelation
<1>4. waitSem[h] \in Sems \cup {NULL} /\ waitMutex[h] \in Mutexes \cup {NULL}
  BY <1>2 DEF IInv, TypeOK, WaitTypeOK
<1> QED BY <1>2, <1>3, <1>4, ObjectsAssumption, IdleReady DEF Objects

(***************************************************************************)
(* Semaphores.                                                             *)
(***************************************************************************)

\* Before osKernelLaunch no task has run, so every wait queue is empty.
LEMMA NobodyWaitsBeforeLaunch ==
  ASSUME IInv, ~running, NEW o \in Objects
  PROVE  waiters[o] = <<>>
<1>1. \A t \in Threads : state[t] = "READY"
  BY IdleReady DEF IInv, CallMatchesTcb, BeforeLaunch, Tasks
<1>2. \A t \in Threads : t \notin Range(waiters[o])
  BY <1>1 DEF IInv, WaitRelation
<1>3. waiters[o] \in Seq(Threads)
  BY DEF IInv, TypeOK, WaitTypeOK
<1> QED BY <1>2, <1>3, EmptyWaiters

\* The part of a Give that all its callers share.
LEMMA GiveStep ==
  ASSUME IInv, NEW s \in Sems, Alive, giveSignal(s),
         UNCHANGED <<running, currentPt, wakeAt, osTimeMs, call, arg, errs, held, slept>>,
         credit' \in [Sems -> Int],
         pc' \in [Threads -> Places], pc'[Idle] \in {"wfi", "awake"},
         \A t \in Tasks : pc'[t] = pc[t]
  PROVE  IInv'
<1> USE DEF IInv, portVars, waitVars
<1>0. s \in Objects /\ s \notin Mutexes /\ s # NULL
  BY ObjectsAssumption DEF Objects
<1>1. CASE waiters[s] = <<>>
  <2>1. /\ value' = [value EXCEPT ![s] = IF @ < maxCount[s] THEN @ + 1 ELSE @]
        /\ UNCHANGED <<waitVars, state, pendSV, portVars>>
    BY <1>1 DEF giveSignal
  <2>2. value' \in [Sems -> Nat] /\ \A x \in Sems \ {s} : value'[x] = value[x]
    BY <2>1 DEF TypeOK, SemaphoreTypeOK
  <2>3. TypeOK'
    BY <2>1, <2>2 DEF TypeOK, PortTypeOK, KernelTypeOK, WaitTypeOK, SemaphoreTypeOK
  <2>4. OnlyReadyExecutes' /\ WaitRelation'
    BY <2>1 DEF OnlyReadyExecutes, WaitRelation, NotWaiting, SwitchDue,
           LowestPriorityEnabled, Alive
  <2>5. NoLostWakeup'
    BY <1>1, <2>1, <2>2 DEF NoLostWakeup
  <2>6. MutualExclusion'
    BY <2>1, IdleReady, ThreadsFacts DEF MutualExclusion, CallMatchesTcb, Tasks
  <2>7. CallMatchesTcb'
    BY <2>1, ThreadsFacts, IdleReady DEF Misused, CallMatchesTcb, Tasks
  <2>8. SnapshotValid' /\ FaultOnlyOnMisuse' /\ BeforeLaunch'
    BY <2>1 DEF SnapshotValid, FaultOnlyOnMisuse, BeforeLaunch, Alive
  <2> QED BY <2>3, <2>4, <2>5, <2>6, <2>7, <2>8
<1>2. CASE waiters[s] # <<>>
  <2> DEFINE h == Head(waiters[s])
  <2>1. /\ h \in Tasks /\ state[h] = "BLOCKED" /\ h \in Range(waiters[s])
        /\ waitSem[h] = s /\ waitMutex[h] = NULL
    BY <1>0, <1>2, OldestWaiter DEF Tasks
  <2>2. /\ Dequeue(s) /\ waitSem' = [waitSem EXCEPT ![h] = NULL]
        /\ UNCHANGED <<value, waitMutex, owner, masks, fault>>
        /\ osKernelRequestContextSwitch(TRUE)
    BY <1>2, <2>1 DEF giveSignal, osKernelUnblockOneOnSemaphore, Dequeue
  <2>0. pendSV' = TRUE
    BY <2>2 DEF osKernelRequestContextSwitch, Alive
  <2> HIDE DEF h
  <2>3. /\ waiters' \in [Objects -> Seq(Threads)]
        /\ \A p \in Objects :
             /\ IsInjective(waiters'[p])
             /\ Range(waiters'[p]) = Range(waiters[p]) \ {h}
             /\ p # s => waiters'[p] = waiters[p]
        /\ state' \in [Threads -> {"READY", "BLOCKED", "SLEEPING"}]
        /\ state'[h] = "READY"
        /\ \A u \in Threads \ {h} : state'[u] = state[u]
    BY <1>0, <1>2, <2>2, DequeueFacts DEF h
  <2>4. /\ h \in Threads /\ waitSem'[h] = NULL
        /\ \A u \in Threads \ {h} : waitSem'[u] = waitSem[u]
        /\ waitSem' \in [Threads -> Sems \cup {NULL}]
    BY <2>1, <2>2 DEF TypeOK, WaitTypeOK, Tasks
  <2>5. running
    BY <1>0, <1>2, NobodyWaitsBeforeLaunch
  <2>6. TypeOK'
    BY <2>0, <2>2, <2>3, <2>4 DEF TypeOK, PortTypeOK, KernelTypeOK, WaitTypeOK, SemaphoreTypeOK
  <2>7. OnlyReadyExecutes'
    BY <2>0, <2>2, <2>3, <2>4 DEF OnlyReadyExecutes, SwitchDue, LowestPriorityEnabled, Alive,
           TypeOK, KernelTypeOK
  <2>8. WaitRelation'
    <3>1. ASSUME NEW p \in Objects, NEW u \in Threads
          PROVE  /\ u \in Range(waiters'[p]) <=> p \in {waitSem'[u], waitMutex'[u]}
                 /\ u \in Range(waiters'[p]) => state'[u] = "BLOCKED"
      <4>0. /\ u \in Range(waiters[p]) <=> p \in {waitSem[u], waitMutex[u]}
            /\ u \in Range(waiters[p]) => state[u] = "BLOCKED"
        BY <3>1 DEF WaitRelation
      <4>4. Range(waiters'[p]) = Range(waiters[p]) \ {h}
        BY <2>3, <3>1
      <4>5. u \in Range(waiters'[p]) <=> u \in Range(waiters[p]) /\ u # h
        BY <4>4
      <4>6. p # NULL
        BY <3>1, ObjectsAssumption DEF Objects
      <4>1. /\ u \in Range(waiters[p]) <=> p \in {waitSem[u], waitMutex[u]}
            /\ u \in Range(waiters[p]) => state[u] = "BLOCKED"
            /\ u \in Range(waiters'[p]) <=> (u \in Range(waiters[p]) /\ u # h)
            /\ p # NULL
        BY <4>0, <4>5, <4>6
      <4>2. CASE u = h
        BY <2>1, <2>2, <2>4, <4>1, <4>2
      <4>3. CASE u # h
        BY <2>2, <2>3, <2>4, <4>1, <4>3
      <4> QED BY <4>2, <4>3
    <3>2. ASSUME NEW u \in Threads
          PROVE  /\ state'[u] = "BLOCKED" <=> ~(waitSem'[u] = NULL /\ waitMutex'[u] = NULL)
                 /\ waitSem'[u] = NULL \/ waitMutex'[u] = NULL
      <4>1. /\ state[u] = "BLOCKED" <=> ~(waitSem[u] = NULL /\ waitMutex[u] = NULL)
            /\ waitSem[u] = NULL \/ waitMutex[u] = NULL
        BY <3>2 DEF WaitRelation, NotWaiting
      <4> HIDE DEF IInv
      <4>2. CASE u = h
        BY <2>1, <2>2, <2>3, <2>4, <4>2
      <4>3. CASE u # h
        BY <2>2, <2>3, <2>4, <4>1, <4>3
      <4> QED BY <4>2, <4>3
    <3> QED BY <2>3, <3>1, <3>2 DEF WaitRelation, NotWaiting
  <2>9. NoLostWakeup'
    BY <1>2, <2>2, <2>3, ObjectsAssumption DEF NoLostWakeup, Objects
  <2>10. MutualExclusion'
    <3>1. ASSUME NEW m \in Mutexes, NEW t \in Threads
          PROVE  /\ m \in held'[t] => owner'[m] = t
                 /\ owner'[m] = t /\ m \notin held'[t] =>
                      /\ pc'[t] = "resume" /\ call'[t] = "MUTEX_TAKE"
                      /\ arg'[t] = m /\ state'[t] = "READY"
      <4>1. /\ m \in held[t] => owner[m] = t
            /\ owner[m] = t /\ m \notin held[t] =>
                 pc[t] = "resume" /\ call[t] = "MUTEX_TAKE" /\ arg[t] = m /\ state[t] = "READY"
        BY DEF MutualExclusion
      <4>2. pc[t] = "resume" => pc'[t] = "resume"
        BY ThreadsFacts DEF CallMatchesTcb, Tasks
      <4>3. state[t] = "READY" => state'[t] = "READY"
        BY <2>3
      <4> HIDE DEF IInv
      <4> QED BY <2>2, <4>1, <4>2, <4>3
    <3> QED BY <3>1 DEF MutualExclusion
  <2>11. CallMatchesTcb'
    <3>1. call[h] = "SEMAPHORE" /\ pc[h] = "resume"
      BY <1>0, <2>1, <2>4 DEF CallMatchesTcb
    <3>2. \A u \in Threads \ {h} : waitSem'[u] = waitSem[u] /\ state'[u] = state[u]
      BY <2>3, <2>4
    <3>3. \A u \in Threads : pc'[u] \in {"wfi", "awake"} <=> u = Idle
      BY ThreadsFacts DEF CallMatchesTcb, Tasks
    <3>4. \A u \in Threads : pc'[u] = pc[u] \/ u = Idle
      BY DEF Tasks
    <3>5. ASSUME NEW u \in Threads
          PROVE  /\ state'[u] # "READY" => pc'[u] = "resume"
                 /\ pc'[u] \in {"checked", "resume", "refused"} =>
                      call[u] # "NONE" /\ arg[u] \in Arguments(call[u])
                 /\ pc'[u] = "checked" => Refused(call[u], errs[u]) = {}
                 /\ pc'[u] = "refused" => Misused(u)'
                 /\ pc'[u] = "resume" => call[u] # "MUTEX_GIVE"
      <4>1. pc'[u] # pc[u] => u = Idle
        BY <3>4
      <4>2. state'[u] # "READY" => state[u] # "READY" /\ u # Idle
        BY <2>3, <2>1, IdleReady DEF Tasks
      <4> QED BY <4>1, <4>2, <3>3, <3>5 DEF Misused, CallMatchesTcb
    <3>6. ASSUME NEW u \in Threads
          PROVE  /\ state'[u] = "SLEEPING" => call[u] = "DELAY"
                 /\ waitSem'[u] # NULL => call[u] = "SEMAPHORE" /\ arg[u] = waitSem'[u]
                 /\ waitMutex'[u] # NULL => call[u] = "MUTEX_TAKE" /\ arg[u] = waitMutex'[u]
      BY <2>2, <2>3, <2>4, <3>6 DEF CallMatchesTcb
    <3>7. ASSUME NEW u \in Threads, pc'[u] = "resume", call[u] = "MUTEX_TAKE",
                 state'[u] = "READY"
          PROVE  owner'[arg[u]] = u /\ arg[u] \notin held[u]
      BY <2>1, <2>2, <2>3, <3>1, <3>3, <3>4, <3>7 DEF CallMatchesTcb
    <3> QED BY <3>3, <3>5, <3>6, <3>7 DEF CallMatchesTcb
  <2>12. SnapshotValid' /\ FaultOnlyOnMisuse' /\ BeforeLaunch'
    BY <2>2, <2>5 DEF SnapshotValid, FaultOnlyOnMisuse, BeforeLaunch, Alive
  <2> QED BY <2>6, <2>7, <2>8, <2>9, <2>10, <2>11, <2>12
<1> QED BY <1>1, <1>2

\* osBinarySemaphoreGive and osCountingSemaphoreGive called by a task.
LEMMA ThreadGiveStep ==
  ASSUME IInv, NEW s \in Sems, Alive, Give(s)
  PROVE  IInv'
<1>1. credit' \in [Sems -> Int]
  BY DEF Give, IInv, TypeOK
<1>2. pc' \in [Threads -> Places] /\ pc'[Idle] \in {"wfi", "awake"}
  BY ThreadsFacts DEF Give, taskVars, IInv, TypeOK, CallMatchesTcb
<1> QED BY <1>1, <1>2, GiveStep DEF Give, taskVars

\* The same Give called by an interrupt handler, between any two instructions.
LEMMA HandlerGiveStep ==
  ASSUME IInv, NEW s \in Sems, HandlerGive(s)
  PROVE  IInv'
<1>1. credit' \in [Sems -> Int]
  BY DEF HandlerGive, IInv, TypeOK
<1>2. /\ pc' \in [Threads -> Places] /\ pc'[Idle] \in {"wfi", "awake"}
      /\ \A t \in Tasks : pc'[t] = pc[t]
  BY ThreadsFacts DEF HandlerGive, WakesIdle, IInv, TypeOK, CallMatchesTcb, Tasks, Places
<1> QED BY <1>1, <1>2, GiveStep DEF HandlerGive, WakesIdle

(***************************************************************************)
(* Takes.                                                                  *)
(***************************************************************************)

\* What a task that entered its critical section relies on: it still runs, its
\* snapshot is the masks of the processor, and its call and argument are its own.
LEMMA InCallFacts ==
  ASSUME IInv, NEW t \in Tasks, NEW c \in ContextCalls, InCall(t, c)
  PROVE  /\ t \in Threads /\ t # Idle /\ t = currentPt /\ state[t] = "READY"
         /\ pc[t] = "checked" /\ call[t] = c /\ arg[t] \in Arguments(c)
         /\ errs[t] = masks /\ masks \subseteq AppMasks /\ masks \in SUBSET ErrorBits
         /\ Alive /\ running /\ Executes(t)
<1>1. Executes(t) /\ pc[t] = "checked" /\ call[t] = c
  BY DEF InCall
<1>2. t \in Threads /\ t # Idle /\ t = currentPt /\ state[t] = "READY" /\ masks \subseteq AppMasks
  BY <1>1, RunningContext
<1>3. Alive /\ running
  BY <1>1 DEF Executes
<1>4. errs[t] = masks
  BY <1>1, <1>2, <1>3 DEF IInv, SnapshotValid
<1>5. arg[t] \in Arguments(c)
  BY <1>1, <1>2 DEF IInv, CallMatchesTcb
<1>6. masks \in SUBSET ErrorBits
  BY DEF IInv, TypeOK, PortTypeOK, ErrorBits
<1> QED BY <1>1, <1>2, <1>3, <1>4, <1>5, <1>6

\* The kernel's own queue checks let every task in that is not waiting.
LEMMA CanAlwaysPush ==
  ASSUME IInv, NEW o \in Objects, NEW t \in Threads, ~Linked(t)
  PROVE  CanPush(o, t)
<1>1. waiters[o] \in Seq(Threads) /\ IsInjective(waiters[o]) /\ t \notin Range(waiters[o])
  BY DEF IInv, TypeOK, WaitTypeOK, WaitRelation, Linked
<1> QED BY <1>1, QueueHasRoom DEF CanPush

\* A task leaves the processor for the queue of the object it asked for.
LEMMA BlockStep ==
  ASSUME IInv, NEW t \in Tasks, Executes(t), pc[t] = "checked", masks = {},
         NEW o \in Objects, arg[t] = o, Enqueue(o), pendSV' = TRUE,
         \/ /\ o \in Sems /\ value[o] = 0 /\ call[t] = "SEMAPHORE"
            /\ waitSem' = [waitSem EXCEPT ![t] = o] /\ UNCHANGED waitMutex
         \/ /\ o \in Mutexes /\ owner[o] \in Threads \ {t} /\ call[t] = "MUTEX_TAKE"
            /\ waitMutex' = [waitMutex EXCEPT ![t] = o] /\ UNCHANGED waitSem,
         pc' = [pc EXCEPT ![t] = "resume"],
         UNCHANGED <<running, currentPt, wakeAt, osTimeMs, owner, value, call, arg, errs,
                     masks, fault, historyVars>>
  PROVE  IInv'
<1> USE DEF IInv, historyVars
<1>1. /\ t \in Threads /\ t # Idle /\ t = currentPt /\ state[t] = "READY"
      /\ NotWaiting(t) /\ ~Linked(t)
  BY RunningContext
<1>2. Alive /\ running
  BY DEF Executes
<1>3. /\ waiters' \in [Objects -> Seq(Threads)]
      /\ waiters'[o] # <<>>
      /\ \A p \in Objects :
           /\ IsInjective(waiters'[p])
           /\ Range(waiters'[p]) = Range(waiters[p]) \cup (IF p = o THEN {t} ELSE {})
           /\ p # o => waiters'[p] = waiters[p]
      /\ state' \in [Threads -> {"READY", "BLOCKED", "SLEEPING"}]
      /\ state'[t] = "BLOCKED"
      /\ \A u \in Threads \ {t} : state'[u] = state[u]
  BY <1>1, EnqueueFacts
<1>4. o \in Sems <=> o \notin Mutexes
  BY ObjectsAssumption DEF Objects
<1>5. /\ waitSem' \in [Threads -> Sems \cup {NULL}]
      /\ waitMutex' \in [Threads -> Mutexes \cup {NULL}]
      /\ waitSem'[t] = IF o \in Sems THEN o ELSE NULL
      /\ waitMutex'[t] = IF o \in Sems THEN NULL ELSE o
      /\ \A u \in Threads \ {t} : waitSem'[u] = waitSem[u] /\ waitMutex'[u] = waitMutex[u]
  BY <1>1, <1>4 DEF TypeOK, WaitTypeOK, NotWaiting
<1>6. /\ pc' \in [Threads -> Places] /\ pc'[t] = "resume"
      /\ \A u \in Threads \ {t} : pc'[u] = pc[u]
  BY <1>1 DEF TypeOK, Places
<1>7. TypeOK'
  BY <1>3, <1>5, <1>6 DEF TypeOK, PortTypeOK, KernelTypeOK, WaitTypeOK, SemaphoreTypeOK
<1>8. OnlyReadyExecutes'
  BY <1>2 DEF OnlyReadyExecutes, SwitchDue, LowestPriorityEnabled
<1>9. WaitRelation'
  <2>1. \A p \in Objects : p # NULL
    BY ObjectsAssumption DEF Objects
  <2>2. ASSUME NEW p \in Objects, NEW u \in Threads
        PROVE  /\ u \in Range(waiters'[p]) <=> p \in {waitSem'[u], waitMutex'[u]}
               /\ u \in Range(waiters'[p]) => state'[u] = "BLOCKED"
    <3>1. /\ u \in Range(waiters[p]) <=> p \in {waitSem[u], waitMutex[u]}
          /\ u \in Range(waiters[p]) => state[u] = "BLOCKED"
      BY <2>2 DEF WaitRelation
    <3>2. Range(waiters'[p]) = Range(waiters[p]) \cup (IF p = o THEN {t} ELSE {})
      BY <1>3, <2>2
    <3>3. CASE u = t
      BY <1>1, <1>3, <1>5, <2>1, <3>1, <3>2, <3>3 DEF NotWaiting
    <3>4. CASE u # t
      BY <1>3, <1>5, <3>1, <3>2, <3>4
    <3> QED BY <3>3, <3>4
  <2>3. ASSUME NEW u \in Threads
        PROVE  /\ state'[u] = "BLOCKED" <=> ~(waitSem'[u] = NULL /\ waitMutex'[u] = NULL)
               /\ waitSem'[u] = NULL \/ waitMutex'[u] = NULL
    <3>1. /\ state[u] = "BLOCKED" <=> ~(waitSem[u] = NULL /\ waitMutex[u] = NULL)
          /\ waitSem[u] = NULL \/ waitMutex[u] = NULL
      BY <2>3 DEF WaitRelation, NotWaiting
    <3> HIDE DEF IInv
    <3>2. CASE u = t
      BY <1>1, <1>3, <1>5, <2>1, <3>2 DEF NotWaiting
    <3>3. CASE u # t
      BY <1>3, <1>5, <3>1, <3>3
    <3> QED BY <3>2, <3>3
  <2> QED BY <1>3, <2>2, <2>3 DEF WaitRelation, NotWaiting
<1>10. NoLostWakeup'
  <2>1. \A x \in Sems : value[x] > 0 => waiters'[x] = <<>>
    <3> TAKE x \in Sems
    <3> HAVE value[x] > 0
    <3>1. waiters[x] = <<>> /\ x \in Objects /\ x # o
      BY <1>4 DEF NoLostWakeup, Objects
    <3> QED BY <1>3, <3>1
  <2>2. \A m \in Mutexes : owner[m] = NULL => waiters'[m] = <<>>
    <3> TAKE m \in Mutexes
    <3> HAVE owner[m] = NULL
    <3>1. waiters[m] = <<>> /\ m \in Objects /\ m # o
      BY <1>4, ThreadsFacts DEF NoLostWakeup, Objects
    <3> QED BY <1>3, <3>1
  <2>3. \A m \in Mutexes : owner[m] \notin Range(waiters'[m])
    <3> TAKE m \in Mutexes
    <3>1. owner[m] \notin Range(waiters[m]) /\ m \in Objects
      BY DEF NoLostWakeup, Objects
    <3>2. m = o => owner[m] # t
      BY <1>4
    <3>3. Range(waiters'[m]) = Range(waiters[m]) \cup (IF m = o THEN {t} ELSE {})
      BY <1>3, <3>1
    <3> QED BY <3>1, <3>2, <3>3
  <2> QED BY <2>1, <2>2, <2>3 DEF NoLostWakeup
<1>11. MutualExclusion'
  BY <1>1, <1>3, <1>6 DEF MutualExclusion
<1>12. CallMatchesTcb'
  <2>1. ASSUME NEW u \in Threads
        PROVE  /\ pc'[u] \in {"wfi", "awake"} <=> u = Idle
               /\ state'[u] # "READY" => pc'[u] = "resume"
               /\ pc'[u] \in {"checked", "resume", "refused"} =>
                    call[u] # "NONE" /\ arg[u] \in Arguments(call[u])
               /\ pc'[u] = "checked" => Refused(call[u], errs[u]) = {}
               /\ pc'[u] = "refused" => Misused(u)'
               /\ pc'[u] = "resume" => call[u] # "MUTEX_GIVE"
    <3>1. call[t] \notin {"NONE", "MUTEX_GIVE"}
      OBVIOUS
    <3>2. CASE u = t
      BY <1>1, <1>3, <1>6, <3>1, <3>2 DEF CallMatchesTcb
    <3>3. CASE u # t
      <4>1. state'[u] = state[u] /\ pc'[u] = pc[u]
        BY <1>3, <1>6, <3>3
      <4> QED BY <4>1 DEF Misused, CallMatchesTcb
    <3> QED BY <3>2, <3>3
  <2>2. ASSUME NEW u \in Threads
        PROVE  /\ state'[u] = "SLEEPING" => call[u] = "DELAY"
               /\ waitSem'[u] # NULL => call[u] = "SEMAPHORE" /\ arg[u] = waitSem'[u]
               /\ waitMutex'[u] # NULL => call[u] = "MUTEX_TAKE" /\ arg[u] = waitMutex'[u]
    BY <1>1, <1>3, <1>4, <1>5, <2>2 DEF CallMatchesTcb
  <2>3. ASSUME NEW u \in Threads, pc'[u] = "resume", call[u] = "MUTEX_TAKE",
               state'[u] = "READY"
        PROVE  owner'[arg[u]] = u /\ arg[u] \notin held[u]
    BY <1>3, <1>6, <2>3 DEF CallMatchesTcb
  <2> QED BY <2>1, <2>2, <2>3 DEF CallMatchesTcb
<1>13. SnapshotValid'
  BY <1>1, <1>6 DEF SnapshotValid, Alive, Tasks
<1>14. FaultOnlyOnMisuse' /\ BeforeLaunch'
  BY <1>2 DEF FaultOnlyOnMisuse, BeforeLaunch, Alive
<1> QED BY <1>7, <1>8, <1>9, <1>10, <1>11, <1>12, <1>13, <1>14

\* osBinSemTake and osCountSemTake: a stored token is taken at once, a caller
\* that must wait and may not is refused, and anybody else joins the queue.
LEMMA TakeStep ==
  ASSUME IInv, NEW t \in Tasks, Take(t)
  PROVE  IInv'
<1> DEFINE s == arg[t]
<1>1. /\ t \in Threads /\ t # Idle /\ t = currentPt /\ state[t] = "READY"
      /\ pc[t] = "checked" /\ call[t] = "SEMAPHORE" /\ s \in Sems
      /\ errs[t] = masks /\ masks \subseteq AppMasks /\ masks \in SUBSET ErrorBits
      /\ Alive /\ running /\ Executes(t)
  BY InCallFacts DEF Take, ContextCalls, Arguments
<1>2. s \in Objects /\ value[s] \in Nat
  BY <1>1 DEF Objects, IInv, TypeOK, SemaphoreTypeOK
<1>3. CASE value[s] > 0
  <2> USE DEF IInv, portVars, waitVars
  <2>1. /\ value' = [value EXCEPT ![s] = @ - 1]
        /\ UNCHANGED <<waitVars, state, pendSV, portVars>>
        /\ Returns(t) /\ credit' = [credit EXCEPT ![s] = @ - 1]
        /\ UNCHANGED <<running, currentPt, wakeAt, osTimeMs, held, slept>>
    BY <1>3 DEF Take, takeSignal
  <2> HIDE DEF s
  <2>2. value' \in [Sems -> Nat] /\ \A x \in Sems \ {s} : value'[x] = value[x]
    <3>1. value[s] - 1 \in Nat
      BY <1>2, <1>3
    <3> QED BY <2>1, <3>1 DEF TypeOK, SemaphoreTypeOK
  <2>3. /\ pc'[t] = "run" /\ call'[t] = "NONE" /\ arg'[t] = NULL /\ errs'[t] = {}
        /\ \A u \in Threads \ {t} : /\ pc'[u] = pc[u] /\ call'[u] = call[u]
                                     /\ arg'[u] = arg[u] /\ errs'[u] = errs[u]
    BY <1>1, <2>1 DEF Returns, TypeOK
  <2>4. TypeOK'
    <3>1. credit' \in [Sems -> Int]
      BY <1>1, <2>1 DEF TypeOK
    <3>2. /\ pc' \in [Threads -> Places]
          /\ call' \in [Threads -> ContextCalls \cup {"NONE"}]
          /\ arg' \in [Threads -> Delays \cup Objects \cup {NULL}]
          /\ errs' \in [Threads -> SUBSET ErrorBits]
      BY <2>1 DEF Returns, TypeOK, Places
    <3> QED BY <2>1, <2>2, <3>1, <3>2
        DEF TypeOK, PortTypeOK, KernelTypeOK, WaitTypeOK, SemaphoreTypeOK
  <2>5. OnlyReadyExecutes' /\ WaitRelation'
    BY <2>1 DEF OnlyReadyExecutes, WaitRelation, NotWaiting, SwitchDue,
           LowestPriorityEnabled, Alive
  <2>6. NoLostWakeup'
    BY <1>1, <1>3, <2>1, <2>2 DEF NoLostWakeup
  <2>7. MutualExclusion'
    BY <1>1, <2>1, <2>3 DEF MutualExclusion
  <2>8. NotWaiting(t)
    BY <1>1, RunningContext
  <2>9. CallMatchesTcb'
    BY <1>1, <2>1, <2>3, <2>8 DEF Misused, CallMatchesTcb, NotWaiting
  <2>10. SnapshotValid' /\ FaultOnlyOnMisuse' /\ BeforeLaunch'
    BY <1>1, <2>1, <2>3 DEF SnapshotValid, FaultOnlyOnMisuse, BeforeLaunch, Alive, Tasks
  <2> QED BY <2>4, <2>5, <2>6, <2>7, <2>9, <2>10
<1>4. CASE value[s] = 0 /\ masks # {}
  <2>1. TakeRefusal(s, errs[t]) = masks /\ ~(value[s] > 0)
    BY <1>1, <1>4 DEF TakeRefusal
  <2>2. /\ UNCHANGED <<value, waitVars, state, pendSV, portVars>>
        /\ Refuses(t, masks) /\ UNCHANGED credit
        /\ UNCHANGED <<running, currentPt, wakeAt, osTimeMs, held, slept>>
    BY <1>1, <1>4, <2>1 DEF Take, takeSignal
  <2>3. UNCHANGED <<portVars, kernelVars, waitVars, value, historyVars>>
    BY <2>2 DEF kernelVars, historyVars
  <2> QED BY <1>1, <1>4, <2>2, <2>3, RefuseStep
<1>5. CASE value[s] = 0 /\ masks = {}
  <2>1. /\ UNCHANGED value /\ osKernelBlockCurrentOnSemaphore(s)
        /\ osKernelRequestContextSwitch(TRUE)
        /\ Suspends(t) /\ UNCHANGED credit
        /\ UNCHANGED <<running, currentPt, wakeAt, osTimeMs, held, slept>>
    <3>1. ~(value[s] > 0) /\ ~(TakeRefusal(s, errs[t]) # {})
      BY <1>1, <1>5 DEF TakeRefusal
    <3> QED BY <3>1, Zenon DEF Take, takeSignal
  <2>2. CanPush(s, t)
    BY <1>1, <1>2, RunningContext, CanAlwaysPush
  <2>3. /\ Enqueue(s) /\ waitSem' = [waitSem EXCEPT ![t] = s]
        /\ UNCHANGED <<waitMutex, owner>>
    BY <1>1, <2>1, <2>2, RunningContext DEF osKernelBlockCurrentOnSemaphore
  <2>4. UNCHANGED <<masks, fault>> /\ fault' = NoFault
    BY <1>1, <2>3 DEF Enqueue, portVars, Alive
  <2>5. pendSV' = TRUE
    BY <2>1, <2>4 DEF osKernelRequestContextSwitch
  <2>6. pc' = [pc EXCEPT ![t] = "resume"] /\ UNCHANGED <<call, arg, errs, historyVars>>
    BY <2>1, <2>4 DEF Suspends, historyVars
  <2> QED BY <1>1, <1>2, <1>5, <2>1, <2>3, <2>4, <2>5, <2>6, BlockStep
<1> QED BY <1>2, <1>3, <1>4, <1>5

\* osMutexTake: a recursive call and a wait that is not allowed are refused, a
\* free mutex is entered, and anybody else joins the queue.
LEMMA MutexTakeStep ==
  ASSUME IInv, NEW t \in Tasks, MutexTake(t)
  PROVE  IInv'
<1> DEFINE m == arg[t]
<1>1. /\ t \in Threads /\ t # Idle /\ t = currentPt /\ state[t] = "READY"
      /\ pc[t] = "checked" /\ call[t] = "MUTEX_TAKE" /\ m \in Mutexes
      /\ errs[t] = masks /\ masks \subseteq AppMasks /\ masks \in SUBSET ErrorBits
      /\ Alive /\ running /\ Executes(t) /\ osKernelCurrentThreadIdentity = t
  BY InCallFacts, RunningContext DEF MutexTake, ContextCalls, Arguments
<1>2. m \in Objects /\ owner[m] \in Threads \cup {NULL} /\ t # NULL
  BY <1>1, ThreadsFacts DEF Objects, IInv, TypeOK, WaitTypeOK
<1>3. ASSUME NEW e \in SUBSET ErrorBits, MutexRefusal(m, errs[t]) = e, e # {},
             \/ e \subseteq AppMasks
             \/ e = {"MUTEX_RECURSION"} /\ m \in held[t]
      PROVE  IInv'
  <2>1. UNCHANGED <<mutexVars, portVars>> /\ Refuses(t, e) /\ UNCHANGED held
        /\ UNCHANGED <<running, currentPt, wakeAt, osTimeMs, value, credit, slept>>
    BY <1>3 DEF MutexTake, osMutexTake
  <2>2. UNCHANGED <<portVars, kernelVars, waitVars, value, historyVars>>
    BY <2>1 DEF kernelVars, historyVars, mutexVars
  <2> QED BY <1>1, <1>3, <2>1, <2>2, RefuseStep
<1>4. CASE owner[m] = t
  <2>1. MutexRefusal(m, errs[t]) = {"MUTEX_RECURSION"}
    BY <1>1, <1>4 DEF MutexRefusal
  <2>2. m \in held[t]
    BY <1>1, <1>4 DEF IInv, MutualExclusion
  <2>3. {"MUTEX_RECURSION"} \in SUBSET ErrorBits /\ {"MUTEX_RECURSION"} # {}
    BY DEF ErrorBits
  <2> QED BY <1>3, <2>1, <2>2, <2>3
<1>5. CASE owner[m] = NULL
  <2> USE DEF IInv, portVars, waitVars
  <2>1. waiters[m] = <<>>
    BY <1>1, <1>5 DEF NoLostWakeup
  <2>0. ~(MutexRefusal(m, errs[t]) # {})
    BY <1>1, <1>2, <1>5 DEF MutexRefusal
  <2>2. /\ owner' = [owner EXCEPT ![m] = t]
        /\ UNCHANGED <<waiters, waitSem, waitMutex, state, pendSV, portVars>>
    BY <1>1, <1>5, <2>0, <2>1 DEF MutexTake, osMutexTake
  <2>3. /\ Returns(t) /\ held' = [held EXCEPT ![t] = @ \cup {m}]
        /\ UNCHANGED <<running, currentPt, wakeAt, osTimeMs, value, credit, slept>>
    BY <1>1, <1>5, <2>0, <2>2 DEF MutexTake, Alive
  <2> HIDE DEF m
  <2>4. /\ pc'[t] = "run" /\ call'[t] = "NONE" /\ arg'[t] = NULL /\ errs'[t] = {}
        /\ held'[t] = held[t] \cup {m}
        /\ \A u \in Threads \ {t} : /\ pc'[u] = pc[u] /\ call'[u] = call[u]
                                     /\ arg'[u] = arg[u] /\ errs'[u] = errs[u]
                                     /\ held'[u] = held[u]
    BY <1>1, <2>3 DEF Returns, TypeOK
  <2>5. /\ owner' \in [Mutexes -> Threads \cup {NULL}]
        /\ owner'[m] = t /\ \A x \in Mutexes \ {m} : owner'[x] = owner[x]
    BY <1>1, <2>2 DEF TypeOK, WaitTypeOK
  <2>6. TypeOK'
    <3>1. held' \in [Threads -> SUBSET Mutexes]
      BY <1>1, <2>3 DEF TypeOK
    <3>2. /\ pc' \in [Threads -> Places]
          /\ call' \in [Threads -> ContextCalls \cup {"NONE"}]
          /\ arg' \in [Threads -> Delays \cup Objects \cup {NULL}]
          /\ errs' \in [Threads -> SUBSET ErrorBits]
      BY <2>3 DEF Returns, TypeOK, Places
    <3> QED BY <2>2, <2>3, <2>5, <3>1, <3>2
        DEF TypeOK, PortTypeOK, KernelTypeOK, WaitTypeOK, SemaphoreTypeOK
  <2>7. OnlyReadyExecutes' /\ WaitRelation'
    BY <2>2, <2>3 DEF OnlyReadyExecutes, WaitRelation, NotWaiting, SwitchDue,
           LowestPriorityEnabled, Alive
  <2>8. NoLostWakeup'
    <3>1. \A x \in Mutexes : owner'[x] \notin Range(waiters[x])
      <4>1. Range(<<>>) = {}
        BY DEF Range
      <4> QED BY <2>1, <2>5, <4>1 DEF NoLostWakeup
    <3> QED BY <1>2, <2>2, <2>3, <2>5, <3>1 DEF NoLostWakeup
  <2>9. MutualExclusion'
    <3>1. \A u \in Threads : m \notin held[u]
      BY <1>1, <1>5, ThreadsFacts DEF MutualExclusion
    <3>2. ASSUME NEW x \in Mutexes, NEW u \in Threads
          PROVE  /\ x \in held'[u] => owner'[x] = u
                 /\ owner'[x] = u /\ x \notin held'[u] =>
                      pc'[u] = "resume" /\ call'[u] = "MUTEX_TAKE" /\ arg'[u] = x
                        /\ state'[u] = "READY"
      <4>1. /\ x \in held[u] => owner[x] = u
            /\ owner[x] = u /\ x \notin held[u] =>
                 pc[u] = "resume" /\ call[u] = "MUTEX_TAKE" /\ arg[u] = x /\ state[u] = "READY"
        BY <3>2 DEF MutualExclusion
      <4>2. CASE x = m
        BY <2>4, <2>5, <3>1, <4>2
      <4>3. CASE x # m /\ u = t
        BY <1>1, <2>4, <2>5, <4>1, <4>3
      <4>4. CASE x # m /\ u # t
        BY <2>2, <2>4, <2>5, <4>1, <4>4
      <4> QED BY <4>2, <4>3, <4>4
    <3> QED BY <3>2 DEF MutualExclusion
  <2>10. NotWaiting(t)
    BY <1>1, RunningContext
  <2>11. CallMatchesTcb'
    <3>1. \A u \in Threads : pc[u] = "resume" /\ call[u] = "MUTEX_TAKE" /\ state[u] = "READY"
            => arg[u] # m /\ arg[u] \in Mutexes
      BY <1>2, <1>5, ThreadsFacts DEF CallMatchesTcb, Arguments
    <3> QED BY <1>1, <2>2, <2>4, <2>5, <2>10, <3>1 DEF Misused, CallMatchesTcb, NotWaiting
  <2>12. SnapshotValid' /\ FaultOnlyOnMisuse' /\ BeforeLaunch'
    BY <1>1, <2>2, <2>3, <2>4 DEF SnapshotValid, FaultOnlyOnMisuse, BeforeLaunch, Alive, Tasks
  <2> QED BY <2>6, <2>7, <2>8, <2>9, <2>11, <2>12
<1>6. CASE owner[m] \in Threads \ {t} /\ masks # {}
  <2>1. MutexRefusal(m, errs[t]) = masks
    BY <1>1, <1>6, ThreadsFacts DEF MutexRefusal
  <2> QED BY <1>1, <1>3, <1>6, <2>1
<1>7. CASE owner[m] \in Threads \ {t} /\ masks = {}
  <2>0. owner[m] # NULL /\ ~(MutexRefusal(m, errs[t]) # {})
    BY <1>1, <1>7, ThreadsFacts DEF MutexRefusal
  <2>1. osKernelBlockCurrentOnMutex(m) /\ osKernelRequestContextSwitch(TRUE)
    BY <2>0, Zenon DEF MutexTake, osMutexTake
  <2>2. Suspends(t) /\ UNCHANGED held
        /\ UNCHANGED <<running, currentPt, wakeAt, osTimeMs, value, credit, slept>>
    BY <2>0 DEF MutexTake
  <2>3. CanPush(m, t)
    BY <1>1, <1>2, RunningContext, CanAlwaysPush
  <2>4. /\ Enqueue(m) /\ waitMutex' = [waitMutex EXCEPT ![t] = m]
        /\ UNCHANGED <<waitSem, owner>>
    BY <1>1, <1>7, <2>1, <2>3, RunningContext DEF osKernelBlockCurrentOnMutex
  <2>5. UNCHANGED <<masks, fault>> /\ fault' = NoFault
    BY <1>1, <2>4 DEF Enqueue, portVars, Alive
  <2>6. pendSV' = TRUE
    BY <2>1, <2>5 DEF osKernelRequestContextSwitch
  <2>7. pc' = [pc EXCEPT ![t] = "resume"] /\ UNCHANGED <<call, arg, errs, historyVars>>
    BY <2>2, <2>5 DEF Suspends, historyVars
  <2> QED BY <1>1, <1>2, <1>7, <2>2, <2>4, <2>5, <2>6, <2>7, BlockStep
<1> QED BY <1>2, <1>4, <1>5, <1>6, <1>7

(***************************************************************************)
(* Giving a mutex back.                                                    *)
(***************************************************************************)

\* Bookkeeping of a task that returns from osMutexGive.
LEMMA GiveReturns ==
  ASSUME IInv, NEW t \in Threads, Returns(t), NEW m,
         held' = [held EXCEPT ![t] = @ \ {m}]
  PROVE  /\ pc'[t] = "run" /\ call'[t] = "NONE" /\ arg'[t] = NULL /\ errs'[t] = {}
         /\ held'[t] = held[t] \ {m}
         /\ \A u \in Threads \ {t} : /\ pc'[u] = pc[u] /\ call'[u] = call[u]
                                      /\ arg'[u] = arg[u] /\ errs'[u] = errs[u]
                                      /\ held'[u] = held[u]
         /\ pc' \in [Threads -> Places]
         /\ call' \in [Threads -> ContextCalls \cup {"NONE"}]
         /\ arg' \in [Threads -> Delays \cup Objects \cup {NULL}]
         /\ errs' \in [Threads -> SUBSET ErrorBits]
         /\ held' \in [Threads -> SUBSET Mutexes]
  BY DEF Returns, IInv, TypeOK, Places

\* osMutexGive by the owner while somebody waits: the oldest waiter owns the
\* mutex in the same critical section.
LEMMA HandoffStep ==
  ASSUME IInv, NEW t \in Tasks, NEW m \in Mutexes, Executes(t), pc[t] = "checked",
         owner[m] = t, waiters[m] # <<>>, Returns(t), osMutexGive(m),
         held' = [held EXCEPT ![t] = @ \ {m}],
         UNCHANGED <<running, currentPt, wakeAt, osTimeMs, value, credit, slept>>
  PROVE  IInv'
<1> USE DEF IInv, portVars, waitVars
<1> DEFINE h == Head(waiters[m])
<1>1. /\ t \in Threads /\ t # Idle /\ t = currentPt /\ state[t] = "READY" /\ NotWaiting(t)
      /\ osKernelHasRunnableCaller /\ osKernelCurrentThreadIdentity = t /\ t # NULL
  BY RunningContext, ThreadsFacts
<1>2. Alive /\ running /\ m \in Objects /\ m # NULL
  BY ObjectsAssumption DEF Executes, Objects
<1>3. /\ h \in Threads /\ h # Idle /\ h # t /\ state[h] = "BLOCKED" /\ h \in Range(waiters[m])
      /\ waitMutex[h] = m /\ waitSem[h] = NULL
  BY <1>1, <1>2, OldestWaiter
<1>4. osKernelReleaseMutex(m) /\ osKernelRequestContextSwitch(TRUE)
  BY <1>1 DEF osMutexGive
<1>5. /\ Dequeue(m) /\ owner' = [owner EXCEPT ![m] = h]
      /\ waitMutex' = [waitMutex EXCEPT ![h] = NULL]
      /\ UNCHANGED waitSem
  BY <1>1, <1>3, <1>4 DEF osKernelReleaseMutex
<1> HIDE DEF h
<1>6. UNCHANGED <<masks, fault>> /\ fault' = NoFault
  BY <1>2, <1>5 DEF Dequeue, Alive
<1>7. pendSV' = TRUE
  BY <1>4, <1>6 DEF osKernelRequestContextSwitch
<1>8. /\ waiters' \in [Objects -> Seq(Threads)]
      /\ \A p \in Objects :
           /\ IsInjective(waiters'[p])
           /\ Range(waiters'[p]) = Range(waiters[p]) \ {h}
           /\ p # m => waiters'[p] = waiters[p]
      /\ state' \in [Threads -> {"READY", "BLOCKED", "SLEEPING"}]
      /\ state'[h] = "READY"
      /\ \A u \in Threads \ {h} : state'[u] = state[u]
  BY <1>2, <1>5, DequeueFacts DEF h
<1>9. /\ owner' \in [Mutexes -> Threads \cup {NULL}]
      /\ owner'[m] = h /\ \A x \in Mutexes \ {m} : owner'[x] = owner[x]
      /\ waitMutex' \in [Threads -> Mutexes \cup {NULL}]
      /\ waitMutex'[h] = NULL /\ \A u \in Threads \ {h} : waitMutex'[u] = waitMutex[u]
  BY <1>3, <1>5 DEF TypeOK, WaitTypeOK
<1>10. /\ pc'[t] = "run" /\ call'[t] = "NONE" /\ arg'[t] = NULL /\ errs'[t] = {}
       /\ held'[t] = held[t] \ {m}
       /\ \A u \in Threads \ {t} : /\ pc'[u] = pc[u] /\ call'[u] = call[u]
                                    /\ arg'[u] = arg[u] /\ errs'[u] = errs[u]
                                    /\ held'[u] = held[u]
       /\ pc' \in [Threads -> Places]
       /\ call' \in [Threads -> ContextCalls \cup {"NONE"}]
       /\ arg' \in [Threads -> Delays \cup Objects \cup {NULL}]
       /\ errs' \in [Threads -> SUBSET ErrorBits]
       /\ held' \in [Threads -> SUBSET Mutexes]
  BY <1>1, GiveReturns
<1>11. /\ pc[h] = "resume" /\ call[h] = "MUTEX_TAKE" /\ arg[h] = m
       /\ \A u \in Threads : m \in held[u] => u = t
  BY <1>2, <1>3 DEF CallMatchesTcb, MutualExclusion
<1>12. TypeOK'
  BY <1>5, <1>6, <1>7, <1>8, <1>9, <1>10
  DEF TypeOK, PortTypeOK, KernelTypeOK, WaitTypeOK, SemaphoreTypeOK
<1>13. OnlyReadyExecutes'
  BY <1>1, <1>3, <1>8 DEF OnlyReadyExecutes
<1>14. WaitRelation'
  <2>1. ASSUME NEW p \in Objects, NEW u \in Threads
        PROVE  /\ u \in Range(waiters'[p]) <=> p \in {waitSem'[u], waitMutex'[u]}
               /\ u \in Range(waiters'[p]) => state'[u] = "BLOCKED"
    <3>1. /\ u \in Range(waiters[p]) <=> p \in {waitSem[u], waitMutex[u]}
          /\ u \in Range(waiters[p]) => state[u] = "BLOCKED"
      BY <2>1 DEF WaitRelation
    <3>2. Range(waiters'[p]) = Range(waiters[p]) \ {h}
      BY <1>8, <2>1
    <3>3. p # NULL
      BY <2>1, ObjectsAssumption DEF Objects
    <3>4. CASE u = h
      BY <1>3, <1>5, <1>9, <3>1, <3>2, <3>3, <3>4
    <3>5. CASE u # h
      <4>1. /\ u \in Range(waiters'[p]) <=> u \in Range(waiters[p])
            /\ waitSem'[u] = waitSem[u] /\ waitMutex'[u] = waitMutex[u] /\ state'[u] = state[u]
        BY <1>5, <1>8, <1>9, <3>2, <3>5
      <4> QED BY <3>1, <4>1
    <3> QED BY <3>4, <3>5
  <2>2. ASSUME NEW u \in Threads
        PROVE  /\ state'[u] = "BLOCKED" <=> ~(waitSem'[u] = NULL /\ waitMutex'[u] = NULL)
               /\ waitSem'[u] = NULL \/ waitMutex'[u] = NULL
    BY <1>3, <1>5, <1>8, <1>9, <2>2 DEF WaitRelation, NotWaiting
  <2> QED BY <1>8, <2>1, <2>2 DEF WaitRelation, NotWaiting
<1>15. NoLostWakeup'
  <2>1. \A s \in Sems : s \in Objects /\ s # m
    BY ObjectsAssumption DEF Objects
  <2>2. \A x \in Mutexes : x \in Objects
    BY DEF Objects
  <2>3. \A x \in Mutexes : owner'[x] = NULL => waiters'[x] = <<>>
    <3> TAKE x \in Mutexes
    <3> HAVE owner'[x] = NULL
    <3>1. x # m /\ owner[x] = NULL
      BY <1>3, <1>9, ThreadsFacts
    <3>2. waiters[x] = <<>>
      BY <3>1 DEF NoLostWakeup
    <3> QED BY <1>8, <2>2, <3>1, <3>2
  <2>4. \A x \in Mutexes : owner'[x] \notin Range(waiters'[x])
    BY <1>8, <1>9, <2>2 DEF NoLostWakeup
  <2>5. \A s \in Sems : value'[s] > 0 => waiters'[s] = <<>>
    BY <1>8, <2>1 DEF NoLostWakeup
  <2> QED BY <2>3, <2>4, <2>5 DEF NoLostWakeup
<1>16. MutualExclusion'
  <2>1. ASSUME NEW x \in Mutexes, NEW u \in Threads
        PROVE  /\ x \in held'[u] => owner'[x] = u
               /\ owner'[x] = u /\ x \notin held'[u] =>
                    pc'[u] = "resume" /\ call'[u] = "MUTEX_TAKE" /\ arg'[u] = x
                      /\ state'[u] = "READY"
    <3>1. /\ x \in held[u] => owner[x] = u
          /\ owner[x] = u /\ x \notin held[u] =>
               pc[u] = "resume" /\ call[u] = "MUTEX_TAKE" /\ arg[u] = x /\ state[u] = "READY"
      BY <2>1 DEF MutualExclusion
    <3>2. CASE x = m
      BY <1>3, <1>8, <1>9, <1>10, <1>11, <3>2
    <3>3. CASE x # m /\ u = t
      BY <1>9, <1>10, <3>1, <3>3
    <3>4. CASE x # m /\ u # t
      <4>1. state[u] = "READY" => state'[u] = "READY"
        BY <1>8
      <4> QED BY <1>9, <1>10, <3>1, <3>4, <4>1
    <3> QED BY <3>2, <3>3, <3>4
  <2> QED BY <2>1 DEF MutualExclusion
<1>17. CallMatchesTcb'
  <2>1. ASSUME NEW u \in Threads
        PROVE  /\ pc'[u] \in {"wfi", "awake"} <=> u = Idle
               /\ state'[u] # "READY" => pc'[u] = "resume"
               /\ pc'[u] \in {"checked", "resume", "refused"} =>
                    call'[u] # "NONE" /\ arg'[u] \in Arguments(call'[u])
               /\ pc'[u] = "checked" => Refused(call'[u], errs'[u]) = {}
               /\ pc'[u] = "refused" => Misused(u)'
               /\ pc'[u] = "resume" => call'[u] # "MUTEX_GIVE"
    <3>1. CASE u = t
      BY <1>1, <1>3, <1>8, <1>10, <3>1
    <3>2. CASE u # t
      <4>1. state'[u] # "READY" => state[u] # "READY"
        BY <1>8
      <4>2. /\ pc'[u] = pc[u] /\ call'[u] = call[u]
            /\ arg'[u] = arg[u] /\ errs'[u] = errs[u]
        BY <1>10, <3>2
      <4> QED BY <4>1, <4>2 DEF Misused, CallMatchesTcb
    <3> QED BY <3>1, <3>2
  <2>2. ASSUME NEW u \in Threads
        PROVE  /\ state'[u] = "SLEEPING" => call'[u] = "DELAY"
               /\ waitSem'[u] # NULL => call'[u] = "SEMAPHORE" /\ arg'[u] = waitSem'[u]
               /\ waitMutex'[u] # NULL => call'[u] = "MUTEX_TAKE" /\ arg'[u] = waitMutex'[u]
    <3>1. CASE u = t
      BY <1>1, <1>3, <1>5, <1>8, <1>9, <1>10, <3>1 DEF NotWaiting
    <3>2. CASE u # t
      BY <1>3, <1>5, <1>8, <1>9, <1>10, <3>2 DEF Misused, CallMatchesTcb
    <3> QED BY <3>1, <3>2
  <2>3. ASSUME NEW u \in Threads, pc'[u] = "resume", call'[u] = "MUTEX_TAKE",
               state'[u] = "READY"
        PROVE  owner'[arg'[u]] = u /\ arg'[u] \notin held'[u]
    <3>1. u # t /\ pc[u] = "resume" /\ call[u] = "MUTEX_TAKE" /\ arg'[u] = arg[u]
          /\ held'[u] = held[u]
      BY <1>10, <2>3
    <3>2. CASE u = h
      BY <1>3, <1>9, <1>11, <3>1, <3>2
    <3>3. CASE u # h
      <4>1. owner[arg[u]] = u /\ arg[u] \notin held[u] /\ arg[u] \in Mutexes
        BY <1>8, <2>3, <3>1, <3>3 DEF CallMatchesTcb, Arguments
      <4>2. arg[u] # m
        BY <3>1, <4>1
      <4> QED BY <1>9, <3>1, <4>1, <4>2
    <3> QED BY <3>2, <3>3
  <2> QED BY <2>1, <2>2, <2>3 DEF CallMatchesTcb
<1>18. SnapshotValid' /\ FaultOnlyOnMisuse' /\ BeforeLaunch'
  BY <1>1, <1>2, <1>6, <1>10 DEF SnapshotValid, FaultOnlyOnMisuse, BeforeLaunch, Alive, Tasks
<1> QED BY <1>12, <1>13, <1>14, <1>15, <1>16, <1>17, <1>18

\* osMutexGive: refused without effect for anybody but the owner; the owner
\* frees the mutex or hands it over.
LEMMA MutexGiveStep ==
  ASSUME IInv, NEW t \in Tasks, MutexGive(t)
  PROVE  IInv'
<1> DEFINE m == arg[t]
<1> USE DEF portVars, waitVars
<1>1. /\ t \in Threads /\ t # Idle /\ t = currentPt /\ state[t] = "READY"
      /\ pc[t] = "checked" /\ call[t] = "MUTEX_GIVE" /\ m \in Mutexes
      /\ Alive /\ running /\ Executes(t) /\ osKernelCurrentThreadIdentity = t
      /\ osKernelHasRunnableCaller /\ NotWaiting(t)
  BY InCallFacts, RunningContext DEF MutexGive, ContextCalls, Arguments
<1>2. osMutexGive(m) /\ UNCHANGED <<running, currentPt, wakeAt, osTimeMs, value, credit, slept>>
  BY DEF MutexGive
<1>3. CASE owner[m] = t /\ waiters[m] # <<>>
  <2>1. osKernelReleaseMutex(m)
    BY <1>1, <1>2, <1>3 DEF osMutexGive
  <2>2. LET h == Head(waiters[m])
        IN  h \in Threads /\ h # t /\ state[h] = "BLOCKED" /\ waitMutex[h] = m /\ waitSem[h] = NULL
    BY <1>1, <1>3, OldestWaiter DEF Objects
  <2>3. fault' = NoFault
    BY <1>1, <1>3, <2>1, <2>2 DEF osKernelReleaseMutex, Dequeue, Alive
  <2>4. Returns(t) /\ held' = [held EXCEPT ![t] = @ \ {m}]
    BY <2>3 DEF MutexGive
  <2> QED BY <1>1, <1>2, <1>3, <2>4, HandoffStep
<1>4. CASE owner[m] # t \/ waiters[m] = <<>>
  <2>1. /\ owner' = IF owner[m] = t THEN [owner EXCEPT ![m] = NULL] ELSE owner
        /\ UNCHANGED <<waiters, waitSem, waitMutex, state, pendSV, portVars>>
    <3>1. CASE owner[m] # t
      BY <1>1, <1>2, <3>1 DEF osMutexGive, mutexVars
    <3>2. CASE owner[m] = t
      <4>1. /\ owner' = [owner EXCEPT ![m] = NULL]
            /\ UNCHANGED <<waiters, waitSem, waitMutex, state, portVars>>
        BY <1>1, <1>2, <1>4, <3>2 DEF osMutexGive, osKernelReleaseMutex
      <4>2. pendSV' = (pendSV \/ FALSE)
        BY <1>1, <1>2, <1>4, <3>2 DEF osMutexGive, osKernelRequestContextSwitch
      <4>3. pendSV \in BOOLEAN
        BY DEF IInv, TypeOK, KernelTypeOK
      <4> QED BY <3>2, <4>1, <4>2, <4>3
    <3> QED BY <3>1, <3>2
  <2>2. Returns(t) /\ held' = [held EXCEPT ![t] = @ \ {m}]
    BY <1>1, <2>1 DEF MutexGive, Alive
  <2> HIDE DEF m
  <2>3. /\ pc'[t] = "run" /\ call'[t] = "NONE" /\ arg'[t] = NULL /\ errs'[t] = {}
        /\ held'[t] = held[t] \ {m}
        /\ \A u \in Threads \ {t} : /\ pc'[u] = pc[u] /\ call'[u] = call[u]
                                     /\ arg'[u] = arg[u] /\ errs'[u] = errs[u]
                                     /\ held'[u] = held[u]
        /\ pc' \in [Threads -> Places]
        /\ call' \in [Threads -> ContextCalls \cup {"NONE"}]
        /\ arg' \in [Threads -> Delays \cup Objects \cup {NULL}]
        /\ errs' \in [Threads -> SUBSET ErrorBits]
        /\ held' \in [Threads -> SUBSET Mutexes]
    BY <1>1, <2>2, GiveReturns
  <2>4. /\ owner' \in [Mutexes -> Threads \cup {NULL}]
        /\ owner'[m] = (IF owner[m] = t THEN NULL ELSE owner[m])
        /\ \A x \in Mutexes \ {m} : owner'[x] = owner[x]
    BY <1>1, <2>1 DEF IInv, TypeOK, WaitTypeOK
  <2> USE DEF IInv
  <2>5. TypeOK'
    BY <1>2, <2>1, <2>3, <2>4 DEF TypeOK, PortTypeOK, KernelTypeOK, WaitTypeOK, SemaphoreTypeOK
  <2>6. OnlyReadyExecutes' /\ WaitRelation'
    BY <1>2, <2>1 DEF OnlyReadyExecutes, WaitRelation, NotWaiting, SwitchDue,
           LowestPriorityEnabled, Alive
  <2>7. NoLostWakeup'
    <3>1. Range(<<>>) = {}
      BY DEF Range
    <3>2. ASSUME NEW x \in Mutexes
          PROVE  /\ owner'[x] = NULL => waiters[x] = <<>>
                 /\ owner'[x] \notin Range(waiters[x])
      <4>1. /\ owner[x] = NULL => waiters[x] = <<>>
            /\ owner[x] \notin Range(waiters[x])
        BY <3>2 DEF NoLostWakeup
      <4> QED BY <1>4, <2>4, <3>1, <4>1
    <3>3. \A s \in Sems : value'[s] > 0 => waiters'[s] = <<>>
      BY <1>2, <2>1 DEF NoLostWakeup
    <3> QED BY <2>1, <3>2, <3>3 DEF NoLostWakeup
  <2>8. MutualExclusion'
    <3>1. ASSUME NEW x \in Mutexes, NEW u \in Threads
          PROVE  /\ x \in held'[u] => owner'[x] = u
                 /\ owner'[x] = u /\ x \notin held'[u] =>
                      pc'[u] = "resume" /\ call'[u] = "MUTEX_TAKE" /\ arg'[u] = x
                        /\ state'[u] = "READY"
      <4>1. /\ x \in held[u] => owner[x] = u
            /\ owner[x] = u /\ x \notin held[u] =>
                 pc[u] = "resume" /\ call[u] = "MUTEX_TAKE" /\ arg[u] = x /\ state[u] = "READY"
        BY <3>1 DEF MutualExclusion
      <4>2. owner'[x] = u => owner[x] = u
        BY <2>4, ThreadsFacts, <3>1
      <4>3. CASE u = t
        BY <1>1, <2>3, <2>4, <4>1, <4>2, <4>3, ThreadsFacts
      <4>4. CASE u # t
        BY <2>1, <2>3, <2>4, <4>1, <4>2, <4>4
      <4> QED BY <4>3, <4>4
    <3> QED BY <3>1 DEF MutualExclusion
  <2>9. CallMatchesTcb'
    <3>1. ASSUME NEW u \in Threads, pc[u] = "resume", call[u] = "MUTEX_TAKE", state[u] = "READY"
          PROVE  arg[u] \in Mutexes /\ owner'[arg[u]] = u
      <4>1. arg[u] \in Mutexes /\ owner[arg[u]] = u /\ u # t
        BY <1>1, <3>1 DEF CallMatchesTcb, Arguments
      <4> QED BY <2>4, <4>1
    <3>2. ASSUME NEW u \in Threads
          PROVE  /\ pc'[u] \in {"wfi", "awake"} <=> u = Idle
                 /\ state[u] # "READY" => pc'[u] = "resume"
                 /\ pc'[u] \in {"checked", "resume", "refused"} =>
                      call'[u] # "NONE" /\ arg'[u] \in Arguments(call'[u])
                 /\ pc'[u] = "checked" => Refused(call'[u], errs'[u]) = {}
                 /\ pc'[u] = "refused" => Misused(u)'
                 /\ pc'[u] = "resume" => call'[u] # "MUTEX_GIVE"
                 /\ state[u] = "SLEEPING" => call'[u] = "DELAY"
                 /\ waitSem[u] # NULL => call'[u] = "SEMAPHORE" /\ arg'[u] = waitSem[u]
                 /\ waitMutex[u] # NULL => call'[u] = "MUTEX_TAKE" /\ arg'[u] = waitMutex[u]
                 /\ pc'[u] = "resume" /\ call'[u] = "MUTEX_TAKE" /\ state[u] = "READY" =>
                      owner'[arg'[u]] = u /\ arg'[u] \notin held'[u]
      <4>1. CASE u = t
        BY <1>1, <2>3, <4>1 DEF NotWaiting
      <4>2. CASE u # t
        <5>1. /\ pc'[u] = pc[u] /\ call'[u] = call[u] /\ arg'[u] = arg[u]
              /\ errs'[u] = errs[u] /\ held'[u] = held[u]
          BY <2>3, <4>2
        <5> QED BY <3>1, <5>1 DEF Misused, CallMatchesTcb
      <4> QED BY <4>1, <4>2
    <3> QED BY <2>1, <3>2 DEF CallMatchesTcb
  <2>10. SnapshotValid' /\ FaultOnlyOnMisuse' /\ BeforeLaunch'
    BY <1>1, <1>2, <2>1, <2>3 DEF SnapshotValid, FaultOnlyOnMisuse, BeforeLaunch, Alive, Tasks
  <2> QED BY <2>5, <2>6, <2>7, <2>8, <2>9, <2>10
<1> QED BY <1>3, <1>4

(***************************************************************************)
(* The specification.                                                      *)
(***************************************************************************)

\* Every step of the kernel, its tasks and its handlers preserves IInv.
LEMMA NextStep ==
  ASSUME IInv, Next
  PROVE  IInv'
<1>1. ASSUME NEW t \in Tasks, TaskStep(t)
      PROVE  IInv'
  <2>1. CASE \E c \in ContextCalls : \E a \in Arguments(c) : CheckContext(t, c, a)
    BY <2>1, CheckContextStep
  <2>11. CASE BlockingFault(t)
    BY <2>11, BlockingFaultStep
  <2>2. CASE osDelay(t)
    BY <2>2, DelayStep
  <2>3. CASE Take(t)
    BY <2>3, TakeStep
  <2>4. CASE MutexTake(t)
    BY <2>4, MutexTakeStep
  <2>5. CASE MutexGive(t)
    BY <2>5, MutexGiveStep
  <2>6. CASE Return(t)
    BY <2>6, ReturnStep
  <2>7. CASE \E s \in Sems : TaskGive(t, s)
    BY <2>7, ThreadGiveStep DEF TaskGive, Executes
  <2>8. CASE TaskYield(t)
    BY <2>8, YieldStep
  <2>9. CASE \E r \in MaskRegisters : SetMask(t, r) \/ ClearMask(t, r)
    BY <2>9, MaskStep
  <2>10. CASE osThreadExit(t)
    BY <2>10, ExitStep
  <2> QED
    BY <1>1, <2>1, <2>2, <2>3, <2>4, <2>5, <2>6, <2>7, <2>8, <2>9, <2>10, <2>11
    DEF TaskStep
<1>2. CASE IdleYield
  BY <1>2, IdleYieldStep
<1>3. CASE Interrupt
  <2>1. CASE Switch
    BY <2>1, SwitchStep
  <2>2. CASE Quantum
    BY <2>2, QuantumStep
  <2>3. CASE TIM2_IRQHandler
    BY <2>3, TickStep
  <2>4. CASE \E s \in Sems : HandlerGive(s)
    BY <2>4, HandlerGiveStep
  <2>5. CASE \E c \in ContextCalls : \E a \in Arguments(c) : HandlerContextCall(c, a)
    BY <2>5, HandlerContextCallStep
  <2> QED BY <1>3, <2>1, <2>2, <2>3, <2>4, <2>5 DEF Interrupt
<1>4. CASE Main
  <2>1. CASE Launch
    BY <2>1, LaunchStep
  <2>2. CASE \E s \in Sems : MainGive(s)
    BY <2>2, ThreadGiveStep DEF MainGive
  <2>3. CASE \E c \in ContextCalls : \E a \in Arguments(c) : MainContextCall(c, a)
    BY <2>3, MainContextCallStep
  <2> QED BY <1>4, <2>1, <2>2, <2>3 DEF Main
<1>5. CASE Stopped
  BY <1>5, StutterStep DEF Stopped
<1> QED BY <1>1, <1>2, <1>3, <1>4, <1>5 DEF Next

\* The strengthened invariant is inductive: it holds initially, every step
\* preserves it, and so it holds in every reachable state.
THEOREM Invariance == Spec => []IInv
<1>1. Init => IInv
  BY InitIInv
<1>2. IInv /\ [Next]_vars => IInv'
  BY NextStep, StutterStep
<1> QED BY <1>1, <1>2, PTL DEF Spec

\* Every variable keeps its type; the counters stay inside their width.
THEOREM TypeCorrectness == Spec => []TypeOK
<1>1. IInv => TypeOK
  BY DEF IInv
<1> QED BY <1>1, Invariance, PTL

\* osYield and PendSV: no instruction of a blocked or sleeping task executes.
THEOREM DispatchSafety == Spec => []OnlyReadyExecutes
<1>1. IInv => OnlyReadyExecutes
  BY DEF IInv
<1> QED BY <1>1, Invariance, PTL

\* osKernelWait.c: queues, TCB back references and BLOCKED states agree.
THEOREM WaitRelationSafety == Spec => []WaitRelation
<1>1. IInv => WaitRelation
  BY DEF IInv
<1> QED BY <1>1, Invariance, PTL

\* giveSignal and osKernelReleaseMutex: nobody waits for what is available.
THEOREM WakeupSafety == Spec => []NoLostWakeup
<1>1. IInv => NoLostWakeup
  BY DEF IInv
<1> QED BY <1>1, Invariance, PTL

\* osMutex.c: a Take that returned excludes every other task until the Give.
THEOREM MutualExclusionSafety == Spec => []MutualExclusion
<1>1. IInv => MutualExclusion
  BY DEF IInv
<1> QED BY <1>1, Invariance, PTL

\* takeSignal and osMutexTake: the context captured before the critical section
\* is still the caller's context inside it.
THEOREM SnapshotSafety == Spec => []SnapshotValid
<1>1. IInv => SnapshotValid
  BY DEF IInv
<1> QED BY <1>1, Invariance, PTL

\* osPortBlockingFault is entered only on misuse: the kernel's own checks of
\* its queues and TCBs (WAIT_QUEUE) never fail.
THEOREM FaultSafety == Spec => []FaultOnlyOnMisuse
<1>1. IInv => FaultOnlyOnMisuse
  BY DEF IInv
<1> QED BY <1>1, Invariance, PTL
=============================================================================
