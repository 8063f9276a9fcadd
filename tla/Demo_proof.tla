----------------------------- MODULE Demo_proof -----------------------------
(***************************************************************************)
(* What the proofs about the demonstration applications share: what each   *)
(* form of an application's step does to the kernel.  Each of them is a    *)
(* step of the kernel, so the invariant of the kernel holds around it.      *)
(***************************************************************************)
EXTENDS Demo, TinyKernelSteps_proof

(***************************************************************************)
(* Counters that wrap.                                                     *)
(***************************************************************************)

\* The remainder of a number that is written as a multiple of m and a rest.
LEMMA Remainder ==
  ASSUME NEW m \in Nat \ {0}, NEW q \in Nat, NEW r \in 0..(m - 1)
  PROVE  (m * q + r) % m = r
  OBVIOUS

\* A counter that wraps before something is added shows what the whole sum does.
LEMMA RemainderOfSum ==
  ASSUME NEW m \in Nat \ {0}, NEW x \in Nat, NEW y \in Nat
  PROVE  ((x % m) + y) % m = (x + y) % m
<1> DEFINE r == x % m
           q == x \div m
           s == r + y
           u == s \div m
           v == s % m
<1>1. r \in 0..(m - 1) /\ q \in Nat /\ x = m * q + r
  OBVIOUS
<1>2. s \in Nat
  BY <1>1
<1> HIDE DEF r, q, s
<1>3. v \in 0..(m - 1) /\ u \in Nat /\ s = m * u + v
  BY <1>2
<1> HIDE DEF u, v
<1>4. x + y = m * (q + u) + v /\ q + u \in Nat
  BY <1>1, <1>3 DEF s
<1>5. (m * (q + u) + v) % m = v
  BY <1>3, <1>4, Remainder
<1> QED BY <1>4, <1>5 DEF v, s, r

\* Up counts modulo CounterLimit, after a sum is taken and before it.
LEMMA UpFacts ==
  ASSUME CounterLimit \in Nat \ {0}, NEW n \in Nat, NEW k \in Nat
  PROVE  /\ Up(n) \in 0..(CounterLimit - 1)
         /\ Up(n % CounterLimit) = (n + 1) % CounterLimit
         /\ (Up(n) + k) % CounterLimit = (n + 1 + k) % CounterLimit
<1> DEFINE x == n + 1
<1>1. x \in Nat /\ x % CounterLimit \in 0..(CounterLimit - 1)
  OBVIOUS
<1>2. ((n % CounterLimit) + 1) % CounterLimit = (n + 1) % CounterLimit
  BY RemainderOfSum
<1> HIDE DEF x
<1>3. ((x % CounterLimit) + k) % CounterLimit = (x + k) % CounterLimit
  BY <1>1, RemainderOfSum
<1> QED BY <1>1, <1>2, <1>3 DEF x, Up

(***************************************************************************)
(* Steps.                                                                  *)
(***************************************************************************)

\* A thread that executes is the current one, is READY and saw the launch.
LEMMA TaskContext ==
  ASSUME IInv, NEW t \in Tasks, Executes(t)
  PROVE  /\ t \in Threads /\ t # Idle /\ t = currentPt /\ state[t] = "READY"
         /\ Alive /\ running /\ ~SwitchDue
  BY RunningContext DEF Tasks, Executes

\* A step of the kernel keeps the invariant of the kernel.
LEMMA KernelStep ==
  ASSUME IInv, [Next]_vars
  PROVE  IInv'
  BY NextStep, StutterStep

\* Own code: one statement, by the current task, outside every call.
LEMMA DoesFacts ==
  ASSUME IInv, NEW t \in Tasks, NEW l, NEW next, Does(t, l, next) \/ Prints(t, l, next)
  PROVE  /\ UNCHANGED <<vars, gave>>
         /\ Executes(t) /\ pc[t] = "run" /\ at[t] = l /\ at' = [at EXCEPT ![t] = next]
  BY DEF Does, Prints, Goes

\* What the first step of a call does to its task, and to nothing else.
Begins(t, l, c, a, next) ==
  /\ [Next]_vars
  /\ Executes(t) /\ pc[t] = "run" /\ at[t] = l /\ at' = [at EXCEPT ![t] = next]
  /\ pc' = [pc EXCEPT ![t] = "checked"]
  /\ call' = [call EXCEPT ![t] = c] /\ arg' = [arg EXCEPT ![t] = a]
  /\ UNCHANGED <<portVars, kernelVars, held, credit, data, gave>>

\* The first step of a call whose caller masks nothing that the call minds.
LEMMA CallsFacts ==
  ASSUME IInv, NEW t \in Tasks, NEW l, NEW next,
         NEW c \in ContextCalls, NEW a \in Arguments(c), Calls(t, l, c, a, next),
         c = "DELAY" => masks = {}
  PROVE  Begins(t, l, c, a, next)
<1>1. CheckContext(t, c, a) /\ at[t] = l /\ Goes(t, next) /\ UNCHANGED <<data, gave>>
  BY DEF Calls
<1>2. TaskStep(t)
  BY <1>1 DEF TaskStep
<1>3. Executes(t) /\ osBlockingContextErrors(FALSE) = masks
  BY <1>1, TaskContext DEF CheckContext, osBlockingContextErrors, osKernelHasRunnableCaller
<1>4. Refused(c, masks) = {}
  BY DEF Refused, IInv, TypeOK, PortTypeOK, MaskRegisters
<1>5. pc[t] = "run" /\ pc' = [pc EXCEPT ![t] = "checked"]
  BY <1>1, <1>3, <1>4 DEF CheckContext
<1>6. /\ call' = [call EXCEPT ![t] = c] /\ arg' = [arg EXCEPT ![t] = a]
      /\ UNCHANGED <<portVars, kernelVars, held, credit>>
  BY <1>1 DEF CheckContext, historyVars
<1> QED BY <1>1, <1>2, <1>3, <1>5, <1>6 DEF Begins, Next, Goes

\* A mask of the application's own, set or cleared by its current task.
LEMMA MaskFacts ==
  ASSUME IInv, NEW t \in Tasks, NEW l, NEW next, Masks(t, l, next) \/ Unmasks(t, l, next)
  PROVE  /\ [Next]_vars
         /\ Executes(t) /\ pc[t] = "run" /\ at[t] = l /\ at' = [at EXCEPT ![t] = next]
         /\ masks' = IF Masks(t, l, next) THEN masks \cup {"PRIMASK"} ELSE masks \ {"PRIMASK"}
         /\ UNCHANGED <<fault, kernelVars, taskVars, held, data, gave>>
<1>1. "PRIMASK" \in MaskRegisters
  BY DEF MaskRegisters
<1>2. SetMask(t, "PRIMASK") \/ ClearMask(t, "PRIMASK")
  BY DEF Masks, Unmasks
<1>3. TaskStep(t)
  BY <1>1, <1>2 DEF TaskStep
<1>4. Masks(t, l, next) => masks' = masks \cup {"PRIMASK"}
  BY DEF Masks, SetMask
<1>5. ~Masks(t, l, next) => masks' = masks \ {"PRIMASK"}
  BY DEF Unmasks, ClearMask
<1>6. /\ Executes(t) /\ pc[t] = "run" /\ at[t] = l /\ at' = [at EXCEPT ![t] = next]
      /\ UNCHANGED <<data, gave>>
  BY DEF Masks, Unmasks, SetMask, ClearMask, Goes
<1>7. UNCHANGED <<fault, kernelVars, taskVars, held>>
  BY <1>2 DEF SetMask, ClearMask, historyVars
<1> QED BY <1>3, <1>4, <1>5, <1>6, <1>7 DEF Next

\* osYield by a task.
LEMMA YieldsFacts ==
  ASSUME IInv, NEW t \in Tasks, NEW l, NEW next, Yields(t, l, next)
  PROVE  /\ [Next]_vars
         /\ Executes(t) /\ pc[t] = "run" /\ at[t] = l /\ at' = [at EXCEPT ![t] = next]
         /\ UNCHANGED <<portVars, running, currentPt, taskVars, held, data, gave>>
  BY DEF Yields, TaskYield, Goes, TaskStep, Next, historyVars

\* The timers, the switch, the idle loop and the launch touch no task's code or call,
\* and move the processor only while nothing is masked.
LEMMA SystemFacts ==
  ASSUME IInv, \/ (IdleYield \/ Switch) /\ UNCHANGED appVars
               \/ Millisecond \/ EndOfQuantum \/ Start
  PROVE  /\ [Next]_vars
         /\ UNCHANGED <<fault, call, arg, errs, held, credit, at, data, gave>>
         /\ \A t \in Tasks : pc'[t] = pc[t]
         /\ masks' \subseteq masks
         /\ masks # {} => UNCHANGED currentPt
<1>1. IdleYield \/ Switch \/ TIM2_IRQHandler \/ Quantum \/ Launch
  BY DEF Millisecond, EndOfQuantum, Start
<1>2. Next
  BY <1>1 DEF Next, Interrupt, Main
<1>3. UNCHANGED <<at, data, gave>>
  BY DEF Millisecond, EndOfQuantum, Start, appVars
<1>4. UNCHANGED <<fault, call, arg, errs, held, credit>>
  BY <1>1 DEF IdleYield, Switch, PendSV_Handler, TIM2_IRQHandler, osKernelTick, Quantum,
     SysTick_Handler, Launch, osKernelLaunch, WakesIdle, taskVars, historyVars, portVars
<1>5. ASSUME NEW t \in Tasks
      PROVE  pc'[t] = pc[t]
  BY <1>1, <1>5 DEF IdleYield, Switch, TIM2_IRQHandler, Quantum, Launch, WakesIdle,
     taskVars, IInv, TypeOK, Tasks
<1>6. masks' \subseteq masks
  BY <1>1 DEF IdleYield, Switch, PendSV_Handler, TIM2_IRQHandler, osKernelTick, Quantum,
     SysTick_Handler, Launch, osKernelLaunch, portVars
<1>7. masks # {} => UNCHANGED currentPt
  BY <1>1 DEF IdleYield, Switch, PendSV_Handler, SwitchDue, LowestPriorityEnabled,
     TIM2_IRQHandler, osKernelTick, Quantum, SysTick_Handler, Launch, osKernelLaunch
<1> QED BY <1>2, <1>3, <1>4, <1>5, <1>6, <1>7

\* A call that its caller may make ends in no fault: the kernel's own checks hold.
LEMMA NoFaultInCall ==
  ASSUME IInv, NEW t \in Tasks, FinishCall(t), ~BlockingFault(t)
  PROVE  Alive /\ Alive'
<1>1. Executes(t) /\ t = currentPt /\ running /\ Alive
  BY TaskContext DEF FinishCall, osDelay, Take, MutexTake, MutexGive, Return, InCall
<1>2. [Next]_vars /\ IInv'
  BY KernelStep DEF FinishCall, TaskStep, Next
<1>3. UNCHANGED <<currentPt, running>>
  BY DEF FinishCall, osDelay, Sleep, Take, MutexTake, MutexGive, Return, kernelVars
<1>4. fault' = fault \/ fault'.errors = {"WAIT_QUEUE"}
  <2>1. ASSUME NEW o, waitFault(o)
        PROVE  fault'.errors = {"WAIT_QUEUE"}
    BY <2>1 DEF waitFault, osPortBlockingFault
  <2>2. CASE osDelay(t) \/ Return(t)
    BY <2>2 DEF osDelay, Sleep, Return, portVars
  <2>3. CASE Take(t)
    BY <2>1, <2>3 DEF Take, takeSignal, osKernelBlockCurrentOnSemaphore, Enqueue, portVars
  <2>4. CASE MutexTake(t)
    <3> DEFINE m == arg[t]
    <3>1. CASE MutexRefusal(m, errs[t]) # {}
      BY <2>4, <3>1 DEF MutexTake, osMutexTake, portVars
    <3>2. CASE ~(MutexRefusal(m, errs[t]) # {}) /\ owner[m] # NULL
      <4>1. osKernelBlockCurrentOnMutex(m)
        BY <2>4, <3>2 DEF MutexTake, osMutexTake
      <4> QED BY <2>1, <4>1 DEF osKernelBlockCurrentOnMutex, Enqueue, portVars
    <3>3. CASE ~(MutexRefusal(m, errs[t]) # {}) /\ ~(owner[m] # NULL)
      BY <2>4, <3>3 DEF MutexTake, osMutexTake, portVars, osPortBlockingFault
    <3> QED BY <3>1, <3>2, <3>3
  <2>5. CASE MutexGive(t)
    BY <2>1, <2>5 DEF MutexGive, osMutexGive, osKernelReleaseMutex, Dequeue, portVars
  <2> QED BY <2>2, <2>3, <2>4, <2>5 DEF FinishCall
<1>5. ~Alive' => FALSE
  <2> SUFFICES ASSUME ~Alive' PROVE FALSE
    OBVIOUS
  <2>1. fault'.errors = {"WAIT_QUEUE"}
    BY <1>1, <1>4 DEF Alive
  <2>2. \A e \in AppMasks : e # "WAIT_QUEUE"
    BY CallsAssumption DEF MaskRegisters
  <2> QED BY <1>1, <1>2, <1>3, <2>1, <2>2 DEF IInv, FaultOnlyOnMisuse
<1> QED BY <1>1, <1>5

\* A task goes on in the call it is in: what changes of it, and of nobody else.
LEMMA InCallsFacts ==
  ASSUME IInv, NEW t \in Tasks, InCalls(t), pc[t] # "refused",
         gave \in [Tasks -> BOOLEAN],
         call[t] = "SEMAPHORE" /\ pc[t] = "checked" => masks = {},
         call[t] = "MUTEX_TAKE" /\ pc[t] = "checked" => masks = {} /\ arg[t] \notin held[t]
  PROVE  /\ [Next]_vars /\ Alive' /\ UNCHANGED <<masks, running, currentPt, at, data>>
         /\ Executes(t) /\ pc[t] \in {"checked", "resume"}
         /\ \A u \in Tasks \ {t} :
              /\ pc'[u] = pc[u] /\ call'[u] = call[u] /\ arg'[u] = arg[u]
              /\ held'[u] = held[u] /\ gave'[u] = gave[u]
         /\ gave' \in [Tasks -> BOOLEAN]
         /\ \/ /\ pc'[t] = "resume" /\ call[t] # "MUTEX_GIVE" /\ UNCHANGED credit
               /\ call'[t] = call[t] /\ arg'[t] = arg[t] /\ held'[t] = held[t]
            \/ /\ pc'[t] = "run" /\ call[t] = "DELAY" /\ UNCHANGED credit
               /\ held'[t] = held[t]
            \/ /\ pc'[t] = "run" /\ call[t] = "SEMAPHORE" /\ held'[t] = held[t]
               /\ credit' = [credit EXCEPT ![arg[t]] = @ - 1]
            \/ /\ pc'[t] = "run" /\ call[t] = "MUTEX_TAKE" /\ UNCHANGED credit
               /\ held'[t] = held[t] \cup {arg[t]}
            \/ /\ pc[t] = "checked" /\ pc'[t] = "run" /\ call[t] = "MUTEX_GIVE"
               /\ UNCHANGED credit
               /\ held'[t] = held[t] \ {arg[t]} /\ gave'[t] = (arg[t] \in held[t])
<1>1. FinishCall(t) /\ ~BlockingFault(t) /\ UNCHANGED <<at, data>>
  BY DEF InCalls, BlockingFault
<1>2. t \in Threads /\ Alive /\ Alive'
  BY <1>1, NoFaultInCall DEF Tasks
<1>3. [Next]_vars
  BY <1>1 DEF FinishCall, TaskStep, Next
<1>4. /\ pc \in [Threads -> Places] /\ call \in [Threads -> ContextCalls \cup {"NONE"}]
      /\ arg \in [Threads -> Delays \cup Objects \cup {NULL}]
      /\ held \in [Threads -> SUBSET Mutexes]
  BY DEF IInv, TypeOK
<1>5. gave' = [gave EXCEPT ![t] = IF InCall(t, "MUTEX_GIVE") THEN owner[arg[t]] = t ELSE @]
  BY DEF InCalls
<1>6. /\ gave' \in [Tasks -> BOOLEAN]
      /\ \A u \in Tasks \ {t} : gave'[u] = gave[u]
      /\ InCall(t, "MUTEX_GIVE") => gave'[t] = (owner[arg[t]] = t)
  BY <1>5
<1>7. CASE osDelay(t)
  <2>1. /\ InCall(t, "DELAY") /\ pc' = [pc EXCEPT ![t] = "resume"]
        /\ UNCHANGED <<portVars, running, currentPt, call, arg, held, credit>>
    BY <1>2, <1>7 DEF osDelay, Sleep, Suspends, historyVars, Alive
  <2> QED BY <1>1, <1>2, <1>3, <1>4, <1>6, <2>1 DEF InCall, portVars, Tasks
<1>8. CASE Take(t)
  <2> DEFINE s == arg[t]
  <2>1. InCall(t, "SEMAPHORE") /\ takeSignal(s, errs[t]) /\ UNCHANGED <<running, currentPt, held>>
    BY <1>8 DEF Take
  <2>2. errs[t] = {} /\ TakeRefusal(s, errs[t]) = {}
    BY <2>1, InCallFacts DEF ContextCalls, InCall, TakeRefusal
  <2>3. UNCHANGED masks
    BY <1>2, <2>1 DEF takeSignal, osKernelBlockCurrentOnSemaphore, waitFault, Enqueue, portVars,
       osPortBlockingFault, Alive, NoFault
  <2>4. CASE value[s] > 0
    <3>1. Returns(t) /\ credit' = [credit EXCEPT ![s] = @ - 1]
      BY <1>8, <2>4 DEF Take
    <3> QED BY <1>1, <1>2, <1>3, <1>4, <1>6, <2>1, <2>3, <3>1 DEF Returns, InCall, Tasks
  <2>5. CASE ~(value[s] > 0)
    <3>1. Suspends(t) /\ UNCHANGED credit
      BY <1>8, <2>2, <2>5 DEF Take
    <3> QED BY <1>1, <1>2, <1>3, <1>4, <1>6, <2>1, <2>3, <3>1
            DEF Suspends, InCall, Tasks, Alive
  <2> QED BY <2>4, <2>5
<1>9. CASE MutexTake(t)
  <2> DEFINE m == arg[t]
  <2>1. /\ InCall(t, "MUTEX_TAKE") /\ osMutexTake(m, errs[t])
        /\ UNCHANGED <<running, currentPt, credit>>
    BY <1>9 DEF MutexTake
  <2>2. errs[t] = {} /\ m \in Mutexes /\ t = currentPt /\ state[t] = "READY" /\ running
    BY <2>1, InCallFacts DEF ContextCalls, Arguments, InCall
  <2>3. MutexRefusal(m, errs[t]) = {}
    <3>1. owner[m] # t
      BY <1>2, <2>1, <2>2 DEF InCall, IInv, MutualExclusion
    <3>2. osKernelCurrentThreadIdentity = t
      BY <2>2 DEF osKernelCurrentThreadIdentity, osKernelHasRunnableCaller
    <3> QED BY <2>2, <3>1, <3>2 DEF MutexRefusal
  <2>4. UNCHANGED masks
    BY <1>2, <2>1 DEF osMutexTake, osKernelBlockCurrentOnMutex, waitFault, Enqueue, portVars,
       osPortBlockingFault, Alive, NoFault
  <2>5. CASE owner[m] = NULL
    <3>1. Returns(t) /\ held' = [held EXCEPT ![t] = @ \cup {m}]
      BY <1>2, <1>9, <2>3, <2>5 DEF MutexTake, Alive
    <3> QED BY <1>1, <1>2, <1>3, <1>4, <1>6, <2>1, <2>4, <3>1 DEF Returns, InCall, Tasks
  <2>6. CASE owner[m] # NULL
    <3>1. Suspends(t) /\ UNCHANGED held
      BY <1>9, <2>3, <2>6 DEF MutexTake
    <3> QED BY <1>1, <1>2, <1>3, <1>4, <1>6, <2>1, <2>4, <3>1
            DEF Suspends, InCall, Tasks, Alive
  <2> QED BY <2>5, <2>6
<1>10. CASE MutexGive(t)
  <2> DEFINE m == arg[t]
  <2>1. /\ InCall(t, "MUTEX_GIVE") /\ osMutexGive(m)
        /\ Returns(t) /\ held' = [held EXCEPT ![t] = @ \ {m}]
        /\ UNCHANGED <<running, currentPt, credit>>
    BY <1>2, <1>10 DEF MutexGive, Alive
  <2>2. m \in Mutexes
    BY <2>1, InCallFacts DEF ContextCalls, Arguments
  <2>3. owner[m] = t <=> m \in held[t]
    BY <1>2, <2>1, <2>2 DEF InCall, IInv, MutualExclusion
  <2>4. UNCHANGED masks
    BY <1>2, <2>1 DEF osMutexGive, osKernelReleaseMutex, waitFault, Dequeue, portVars,
       osPortBlockingFault, Alive, NoFault
  <2> QED BY <1>1, <1>2, <1>3, <1>4, <1>6, <2>1, <2>3, <2>4 DEF Returns, InCall, Tasks
<1>11. CASE Return(t)
  <2>1. /\ Executes(t) /\ pc[t] = "resume" /\ Returns(t)
        /\ held' = [held EXCEPT ![t] =
                      IF call[t] = "MUTEX_TAKE" THEN @ \cup {arg[t]} ELSE @]
        /\ credit' = IF call[t] = "SEMAPHORE"
                     THEN [credit EXCEPT ![arg[t]] = @ - 1] ELSE credit
        /\ UNCHANGED <<portVars, running, currentPt>>
    BY <1>11 DEF Return, kernelVars
  <2>2. call[t] \in {"DELAY", "SEMAPHORE", "MUTEX_TAKE"}
    BY <1>2, <1>4, <2>1 DEF IInv, CallMatchesTcb, ContextCalls
  <2> QED BY <1>1, <1>2, <1>3, <1>4, <1>6, <2>1, <2>2 DEF Returns, portVars, Tasks
<1> QED BY <1>1, <1>7, <1>8, <1>9, <1>10, <1>11 DEF FinishCall

\* osBinSemGive and osCountSemGive by a task: they end in no fault, and what they accept
\* is credited to the semaphore.
LEMMA GivesFacts ==
  ASSUME IInv, NEW t \in Tasks, NEW l, NEW next, NEW s \in Sems, Gives(t, l, s, next)
  PROVE  /\ [Next]_vars /\ Alive'
         /\ Executes(t) /\ pc[t] = "run" /\ at[t] = l /\ at' = [at EXCEPT ![t] = next]
         /\ UNCHANGED <<masks, running, currentPt, taskVars, held, data>>
         /\ credit' = [credit EXCEPT ![s] = IF Accepted(s) THEN @ + 1 ELSE @]
         /\ gave' = [gave EXCEPT ![t] = Accepted(s)]
<1>1. /\ TaskGive(t, s) /\ at[t] = l /\ at' = [at EXCEPT ![t] = next]
      /\ gave' = [gave EXCEPT ![t] = Accepted(s)] /\ UNCHANGED data
  BY DEF Gives, Goes
<1>2. /\ Executes(t) /\ pc[t] = "run" /\ giveSignal(s)
      /\ UNCHANGED <<running, currentPt, taskVars, held>>
      /\ credit' = [credit EXCEPT ![s] = IF Accepted(s) THEN @ + 1 ELSE @]
  BY <1>1 DEF TaskGive, Give
<1>3. [Next]_vars /\ IInv'
  BY <1>1, KernelStep DEF TaskStep, Next
<1>4. t = currentPt /\ running /\ Alive
  BY <1>2, TaskContext
<1>5. fault'.errors = {"WAIT_QUEUE"} \/ UNCHANGED <<masks, fault>>
  <2>1. ASSUME NEW o, waitFault(o)
        PROVE  fault'.errors = {"WAIT_QUEUE"}
    BY <2>1 DEF waitFault, osPortBlockingFault
  <2> QED BY <1>2, <2>1 DEF giveSignal, osKernelUnblockOneOnSemaphore, Dequeue, portVars
<1>6. fault'.errors # {"WAIT_QUEUE"}
  <2> SUFFICES ASSUME fault'.errors = {"WAIT_QUEUE"} PROVE FALSE
    OBVIOUS
  <2>1. \A e \in AppMasks : e # "WAIT_QUEUE"
    BY CallsAssumption DEF MaskRegisters
  <2>2. ~Alive'
    BY DEF Alive, NoFault
  <2> QED BY <1>2, <1>3, <1>4, <2>1, <2>2 DEF IInv, FaultOnlyOnMisuse
<1> QED BY <1>1, <1>2, <1>3, <1>4, <1>5, <1>6 DEF Alive

(***************************************************************************)
(* Tasks that sleep and take one semaphore s, whose statements a table f    *)
(* lists: f[t][l] is the call that task t makes before its statement l.     *)
(***************************************************************************)
CallTable(f) == \A t \in Tasks : \A l \in DOMAIN f[t] : f[t][l] \in {"DELAY", "SEMAPHORE", "NONE"}

\* A task that is in a call is in the one its statement waits for.
InCallOf(f, s, t) ==
  pc[t] # "run" =>
    /\ pc[t] \in {"checked", "resume"}
    /\ call[t] = f[t][at[t]]
    /\ call[t] = "SEMAPHORE" => arg[t] = s

Standing(f, s) ==
  /\ IInv /\ TokenConservation /\ Alive /\ masks = {}
  /\ DOMAIN at = Tasks /\ gave \in [Tasks -> BOOLEAN]
  /\ \A t \in Tasks : at[t] \in DOMAIN f[t] /\ InCallOf(f, s, t)

\* What a step does to a semaphore.
Left(s) == value'[s] = value[s] /\ credit'[s] = credit[s] /\ waiters'[s] = waiters[s]

Stored(s) ==
  /\ waiters[s] = <<>> /\ value[s] < maxCount[s]
  /\ value'[s] = value[s] + 1 /\ credit'[s] = credit[s] + 1 /\ waiters'[s] = waiters[s]

HandedOver(s) ==
  /\ waiters[s] # <<>>
  /\ waiters'[s] = Tail(waiters[s]) /\ value'[s] = value[s] /\ credit'[s] = credit[s] + 1

TakenAtOnce(s) ==
  /\ value[s] > 0
  /\ value'[s] = value[s] - 1 /\ credit'[s] = credit[s] - 1 /\ waiters'[s] = waiters[s]

Blocked(s, t) ==
  /\ value[s] = 0 /\ waiters'[s] = Append(waiters[s], t)
  /\ value'[s] = value[s] /\ credit'[s] = credit[s]

Resumed(s) == value'[s] = value[s] /\ credit'[s] = credit[s] - 1 /\ waiters'[s] = waiters[s]

\* The types of a semaphore: what it stores and granted is its credit.
LEMMA SemaphoreFacts ==
  ASSUME IInv, TokenConservation, NEW s \in Sems
  PROVE  /\ credit \in [Sems -> Int] /\ value \in [Sems -> Nat]
         /\ waiters \in [Objects -> Seq(Threads)] /\ s \in Objects
         /\ credit[s] \in Nat /\ value[s] \in Nat /\ Cardinality(Granted(s)) \in Nat
         /\ credit[s] = value[s] + Cardinality(Granted(s)) /\ value[s] <= maxCount[s]
         /\ maxCount[s] \in Nat \ {0}
  BY GrantedFinite, maxCountAssumption
     DEF TokenConservation, IInv, TypeOK, SemaphoreTypeOK, WaitTypeOK, Objects

\* Whoever stands in the queue of s is in its Take and does not execute.
LEMMA QueuedTask ==
  ASSUME NEW f, NEW s \in Sems, Standing(f, s), NEW t \in Range(waiters[s])
  PROVE  /\ t \in Tasks /\ pc[t] = "resume" /\ f[t][at[t]] = "SEMAPHORE"
         /\ state[t] = "BLOCKED" /\ ~Executes(t)
<1>1. waiters[s] \in Seq(Threads) /\ s \in Objects /\ s \notin Mutexes /\ s # NULL
  BY SemaphoreFacts, ObjectsAssumption DEF Standing
<1>2. t \in Threads
  BY <1>1 DEF Range
<1>3. state[t] = "BLOCKED" /\ waitSem[t] = s
  BY <1>1, <1>2 DEF Standing, IInv, WaitRelation, TypeOK, WaitTypeOK
<1>4. pc[t] = "resume" /\ call[t] = "SEMAPHORE" /\ t # Idle
  BY <1>1, <1>2, <1>3 DEF Standing, IInv, CallMatchesTcb
<1>5. t \in Tasks
  BY <1>2, <1>4 DEF Tasks
<1>6. ~Executes(t)
  BY <1>3, <1>5, TaskContext DEF Standing
<1> QED BY <1>3, <1>4, <1>5, <1>6 DEF Standing, InCallOf

\* A queue that is not empty holds such a task, and the semaphore is empty.
LEMMA SomebodyQueues ==
  ASSUME NEW f, NEW s \in Sems, Standing(f, s), waiters[s] # <<>>
  PROVE  /\ value[s] = 0
         /\ \E t \in Tasks : f[t][at[t]] = "SEMAPHORE" /\ ~Executes(t)
<1> DEFINE q == waiters[s]
<1>1. q \in Seq(Threads) /\ value[s] \in Nat
  BY SemaphoreFacts DEF Standing
<1>2. value[s] = 0
  BY <1>1 DEF Standing, IInv, NoLostWakeup
<1> HIDE DEF q
<1>3. q # <<>> => 1 \in DOMAIN q
  BY <1>1
<1>4. q # <<>> => q[1] \in Range(q)
  BY <1>3 DEF Range
<1>5. q[1] \in Range(waiters[s])
  BY <1>4 DEF q
<1> QED BY <1>2, <1>5, QueuedTask

\* A step that keeps what is added to the invariants of the kernel keeps it all.
LEMMA StandingStep ==
  ASSUME NEW f, NEW s, Standing(f, s), [Next]_vars, Alive', UNCHANGED masks,
         DOMAIN at' = Tasks, gave' \in [Tasks -> BOOLEAN],
         \A t \in Tasks : at'[t] \in DOMAIN f[t] /\ InCallOf(f, s, t)'
  PROVE  Standing(f, s)'
  BY KernelStep, NextTokens, StutterTokens DEF Standing

\* Own code.
LEMMA OwnCode ==
  ASSUME NEW f, NEW s \in Sems, Standing(f, s), NEW t \in Tasks, NEW l, NEW next \in DOMAIN f[t],
         Does(t, l, next) \/ Prints(t, l, next)
  PROVE  /\ Standing(f, s)' /\ [Next]_vars
         /\ UNCHANGED <<vars, value, credit, waiters, pc, gave>>
         /\ Executes(t) /\ pc[t] = "run" /\ at[t] = l /\ at' = [at EXCEPT ![t] = next]
<1>1. /\ UNCHANGED <<vars, gave>>
      /\ Executes(t) /\ pc[t] = "run" /\ at[t] = l /\ at' = [at EXCEPT ![t] = next]
  BY DoesFacts DEF Standing
<1>2. UNCHANGED <<fault, masks, value, credit, waiters, pc, call, arg>>
  BY <1>1 DEF vars, portVars, waitVars, taskVars, historyVars
<1>3. DOMAIN at' = Tasks /\ at'[t] = next /\ \A u \in Tasks \ {t} : at'[u] = at[u]
  BY <1>1 DEF Standing
<1>4. ASSUME NEW u \in Tasks
      PROVE  at'[u] \in DOMAIN f[u] /\ InCallOf(f, s, u)'
  BY <1>1, <1>2, <1>3 DEF Standing, InCallOf
<1>5. Alive' /\ [Next]_vars /\ gave' \in [Tasks -> BOOLEAN]
  BY <1>1, <1>2 DEF Standing, Alive
<1>6. Standing(f, s)'
  BY <1>2, <1>3, <1>4, <1>5, StandingStep
<1> QED BY <1>1, <1>2, <1>5, <1>6

\* The first step of the call that the table tells.
CallBegun(f, s, t, l, next) ==
  /\ Standing(f, s)' /\ [Next]_vars
  /\ UNCHANGED <<value, credit, waiters, data, gave>>
  /\ Executes(t) /\ pc[t] = "run" /\ at[t] = l /\ at' = [at EXCEPT ![t] = next]
  /\ pc'[t] = "checked" /\ \A u \in Tasks \ {t} : pc'[u] = pc[u]

LEMMA CallBegins ==
  ASSUME NEW f, NEW s \in Sems, Standing(f, s), NEW t \in Tasks, NEW l, NEW next \in DOMAIN f[t],
         NEW c \in ContextCalls, NEW a \in Arguments(c), Calls(t, l, c, a, next),
         f[t][next] = c, c = "SEMAPHORE" => a = s
  PROVE  CallBegun(f, s, t, l, next)
<1>1. Begins(t, l, c, a, next)
  BY CallsFacts DEF Standing
<1>2. UNCHANGED <<fault, masks, value, waiters>>
  <2>1. CheckContext(t, c, a)
    BY DEF Calls
  <2> QED BY <2>1 DEF CheckContext, portVars, waitVars
<1>3. /\ DOMAIN at' = Tasks /\ t \in Threads
      /\ at'[t] = next /\ pc'[t] = "checked" /\ call'[t] = c /\ arg'[t] = a
      /\ \A u \in Tasks \ {t} :
           at'[u] = at[u] /\ pc'[u] = pc[u] /\ call'[u] = call[u] /\ arg'[u] = arg[u]
  BY <1>1 DEF Begins, Standing, IInv, TypeOK, Tasks
<1>4. ASSUME NEW u \in Tasks
      PROVE  at'[u] \in DOMAIN f[u] /\ InCallOf(f, s, u)'
  BY <1>3 DEF Standing, InCallOf
<1>5. Alive' /\ [Next]_vars /\ gave' \in [Tasks -> BOOLEAN]
  BY <1>1, <1>2 DEF Standing, Alive, Begins
<1>6. Standing(f, s)'
  BY <1>2, <1>3, <1>4, <1>5, StandingStep
<1> QED BY <1>1, <1>2, <1>3, <1>6 DEF Begins, CallBegun

\* The rest of it.
CallGone(f, s, t) ==
  /\ Standing(f, s)' /\ [Next]_vars /\ UNCHANGED <<at, data, gave>>
  /\ Executes(t) /\ pc[t] # "run" /\ \A u \in Tasks \ {t} : pc'[u] = pc[u]
  /\ \/ f[t][at[t]] = "DELAY" /\ pc'[t] \in {"resume", "run"} /\ Left(s)
     \/ f[t][at[t]] = "SEMAPHORE" /\ pc'[t] = "resume" /\ Blocked(s, t)
     \/ f[t][at[t]] = "SEMAPHORE" /\ pc'[t] = "run" /\ (TakenAtOnce(s) \/ Resumed(s))

LEMMA CallGoesOn ==
  ASSUME NEW f, CallTable(f), NEW s \in Sems, Standing(f, s), NEW t \in Tasks, InCalls(t)
  PROVE  CallGone(f, s, t)
<1>1. /\ pc[t] \in {"checked", "resume"} /\ call[t] = f[t][at[t]]
      /\ call[t] \in {"DELAY", "SEMAPHORE"} /\ (call[t] = "SEMAPHORE" => arg[t] = s)
  <2>1. pc[t] # "run"
    BY DEF InCalls, FinishCall, osDelay, Take, MutexTake, MutexGive, Return, BlockingFault, InCall
  <2>2. /\ pc[t] \in {"checked", "resume"} /\ call[t] = f[t][at[t]]
        /\ (call[t] = "SEMAPHORE" => arg[t] = s) /\ at[t] \in DOMAIN f[t]
    BY <2>1 DEF Standing, InCallOf
  <2>3. call[t] # "NONE"
    BY <2>2 DEF Standing, IInv, CallMatchesTcb, Tasks
  <2> QED BY <2>2, <2>3 DEF CallTable
<1>2. /\ [Next]_vars /\ Alive' /\ UNCHANGED <<masks, at, data>> /\ Executes(t)
      /\ \A u \in Tasks \ {t} :
           pc'[u] = pc[u] /\ call'[u] = call[u] /\ arg'[u] = arg[u] /\ gave'[u] = gave[u]
      /\ gave' \in [Tasks -> BOOLEAN]
      /\ \/ /\ pc'[t] = "resume" /\ UNCHANGED credit
            /\ call'[t] = call[t] /\ arg'[t] = arg[t]
         \/ /\ pc'[t] = "run" /\ call[t] = "DELAY" /\ UNCHANGED credit
         \/ /\ pc'[t] = "run" /\ call[t] = "SEMAPHORE"
            /\ credit' = [credit EXCEPT ![arg[t]] = @ - 1]
  BY <1>1, InCallsFacts DEF Standing
<1>3. UNCHANGED gave
  BY <1>1, <1>2 DEF InCalls, InCall, Standing
<1>4. Standing(f, s)'
  <2>1. ASSUME NEW u \in Tasks
        PROVE  at'[u] \in DOMAIN f[u] /\ InCallOf(f, s, u)'
    BY <1>1, <1>2 DEF Standing, InCallOf
  <2> QED BY <1>2, <2>1, StandingStep DEF Standing
<1>5. osDelay(t) \/ Take(t) \/ Return(t)
  BY <1>1 DEF InCalls, FinishCall, MutexTake, MutexGive, BlockingFault, InCall
<1>6. credit \in [Sems -> Int] /\ credit[s] \in Nat
  BY SemaphoreFacts DEF Standing
<1>7. CASE osDelay(t)
  <2>1. call[t] = "DELAY" /\ Quiet
    BY <1>7, OtherTaskQuiet DEF osDelay, InCall, Standing
  <2> QED BY <1>1, <1>2, <1>3, <1>4, <2>1 DEF Quiet, Left, CallGone
<1>8. CASE Take(t)
  <2>1. call[t] = "SEMAPHORE" /\ arg[t] = s
    BY <1>1, <1>8 DEF Take, InCall
  <2>2. \/ /\ value[s] > 0 /\ UNCHANGED waiters
           /\ value' = [value EXCEPT ![s] = @ - 1] /\ credit' = [credit EXCEPT ![s] = @ - 1]
        \/ /\ value[s] = 0 /\ UNCHANGED <<value, credit>>
           /\ waiters' = [waiters EXCEPT ![s] = Append(@, t)]
        \/ pc'[t] = "refused" /\ UNCHANGED <<value, credit, waiters>>
    BY <1>8, <2>1, TakeMoves DEF Standing
  <2>3. value \in [Sems -> Nat] /\ waiters \in [Objects -> Seq(Threads)] /\ s \in Objects
    BY SemaphoreFacts DEF Standing
  <2>4. credit' = [credit EXCEPT ![s] = @ - 1] => credit'[s] = credit[s] - 1
    BY <1>6
  <2>5. (pc'[t] = "run" /\ TakenAtOnce(s)) \/ (pc'[t] = "resume" /\ Blocked(s, t))
    BY <1>2, <1>6, <2>1, <2>2, <2>3, <2>4 DEF TakenAtOnce, Blocked
  <2> QED BY <1>1, <1>2, <1>3, <1>4, <2>1, <2>5 DEF CallGone
<1>9. CASE Return(t)
  <2>1. pc'[t] = "run"
    BY <1>9 DEF Return, Returns, Standing, IInv, TypeOK, Tasks
  <2>2. CASE call[t] = "DELAY"
    <3>1. UNCHANGED <<value, waiters, credit>>
      BY <1>9, <2>2 DEF Return, waitVars
    <3> QED BY <1>1, <1>2, <1>3, <1>4, <2>1, <2>2, <3>1 DEF Left, CallGone
  <2>3. CASE call[t] = "SEMAPHORE"
    <3>1. UNCHANGED <<value, waiters>> /\ credit' = [credit EXCEPT ![s] = @ - 1]
      BY <1>1, <1>9, <2>3 DEF Return, waitVars
    <3>2. credit'[s] = credit[s] - 1
      BY <1>6, <3>1
    <3> QED BY <1>1, <1>2, <1>3, <1>4, <2>1, <2>3, <3>1, <3>2 DEF Resumed, CallGone
  <2> QED BY <1>1, <2>2, <2>3
<1> QED BY <1>5, <1>7, <1>8, <1>9

\* A Give is stored, handed over or refused.
GiveAnswered(f, s, t, l, next) ==
  /\ Standing(f, s)' /\ [Next]_vars /\ UNCHANGED <<pc, data>>
  /\ Executes(t) /\ pc[t] = "run" /\ at[t] = l /\ at' = [at EXCEPT ![t] = next]
  /\ \A u \in Tasks \ {t} : gave'[u] = gave[u]
  /\ \/ gave'[t] = TRUE /\ (Stored(s) \/ HandedOver(s))
     \/ gave'[t] = FALSE /\ waiters[s] = <<>> /\ value[s] = maxCount[s] /\ Left(s)

LEMMA GiveIsAnswered ==
  ASSUME NEW f, NEW s \in Sems, Standing(f, s), NEW t \in Tasks, NEW l, NEW next \in DOMAIN f[t],
         Gives(t, l, s, next)
  PROVE  GiveAnswered(f, s, t, l, next)
<1>1. /\ [Next]_vars /\ Alive'
      /\ Executes(t) /\ pc[t] = "run" /\ at[t] = l /\ at' = [at EXCEPT ![t] = next]
      /\ UNCHANGED <<masks, running, currentPt, taskVars, held, data>>
      /\ credit' = [credit EXCEPT ![s] = IF Accepted(s) THEN @ + 1 ELSE @]
      /\ gave' = [gave EXCEPT ![t] = Accepted(s)]
  BY GivesFacts DEF Standing
<1>2. UNCHANGED <<pc, call, arg>>
  BY <1>1 DEF taskVars
<1>3. giveSignal(s)
  BY DEF Gives, TaskGive, Give
<1>4. Accepted(s) \in BOOLEAN
  BY DEF Accepted
<1>5. /\ DOMAIN at' = Tasks /\ at'[t] = next /\ gave' \in [Tasks -> BOOLEAN]
      /\ gave'[t] = Accepted(s)
      /\ \A u \in Tasks \ {t} : at'[u] = at[u] /\ gave'[u] = gave[u]
  BY <1>1, <1>4 DEF Standing
<1>6. Standing(f, s)'
  <2>1. ASSUME NEW u \in Tasks
        PROVE  at'[u] \in DOMAIN f[u] /\ InCallOf(f, s, u)'
    BY <1>1, <1>2, <1>5 DEF Standing, InCallOf
  <2> QED BY <1>1, <1>5, <2>1, StandingStep
<1>7. pc'[Idle] \in {"wfi", "awake"}
  BY <1>2, ThreadsFacts DEF Standing, IInv, CallMatchesTcb
<1>8. \/ /\ waiters[s] = <<>> /\ UNCHANGED waiters
         /\ Accepted(s) <=> value[s] < maxCount[s]
         /\ value' = [value EXCEPT ![s] = IF @ < maxCount[s] THEN @ + 1 ELSE @]
      \/ /\ waiters[s] # <<>> /\ waiters' = [waiters EXCEPT ![s] = Tail(@)]
         /\ Accepted(s) /\ UNCHANGED value
  BY <1>2, <1>3, <1>7, GiveMoves DEF Standing
<1>9. /\ credit \in [Sems -> Int] /\ value \in [Sems -> Nat] /\ value[s] \in Nat
      /\ waiters \in [Objects -> Seq(Threads)] /\ s \in Objects
      /\ value[s] <= maxCount[s] /\ maxCount[s] \in Nat
  BY SemaphoreFacts DEF Standing
<1>10. credit'[s] = IF Accepted(s) THEN credit[s] + 1 ELSE credit[s]
  BY <1>1, <1>9
<1>11. \/ gave'[t] = TRUE /\ (Stored(s) \/ HandedOver(s))
       \/ gave'[t] = FALSE /\ waiters[s] = <<>> /\ value[s] = maxCount[s] /\ Left(s)
  <2>1. CASE waiters[s] = <<>>
    BY <1>5, <1>8, <1>9, <1>10, <2>1 DEF Stored, Left
  <2>2. CASE waiters[s] # <<>>
    <3>1. Accepted(s) = TRUE /\ waiters'[s] = Tail(waiters[s]) /\ UNCHANGED value
      BY <1>4, <1>8, <1>9, <2>2
    <3> QED BY <1>5, <1>10, <2>2, <3>1 DEF HandedOver
  <2> QED BY <2>1, <2>2
<1> QED BY <1>1, <1>2, <1>3, <1>5, <1>6, <1>11 DEF GiveAnswered

\* Steps that are no task's.
OthersStep ==
  \/ (IdleYield \/ Switch) /\ UNCHANGED appVars
  \/ Millisecond \/ EndOfQuantum \/ Start \/ UNCHANGED demoVars

\* The timers, the switch, the idle loop and the launch move no token and no taker.
LEMMA SystemLeaves ==
  ASSUME NEW f, NEW s \in Sems, Standing(f, s), OthersStep
  PROVE  /\ Standing(f, s)' /\ [Next]_vars /\ UNCHANGED <<at, data, gave>> /\ Left(s)
         /\ \A t \in Tasks : pc'[t] = pc[t]
<1>1. CASE UNCHANGED demoVars
  <2>1. UNCHANGED <<vars, at, data, gave>>
    BY <1>1 DEF demoVars, appVars
  <2>2. UNCHANGED <<fault, masks, value, credit, waiters, pc, call, arg>>
    BY <2>1 DEF vars, portVars, waitVars, taskVars, historyVars
  <2>3. \A t \in Tasks : at'[t] \in DOMAIN f[t] /\ InCallOf(f, s, t)'
    BY <2>1, <2>2 DEF Standing, InCallOf
  <2>4. Standing(f, s)'
    BY <2>1, <2>2, <2>3, StandingStep DEF Standing, Alive
  <2> QED BY <2>1, <2>2, <2>4 DEF Left
<1>2. CASE \/ (IdleYield \/ Switch) /\ UNCHANGED appVars
           \/ Millisecond \/ EndOfQuantum \/ Start
  <2>1. /\ [Next]_vars
        /\ UNCHANGED <<fault, call, arg, at, data, gave>>
        /\ \A t \in Tasks : pc'[t] = pc[t]
        /\ masks' \subseteq masks
    BY <1>2, SystemFacts DEF Standing
  <2>2. Quiet
    BY <1>2, KernelQuiet DEF Millisecond, EndOfQuantum, Start, Standing
  <2>3. masks' = masks
    BY <2>1 DEF Standing
  <2>4. \A t \in Tasks : at'[t] \in DOMAIN f[t] /\ InCallOf(f, s, t)'
    BY <2>1 DEF Standing, InCallOf
  <2>5. Standing(f, s)'
    BY <2>1, <2>3, <2>4, StandingStep DEF Standing, Alive
  <2> QED BY <2>1, <2>2, <2>5 DEF Quiet, Left
<1> QED BY <1>1, <1>2 DEF OthersStep
=============================================================================
