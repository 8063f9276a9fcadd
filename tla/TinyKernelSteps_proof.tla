------------------------ MODULE TinyKernelSteps_proof -----------------------
(***************************************************************************)
(* Proofs of what the steps of the kernel do and may never do, for any     *)
(* number of tasks, any capacity and any interleaving of calls.            *)
(*                                                                         *)
(* Semaphores conserve their tokens: what a semaphore stores plus what it  *)
(* handed to waiters that have not resumed is what was put in and not      *)
(* taken out; and they hand them out in the order of the Takes, as         *)
(* FifoSemaphore does.  One lemma per action says how it moves tokens      *)
(* (GiveMoves, TakeMoves, ReturnMoves) or that it moves none (Quiet).      *)
(*                                                                         *)
(* Every mutex implements the FIFO lock: each step of the kernel is, seen  *)
(* from one mutex, a step of FifoLock or a stutter.                        *)
(*                                                                         *)
(* No step changes state in a refused call, halts an application that      *)
(* keeps to the contract, ends a delay at another tick than its own, or    *)
(* sends a READY thread back in the round robin.                            *)
(***************************************************************************)
EXTENDS TinyKernel_proof

(***************************************************************************)
(* Semaphores.                                                             *)
(***************************************************************************)

\* Task t was made READY by a Give and has not returned from its Take.
HasGrant(t) == pc[t] = "resume" /\ call[t] = "SEMAPHORE" /\ state[t] = "READY"

\* The set a step leaves alone when it gives and takes nobody's grant.
LEMMA SameGranted ==
  ASSUME NEW s \in Sems,
         \A t \in Threads : /\ HasGrant(t)' <=> HasGrant(t)
                            /\ HasGrant(t) => arg'[t] = arg[t]
  PROVE  Granted(s)' = Granted(s)
BY DEF Granted, HasGrant

\* A step that moves no token, no grant and no taker.
Quiet ==
  /\ UNCHANGED <<value, credit>>
  /\ \A s \in Sems : waiters'[s] = waiters[s]
  /\ \A t \in Threads : /\ HasGrant(t)' <=> HasGrant(t)
                        /\ HasGrant(t) => arg'[t] = arg[t]

\* A quiet step leaves value, credit and the granted tokens of every semaphore alone.
LEMMA NoTokenMoves ==
  ASSUME TokenConservation, Quiet
  PROVE  TokenConservation'
<1>1. \A s \in Sems : Granted(s)' = Granted(s)
  BY SameGranted DEF Quiet
<1> QED BY <1>1 DEF TokenConservation, Quiet

\* Grants are counted by a natural number.
LEMMA GrantedFinite ==
  ASSUME NEW s \in Sems
  PROVE  IsFiniteSet(Granted(s)) /\ Cardinality(Granted(s)) \in Nat
<1>1. IsFiniteSet(Threads)
  BY NAssumption, FS_Interval DEF Threads, MAX_THREADS
<1>2. Granted(s) \subseteq Threads
  BY DEF Granted
<1>3. IsFiniteSet(Granted(s))
  BY <1>1, <1>2, FS_Subset
<1> QED BY <1>3, FS_CardinalityType

\* The initial count is within the capacity and nobody waits.
LEMMA InitTokens ==
  ASSUME Init
  PROVE  TokenConservation
<1>1. ASSUME NEW s \in Sems
      PROVE  Cardinality(Granted(s)) = 0
  <2>1. Granted(s) = {}
    BY DEF Init, Granted
  <2> QED BY <2>1, FS_EmptySet
<1>2. ASSUME NEW s \in Sems
      PROVE  value[s] \in Nat /\ value[s] <= maxCount[s]
  <2>1. maxCount[s] \in Nat \ {0} /\ (s \in BinSems => maxCount[s] = 1)
    BY maxCountAssumption
  <2>2. PICK initial \in InitialCounts :
          IF s \in BinSems THEN value[s] = IF initial > 0 THEN 1 ELSE 0
                           ELSE initial \in 0..maxCount[s] /\ value[s] = initial
    BY DEF Init, SemaphoreInit, osBinSemInit, osCountSemInit
  <2> QED BY <2>1, <2>2
<1> QED BY <1>1, <1>2 DEF Init, TokenConservation

\* Give: the oldest waiter is granted the token, or it is stored up to the capacity.
LEMMA GiveMoves ==
  ASSUME IInv, NEW s \in Sems, Alive, giveSignal(s),
         UNCHANGED <<call, arg>>,
         \A t \in Tasks : pc'[t] = pc[t], pc'[Idle] \in {"wfi", "awake"}
  PROVE  \/ /\ waiters[s] = <<>> /\ UNCHANGED waiters
            /\ Accepted(s) <=> value[s] < maxCount[s]
            /\ value' = [value EXCEPT ![s] = IF @ < maxCount[s] THEN @ + 1 ELSE @]
            /\ \A x \in Sems : Granted(x)' = Granted(x)
         \/ /\ waiters[s] # <<>> /\ waiters' = [waiters EXCEPT ![s] = Tail(@)]
            /\ Accepted(s) /\ UNCHANGED value
            /\ Head(waiters[s]) \in Tasks \ Granted(s)
            /\ \A x \in Sems : Granted(x)' = IF x = s THEN Granted(x) \cup {Head(waiters[s])}
                                                       ELSE Granted(x)
<1>0. s \in Objects /\ s \notin Mutexes
  BY ObjectsAssumption DEF Objects
<1>1. pc[Idle] \in {"wfi", "awake"} /\ \A t \in Threads : t \in Tasks \/ t = Idle
  BY ThreadsFacts DEF IInv, CallMatchesTcb, Tasks
<1>2. CASE waiters[s] = <<>>
  <2>1. /\ value' = [value EXCEPT ![s] = IF @ < maxCount[s] THEN @ + 1 ELSE @]
        /\ UNCHANGED <<state, waiters>>
        /\ Accepted(s) <=> value[s] < maxCount[s]
    BY <1>2 DEF giveSignal, Accepted, waitVars
  <2>2. \A t \in Threads : HasGrant(t)' <=> HasGrant(t)
    BY <1>1, <2>1 DEF HasGrant
  <2>3. \A x \in Sems : Granted(x)' = Granted(x)
    BY <2>2, SameGranted
  <2> QED BY <1>2, <2>1, <2>3
<1>3. CASE waiters[s] # <<>>
  <2> DEFINE h == Head(waiters[s])
  <2>1. /\ h \in Threads /\ h # Idle /\ state[h] = "BLOCKED"
        /\ waitSem[h] = s /\ waitMutex[h] = NULL
    BY <1>0, <1>3, OldestWaiter
  <2>2. Dequeue(s) /\ UNCHANGED value /\ Accepted(s)
    BY <1>3, <2>1 DEF giveSignal, osKernelUnblockOneOnSemaphore, Accepted
  <2>3. state' = [state EXCEPT ![h] = "READY"] /\ waiters' = [waiters EXCEPT ![s] = Tail(@)]
    BY <2>2 DEF Dequeue
  <2> HIDE DEF h
  <2>4. pc[h] = "resume" /\ call[h] = "SEMAPHORE" /\ arg[h] = s
    BY <1>0, <2>1, ObjectsAssumption DEF IInv, CallMatchesTcb, Objects
  <2>5. pc'[h] = "resume" /\ state'[h] = "READY" /\ \A t \in Threads \ {h} : state'[t] = state[t]
    BY <1>1, <2>1, <2>3, <2>4 DEF IInv, TypeOK, KernelTypeOK
  <2>6. ASSUME NEW x \in Sems
        PROVE  Granted(x)' = IF x = s THEN Granted(x) \cup {h} ELSE Granted(x)
    BY <1>1, <2>1, <2>4, <2>5 DEF Granted
  <2>7. h \in Tasks \ Granted(s)
    BY <2>1 DEF Granted, Tasks
  <2> QED BY <1>3, <2>2, <2>3, <2>6, <2>7 DEF h
<1> QED BY <1>2, <1>3

\* The credit counts exactly the accepted Gives.
LEMMA GiveTokens ==
  ASSUME IInv, TokenConservation, NEW s \in Sems, Alive, giveSignal(s),
         credit' = [credit EXCEPT ![s] = IF Accepted(s) THEN @ + 1 ELSE @],
         UNCHANGED <<call, arg>>,
         \A t \in Tasks : pc'[t] = pc[t], pc'[Idle] \in {"wfi", "awake"}
  PROVE  TokenConservation'
<1>0. /\ value \in [Sems -> Nat] /\ credit \in [Sems -> Int]
      /\ maxCount \in [Sems -> Nat \ {0}]
  BY maxCountAssumption DEF IInv, TypeOK, SemaphoreTypeOK
<1> DEFINE h == Head(waiters[s])
<1>1. \/ /\ Accepted(s) <=> value[s] < maxCount[s]
         /\ value' = [value EXCEPT ![s] = IF @ < maxCount[s] THEN @ + 1 ELSE @]
         /\ \A x \in Sems : Granted(x)' = Granted(x)
      \/ /\ Accepted(s) /\ UNCHANGED value /\ h \notin Granted(s)
         /\ \A x \in Sems : Granted(x)' = IF x = s THEN Granted(x) \cup {h} ELSE Granted(x)
  BY GiveMoves
<1> HIDE DEF h
<1>2. ASSUME NEW x \in Sems
      PROVE  credit'[x] = value'[x] + Cardinality(Granted(x)') /\ value'[x] <= maxCount[x]
  <2>1. /\ credit[x] = value[x] + Cardinality(Granted(x)) /\ value[x] <= maxCount[x]
        /\ Cardinality(Granted(x)) \in Nat /\ IsFiniteSet(Granted(x))
    BY GrantedFinite DEF TokenConservation
  <2>2. CASE x = s /\ UNCHANGED value /\ Accepted(s) /\ h \notin Granted(s)
               /\ Granted(x)' = Granted(x) \cup {h}
    <3>1. Cardinality(Granted(x) \cup {h}) = Cardinality(Granted(x)) + 1
      BY <2>1, <2>2, FS_AddElement
    <3>2. Cardinality(Granted(x)') = Cardinality(Granted(x)) + 1
      BY <2>2, <3>1
    <3>3. credit'[x] = credit[x] + 1
      BY <1>0, <2>2
    <3> QED BY <1>0, <2>1, <2>2, <3>2, <3>3
  <2>3. CASE x = s /\ Granted(x)' = Granted(x) /\ (Accepted(s) <=> value[s] < maxCount[s])
               /\ value' = [value EXCEPT ![s] = IF @ < maxCount[s] THEN @ + 1 ELSE @]
    <3>1. /\ value'[x] = IF value[x] < maxCount[x] THEN value[x] + 1 ELSE value[x]
          /\ credit'[x] = IF value[x] < maxCount[x] THEN credit[x] + 1 ELSE credit[x]
      BY <1>0, <2>3
    <3> QED BY <1>0, <2>1, <2>3, <3>1
  <2>4. CASE x # s
    <3>1. value'[x] = value[x] /\ credit'[x] = credit[x] /\ Granted(x)' = Granted(x)
      BY <1>0, <1>1, <2>4
    <3> QED BY <2>1, <3>1
  <2> QED BY <1>1, <2>2, <2>3, <2>4
<1> QED BY <1>2 DEF TokenConservation

\* A Take that finds a token stored removes it from the store; one that has to wait
\* joins the takers; one that is refused moves nothing.
LEMMA TakeMoves ==
  ASSUME IInv, NEW t \in Tasks, Take(t)
  PROVE  LET s == arg[t]
         IN  /\ s \in Sems
             /\ \A x \in Sems : Granted(x)' = Granted(x) /\ t \notin Granted(x)
             /\ \/ /\ value[s] > 0 /\ UNCHANGED waiters
                   /\ value' = [value EXCEPT ![s] = @ - 1]
                   /\ credit' = [credit EXCEPT ![s] = @ - 1]
                \/ /\ value[s] = 0 /\ UNCHANGED <<value, credit>>
                   /\ t \notin Range(waiters[s])
                   /\ waiters' = [waiters EXCEPT ![s] = Append(@, t)]
                \/ pc'[t] = "refused" /\ UNCHANGED <<value, credit, waiters>>
<1> DEFINE s == arg[t]
<1>1. /\ t \in Threads /\ t = currentPt /\ state[t] = "READY" /\ Alive
      /\ pc[t] = "checked" /\ call[t] = "SEMAPHORE" /\ s \in Sems
      /\ NotWaiting(t) /\ ~Linked(t) /\ s \in Objects
  BY InCallFacts, RunningContext DEF Take, ContextCalls, Arguments, Objects
<1>2. /\ value \in [Sems -> Nat] /\ credit \in [Sems -> Int]
      /\ pc \in [Threads -> Places] /\ call \in [Threads -> ContextCalls \cup {"NONE"}]
      /\ arg \in [Threads -> Delays \cup Objects \cup {NULL}]
      /\ state \in [Threads -> {"READY", "BLOCKED", "SLEEPING"}]
  BY DEF IInv, TypeOK, SemaphoreTypeOK, KernelTypeOK
<1>t. \A x \in Sems : t \notin Granted(x)
  BY <1>1 DEF Granted
<1>3. CASE value[s] > 0
  <2>1. /\ value' = [value EXCEPT ![s] = @ - 1] /\ UNCHANGED <<state, waiters>>
        /\ credit' = [credit EXCEPT ![s] = @ - 1] /\ Returns(t)
    BY <1>3 DEF Take, takeSignal, waitVars
  <2> HIDE DEF s
  <2>2. \A u \in Threads : /\ HasGrant(u)' <=> HasGrant(u)
                           /\ HasGrant(u) => arg'[u] = arg[u]
    BY <1>1, <1>2, <2>1 DEF HasGrant, Returns
  <2>3. \A x \in Sems : Granted(x)' = Granted(x)
    BY <2>2, SameGranted
  <2> QED BY <1>1, <1>3, <1>t, <2>1, <2>3 DEF s
<1>4. CASE ~(value[s] > 0) /\ TakeRefusal(s, errs[t]) # {}
  <2>1. UNCHANGED <<value, state, credit, call, arg, waiters>> /\ Refuses(t, errs[t])
    BY <1>4 DEF Take, takeSignal, Refuses, waitVars
  <2>2. pc'[t] = "refused" /\ \A u \in Threads : HasGrant(u)' <=> HasGrant(u)
    BY <1>1, <1>2, <2>1 DEF HasGrant, Refuses
  <2>3. \A x \in Sems : Granted(x)' = Granted(x)
    BY <2>1, <2>2, SameGranted
  <2> QED BY <1>1, <1>t, <2>1, <2>2, <2>3
<1>5. CASE ~(value[s] > 0) /\ ~(TakeRefusal(s, errs[t]) # {})
  <2>1. /\ UNCHANGED <<value, credit, call, arg>> /\ Suspends(t)
        /\ osKernelBlockCurrentOnSemaphore(s)
    BY <1>5, Zenon DEF Take, takeSignal, Suspends
  <2>2. CanPush(s, t)
    BY <1>1, CanAlwaysPush
  <2>3. Enqueue(s)
    BY <1>1, <2>1, <2>2, RunningContext DEF osKernelBlockCurrentOnSemaphore, Take, InCall
  <2>4. value[s] = 0 /\ t \notin Range(waiters[s])
    BY <1>1, <1>2, <1>5 DEF Linked
  <2> HIDE DEF s
  <2>5. /\ state' = [state EXCEPT ![t] = "BLOCKED"]
        /\ waiters' = [waiters EXCEPT ![s] = Append(@, t)]
    BY <1>1, <2>3 DEF Enqueue
  <2>6. \A u \in Threads : HasGrant(u)' <=> HasGrant(u)
    BY <1>1, <1>2, <2>1, <2>5 DEF HasGrant, Suspends
  <2>7. \A x \in Sems : Granted(x)' = Granted(x)
    BY <2>1, <2>6, SameGranted
  <2> QED BY <1>1, <1>t, <2>1, <2>4, <2>5, <2>7 DEF s
<1> QED BY <1>3, <1>4, <1>5

\* A Take that finds a token stores one less; one that blocks or is refused moves none.
LEMMA TakeTokens ==
  ASSUME IInv, TokenConservation, NEW t \in Tasks, Take(t)
  PROVE  TokenConservation'
<1> DEFINE s == arg[t]
<1>1. /\ value \in [Sems -> Nat] /\ credit \in [Sems -> Int]
  BY DEF IInv, TypeOK, SemaphoreTypeOK
<1>2. /\ s \in Sems /\ \A x \in Sems : Granted(x)' = Granted(x)
      /\ \/ /\ value[s] > 0
            /\ value' = [value EXCEPT ![s] = @ - 1]
            /\ credit' = [credit EXCEPT ![s] = @ - 1]
         \/ UNCHANGED <<value, credit>>
  BY TakeMoves
<1> HIDE DEF s
<1>3. ASSUME NEW x \in Sems
      PROVE  credit'[x] = value'[x] + Cardinality(Granted(x)') /\ value'[x] <= maxCount[x]
  <2>1. /\ credit[x] = value[x] + Cardinality(Granted(x)) /\ value[x] <= maxCount[x]
        /\ Cardinality(Granted(x)) \in Nat /\ maxCount[x] \in Nat
    BY GrantedFinite, maxCountAssumption DEF TokenConservation
  <2>2. \/ value'[x] = value[x] /\ credit'[x] = credit[x]
        \/ value'[x] = value[x] - 1 /\ credit'[x] = credit[x] - 1
    BY <1>1, <1>2
  <2>3. Cardinality(Granted(x)') = Cardinality(Granted(x))
    BY <1>2
  <2> QED BY <1>1, <2>1, <2>2, <2>3
<1> QED BY <1>3 DEF TokenConservation

\* A waiter that resumes takes the token it was granted out of the credit.
LEMMA ReturnMoves ==
  ASSUME IInv, NEW t \in Tasks, Return(t)
  PROVE  \/ Quiet
         \/ /\ call[t] = "SEMAPHORE" /\ arg[t] \in Sems /\ t \in Granted(arg[t])
            /\ UNCHANGED <<value, waiters>>
            /\ credit' = [credit EXCEPT ![arg[t]] = @ - 1]
            /\ \A x \in Sems : Granted(x)' = IF x = arg[t] THEN Granted(x) \ {t} ELSE Granted(x)
<1>1. t \in Threads /\ state[t] = "READY" /\ pc[t] = "resume"
  BY RunningContext DEF Return
<1>2. /\ pc \in [Threads -> Places] /\ call \in [Threads -> ContextCalls \cup {"NONE"}]
      /\ arg \in [Threads -> Delays \cup Objects \cup {NULL}]
      /\ (call[t] = "SEMAPHORE" => arg[t] \in Sems)
  BY <1>1 DEF IInv, TypeOK, CallMatchesTcb, Arguments
<1>3. /\ pc'[t] = "run" /\ UNCHANGED <<value, state, waiters>>
      /\ \A u \in Threads \ {t} : pc'[u] = pc[u] /\ call'[u] = call[u] /\ arg'[u] = arg[u]
  BY <1>1, <1>2 DEF Return, Returns, kernelVars, waitVars
<1>4. CASE call[t] # "SEMAPHORE"
  <2>1. UNCHANGED credit
    BY <1>4 DEF Return
  <2>2. \A u \in Threads : /\ HasGrant(u)' <=> HasGrant(u)
                           /\ HasGrant(u) => arg'[u] = arg[u]
    BY <1>3, <1>4 DEF HasGrant
  <2> QED BY <1>3, <2>1, <2>2 DEF Quiet
<1>5. CASE call[t] = "SEMAPHORE"
  <2>1. credit' = [credit EXCEPT ![arg[t]] = @ - 1] /\ arg[t] \in Sems
    BY <1>2, <1>5 DEF Return
  <2>2. ASSUME NEW x \in Sems
        PROVE  Granted(x)' = IF x = arg[t] THEN Granted(x) \ {t} ELSE Granted(x)
    BY <1>1, <1>3 DEF Granted
  <2>3. t \in Granted(arg[t])
    BY <1>1, <1>5 DEF Granted
  <2> QED BY <1>3, <1>5, <2>1, <2>2, <2>3
<1> QED BY <1>4, <1>5

\* A Take that returns after a wait consumes the token it was granted.
LEMMA ReturnTokens ==
  ASSUME IInv, TokenConservation, NEW t \in Tasks, Return(t)
  PROVE  TokenConservation'
<1>1. CASE Quiet
  BY <1>1, NoTokenMoves
<1>2. CASE /\ arg[t] \in Sems /\ t \in Granted(arg[t]) /\ UNCHANGED value
           /\ credit' = [credit EXCEPT ![arg[t]] = @ - 1]
           /\ \A x \in Sems : Granted(x)' = IF x = arg[t] THEN Granted(x) \ {t} ELSE Granted(x)
  <2>1. credit \in [Sems -> Int] /\ value \in [Sems -> Nat]
    BY DEF IInv, TypeOK, SemaphoreTypeOK
  <2>2. ASSUME NEW x \in Sems
        PROVE  /\ credit'[x] = value[x] + Cardinality(Granted(x)')
               /\ value[x] <= maxCount[x]
    <3>1. /\ credit[x] = value[x] + Cardinality(Granted(x)) /\ value[x] <= maxCount[x]
          /\ Cardinality(Granted(x)) \in Nat /\ IsFiniteSet(Granted(x))
      BY GrantedFinite DEF TokenConservation
    <3>2. CASE x = arg[t]
      <4>1. Cardinality(Granted(x) \ {t}) = Cardinality(Granted(x)) - 1
        BY <1>2, <3>1, <3>2, FS_RemoveElement
      <4>2. Cardinality(Granted(x)') = Cardinality(Granted(x)) - 1
        BY <1>2, <3>2, <4>1
      <4>3. credit'[x] = credit[x] - 1
        BY <1>2, <2>1, <3>2
      <4> QED BY <2>1, <3>1, <4>2, <4>3
    <3>3. CASE x # arg[t]
      <4>1. credit'[x] = credit[x] /\ Cardinality(Granted(x)') = Cardinality(Granted(x))
        BY <1>2, <2>1, <3>3
      <4> QED BY <3>1, <4>1
    <3> QED BY <3>2, <3>3
  <2> QED BY <1>2, <2>2 DEF TokenConservation
<1> QED BY <1>1, <1>2, ReturnMoves

\* The calls on a mutex move no token and no taker: whoever they make READY waited for it.
LEMMA MutexQuiet ==
  ASSUME IInv, NEW t \in Tasks, MutexTake(t) \/ MutexGive(t)
  PROVE  Quiet
<1> DEFINE m == arg[t]
<1>1. /\ t \in Threads /\ state[t] = "READY" /\ t = currentPt
      /\ pc[t] = "checked" /\ call[t] \in {"MUTEX_TAKE", "MUTEX_GIVE"} /\ m \in Mutexes
  <2>1. CASE MutexTake(t)
    BY <2>1, InCallFacts DEF MutexTake, ContextCalls, Arguments
  <2>2. CASE MutexGive(t)
    BY <2>2, InCallFacts DEF MutexGive, ContextCalls, Arguments
  <2> QED BY <2>1, <2>2
<1>2. /\ pc \in [Threads -> Places] /\ call \in [Threads -> ContextCalls \cup {"NONE"}]
      /\ arg \in [Threads -> Delays \cup Objects \cup {NULL}]
      /\ state \in [Threads -> {"READY", "BLOCKED", "SLEEPING"}]
  BY DEF IInv, TypeOK, KernelTypeOK
<1>3. UNCHANGED <<value, credit>> /\ (Returns(t) \/ Suspends(t) \/ UNCHANGED taskVars
        \/ \E e \in {MutexRefusal(m, errs[t])} : Refuses(t, e))
  BY DEF MutexTake, MutexGive
<1> HIDE DEF m
<1>4. \A u \in Threads \ {t} : pc'[u] = pc[u] /\ call'[u] = call[u] /\ arg'[u] = arg[u]
  BY <1>2, <1>3 DEF Returns, Suspends, Refuses, taskVars
<1>5. call'[t] # "SEMAPHORE"
  BY <1>1, <1>2, <1>3 DEF Returns, Suspends, Refuses, taskVars
<1>w. ASSUME NEW s \in Sems
      PROVE  waiters'[s] = waiters[s]
  <2>1. /\ waiters \in [Objects -> Seq(Threads)] /\ s # m /\ s \in Objects
        /\ (osMutexTake(m, errs[t]) \/ osMutexGive(m))
    BY <1>1, ObjectsAssumption DEF IInv, TypeOK, WaitTypeOK, MutexTake, MutexGive, m, Objects
  <2>2. UNCHANGED waiters \/ Enqueue(m) \/ Dequeue(m)
    <3>1. osMutexTake(m, errs[t]) => UNCHANGED waiters \/ Enqueue(m)
      BY DEF osMutexTake, osKernelBlockCurrentOnMutex, waitFault, mutexVars, waitVars
    <3>2. osMutexGive(m) => UNCHANGED waiters \/ Dequeue(m)
      BY DEF osMutexGive, osKernelReleaseMutex, waitFault, mutexVars, waitVars
    <3> QED BY <2>1, <3>1, <3>2
  <2> QED BY <2>1, <2>2 DEF Enqueue, Dequeue
<1>6. ASSUME NEW u \in Threads \ {t}, call[u] = "SEMAPHORE"
      PROVE  state'[u] = "READY" <=> state[u] = "READY"
  <2>1. CASE UNCHANGED state
    BY <2>1
  <2>2. CASE Enqueue(m)
    BY <1>1, <1>2, <2>2 DEF Enqueue
  <2>3. CASE waiters[m] # <<>> /\ Dequeue(m)
    <3> DEFINE h == Head(waiters[m])
    <3>1. h \in Threads /\ waitMutex[h] = m /\ m # NULL
      BY <1>1, <2>3, OldestWaiter, ObjectsAssumption DEF Objects
    <3>2. call[h] = "MUTEX_TAKE"
      BY <3>1 DEF IInv, CallMatchesTcb
    <3> QED BY <1>2, <1>6, <2>3, <3>1, <3>2 DEF Dequeue
  <2>4. osMutexTake(m, errs[t]) \/ osMutexGive(m)
    BY DEF MutexTake, MutexGive, m
  <2>5. UNCHANGED state \/ Enqueue(m) \/ (waiters[m] # <<>> /\ Dequeue(m))
    <3>1. osKernelBlockCurrentOnMutex(m) => UNCHANGED state \/ Enqueue(m)
      BY DEF osKernelBlockCurrentOnMutex, waitFault
    <3>2. osMutexTake(m, errs[t]) => UNCHANGED state \/ Enqueue(m)
      BY <3>1 DEF osMutexTake, mutexVars
    <3>3. osKernelReleaseMutex(m) =>
            UNCHANGED state \/ (waiters[m] # <<>> /\ Dequeue(m))
      BY DEF osKernelReleaseMutex, waitFault
    <3>4. osMutexGive(m) => UNCHANGED state \/ (waiters[m] # <<>> /\ Dequeue(m))
      BY <3>3 DEF osMutexGive, mutexVars
    <3> QED BY <2>4, <3>2, <3>4
  <2> QED BY <2>1, <2>2, <2>3, <2>5
<1>7. \A u \in Threads : /\ HasGrant(u)' <=> HasGrant(u)
                         /\ HasGrant(u) => arg'[u] = arg[u]
  BY <1>1, <1>4, <1>5, <1>6 DEF HasGrant
<1> QED BY <1>3, <1>7, <1>w DEF Quiet

\* osDelay, the context checks, masks, yields and the exit of a task.
LEMMA OtherTaskQuiet ==
  ASSUME IInv, NEW t \in Tasks,
         \/ \E c \in ContextCalls : \E a \in Arguments(c) : CheckContext(t, c, a)
         \/ BlockingFault(t) \/ osDelay(t) \/ TaskYield(t) \/ osThreadExit(t)
         \/ \E r \in MaskRegisters : SetMask(t, r) \/ ClearMask(t, r)
  PROVE  Quiet
<1>1. /\ pc \in [Threads -> Places] /\ call \in [Threads -> ContextCalls \cup {"NONE"}]
      /\ arg \in [Threads -> Delays \cup Objects \cup {NULL}]
      /\ errs \in [Threads -> SUBSET ErrorBits]
      /\ state \in [Threads -> {"READY", "BLOCKED", "SLEEPING"}]
      /\ t \in Threads
  BY DEF IInv, TypeOK, KernelTypeOK, Tasks
<1>w. UNCHANGED waiters
  BY DEF CheckContext, BlockingFault, osDelay, TaskYield, osThreadExit, SetMask, ClearMask,
         waitVars
<1>2. CASE \E c \in ContextCalls : \E a \in Arguments(c) : CheckContext(t, c, a)
  <2>1. /\ pc[t] = "run" /\ pc'[t] \in {"checked", "refused"}
        /\ UNCHANGED <<value, credit, state>>
        /\ \A u \in Threads \ {t} : pc'[u] = pc[u] /\ call'[u] = call[u] /\ arg'[u] = arg[u]
    BY <1>1, <1>2 DEF CheckContext, kernelVars, historyVars
  <2> QED BY <1>w, <2>1 DEF HasGrant, Quiet
<1>3. CASE osDelay(t)
  <2>1. t = currentPt /\ call[t] = "DELAY"
    BY <1>3 DEF osDelay, InCall, Executes
  <2>2. /\ UNCHANGED <<value, credit, call, arg>>
        /\ \A u \in Threads \ {t} : pc'[u] = pc[u] /\ state'[u] = state[u]
    BY <1>1, <1>3, <2>1 DEF osDelay, Sleep, Suspends, historyVars
  <2> QED BY <1>w, <2>1, <2>2 DEF HasGrant, Quiet
<1>4. CASE osThreadExit(t)
  <2>1. /\ pc[t] = "run" /\ pc'[t] = "exited"
        /\ UNCHANGED <<value, credit, state, call, arg>>
        /\ \A u \in Threads \ {t} : pc'[u] = pc[u]
    BY <1>1, <1>4 DEF osThreadExit, kernelVars, historyVars
  <2> QED BY <1>w, <2>1 DEF HasGrant, Quiet
<1>5. CASE \/ BlockingFault(t) \/ TaskYield(t)
           \/ \E r \in MaskRegisters : SetMask(t, r) \/ ClearMask(t, r)
  <2>1. UNCHANGED <<value, credit, state, pc, call, arg>>
    BY <1>5 DEF BlockingFault, TaskYield, SetMask, ClearMask, kernelVars, taskVars, historyVars
  <2> QED BY <1>w, <2>1 DEF HasGrant, Quiet
<1> QED BY <1>2, <1>3, <1>4, <1>5

\* The idle task, the exceptions that give nothing, and main.
LEMMA KernelQuiet ==
  ASSUME IInv,
         \/ IdleYield \/ Switch \/ Quantum \/ TIM2_IRQHandler \/ Launch
         \/ \E c \in ContextCalls : \E a \in Arguments(c) :
              HandlerContextCall(c, a) \/ MainContextCall(c, a)
  PROVE  Quiet
<1>1. /\ pc \in [Threads -> Places] /\ Idle \in Threads
      /\ state \in [Threads -> {"READY", "BLOCKED", "SLEEPING"}]
      /\ pc[Idle] \in {"wfi", "awake"}
  BY ThreadsFacts DEF IInv, TypeOK, KernelTypeOK, CallMatchesTcb
<1>2. UNCHANGED <<value, credit, call, arg, waiters>>
  BY DEF IdleYield, Switch, Quantum, TIM2_IRQHandler, Launch, HandlerContextCall,
         MainContextCall, WakesIdle, taskVars, historyVars, waitVars
<1>3. pc'[Idle] # "resume" /\ \A u \in Threads \ {Idle} : pc'[u] = pc[u]
  BY <1>1 DEF IdleYield, Switch, Quantum, TIM2_IRQHandler, Launch, HandlerContextCall,
         MainContextCall, WakesIdle, taskVars
<1>4. ASSUME NEW u \in Threads, call[u] = "SEMAPHORE"
      PROVE  state'[u] = state[u]
  <2>1. CASE TIM2_IRQHandler
    <3>1. state[u] # "SLEEPING"
      BY <1>4 DEF IInv, CallMatchesTcb
    <3> QED BY <2>1, <3>1 DEF TIM2_IRQHandler, osKernelTick, osWakeSleeping
  <2>2. CASE ~TIM2_IRQHandler
    BY <2>2 DEF IdleYield, Switch, PendSV_Handler, Quantum, SysTick_Handler, Launch,
           osKernelLaunch, HandlerContextCall, MainContextCall, kernelVars
  <2> QED BY <2>1, <2>2
<1>5. \A u \in Threads : HasGrant(u)' <=> HasGrant(u)
  BY <1>1, <1>2, <1>3, <1>4 DEF HasGrant
<1> QED BY <1>2, <1>5 DEF Quiet

\* The Give of a task or of main.
LEMMA ThreadGivesToken ==
  ASSUME IInv, TokenConservation, NEW s \in Sems, Alive, Give(s)
  PROVE  TokenConservation'
<1>1. pc'[Idle] \in {"wfi", "awake"}
  BY ThreadsFacts DEF Give, taskVars, IInv, CallMatchesTcb
<1> QED BY <1>1, GiveTokens DEF Give, taskVars

\* The Give of an interrupt handler, which may also end the WFI of the idle task.
LEMMA HandlerGivesToken ==
  ASSUME IInv, TokenConservation, NEW s \in Sems, HandlerGive(s)
  PROVE  TokenConservation'
<1>1. /\ pc'[Idle] \in {"wfi", "awake"}
      /\ \A t \in Tasks : pc'[t] = pc[t]
  BY ThreadsFacts DEF HandlerGive, WakesIdle, IInv, TypeOK, CallMatchesTcb, Tasks
<1> QED BY <1>1, GiveTokens DEF HandlerGive, WakesIdle

\* A stuttering step moves no token.
LEMMA StutterTokens ==
  ASSUME TokenConservation, UNCHANGED vars
  PROVE  TokenConservation'
BY DEF TokenConservation, Granted, vars, kernelVars, taskVars, historyVars

\* Every step of the kernel, its tasks and its handlers conserves the tokens.
LEMMA NextTokens ==
  ASSUME IInv, TokenConservation, Next
  PROVE  TokenConservation'
<1>1. ASSUME NEW t \in Tasks, TaskStep(t)
      PROVE  TokenConservation'
  <2>1. CASE Take(t)
    BY <2>1, TakeTokens
  <2>2. CASE MutexTake(t) \/ MutexGive(t)
    BY <2>2, MutexQuiet, NoTokenMoves
  <2>3. CASE Return(t)
    BY <2>3, ReturnTokens
  <2>4. CASE \E s \in Sems : TaskGive(t, s)
    <3>1. PICK s \in Sems : Alive /\ Give(s)
      BY <2>4 DEF TaskGive, Executes
    <3> QED BY <3>1, ThreadGivesToken
  <2> QED BY <1>1, <2>1, <2>2, <2>3, <2>4, OtherTaskQuiet, NoTokenMoves DEF TaskStep
<1>2. CASE Interrupt
  <2>1. CASE \E s \in Sems : HandlerGive(s)
    BY <2>1, HandlerGivesToken
  <2> QED BY <1>2, <2>1, KernelQuiet, NoTokenMoves DEF Interrupt
<1>3. CASE Main
  <2>1. CASE \E s \in Sems : MainGive(s)
    BY <2>1, ThreadGivesToken DEF MainGive
  <2> QED BY <1>3, <2>1, KernelQuiet, NoTokenMoves DEF Main
<1>4. CASE Stopped
  BY <1>4, StutterTokens DEF Stopped
<1> QED BY <1>1, <1>2, <1>3, <1>4, KernelQuiet, NoTokenMoves DEF Next

\* giveSignal and takeSignal: no token is lost, duplicated or stored twice, and no
\* semaphore stores more than its capacity.
THEOREM TokenConservationSafety == Spec => []TokenConservation
<1>1. Init => IInv /\ TokenConservation
  BY InitIInv, InitTokens
<1>2. IInv /\ TokenConservation /\ [Next]_vars => (IInv /\ TokenConservation)'
  BY NextStep, StutterStep, NextTokens, StutterTokens
<1> QED BY <1>1, <1>2, PTL DEF Spec

(***************************************************************************)
(* The order of the tokens.                                                *)
(***************************************************************************)

\* Seen from a semaphore, a step that leaves its store, its queue and its grants
\* alone is a stutter.
LEMMA SameGate ==
  ASSUME NEW s \in Sems, value'[s] = value[s], waiters'[s] = waiters[s],
         Granted(s)' = Granted(s)
  PROVE  [Gate(s)!Next]_<<value[s], waiters[s], Granted(s)>>
OBVIOUS

\* A quiet step is a stutter of every abstract semaphore.
LEMMA QuietGates ==
  ASSUME Quiet
  PROVE  GatesStep
<1> SUFFICES ASSUME NEW s \in Sems
             PROVE  [Gate(s)!Next]_<<value[s], waiters[s], Granted(s)>>
  BY DEF GatesStep
<1>1. value'[s] = value[s] /\ waiters'[s] = waiters[s]
  BY DEF Quiet
<1>2. Granted(s)' = Granted(s)
  BY SameGranted DEF Quiet
<1> QED BY <1>1, <1>2, SameGate

\* A Give stores a token, grants it, or is refused at capacity.
LEMMA GiveIsStoreOrGrant ==
  ASSUME IInv, TokenConservation, NEW s \in Sems, Alive, giveSignal(s),
         UNCHANGED <<call, arg>>,
         \A t \in Tasks : pc'[t] = pc[t], pc'[Idle] \in {"wfi", "awake"}
  PROVE  GatesStep
<1> SUFFICES ASSUME NEW x \in Sems
             PROVE  [Gate(x)!Next]_<<value[x], waiters[x], Granted(x)>>
  BY DEF GatesStep
<1>1. /\ value \in [Sems -> Nat] /\ waiters \in [Objects -> Seq(Threads)]
      /\ s \in Objects /\ x \in Objects
  BY DEF IInv, TypeOK, SemaphoreTypeOK, WaitTypeOK, Objects
<1> DEFINE h == Head(waiters[s])
<1>2. CASE /\ waiters[s] = <<>> /\ UNCHANGED waiters
           /\ value' = [value EXCEPT ![s] = IF @ < maxCount[s] THEN @ + 1 ELSE @]
           /\ \A y \in Sems : Granted(y)' = Granted(y)
  <2>1. CASE x = s /\ value[s] < maxCount[s]
    <3>1. Gate(x)!Store
      BY <1>1, <1>2, <2>1 DEF Gate!Store
    <3> QED BY <3>1 DEF Gate!Next
  <2>2. CASE ~(x = s /\ value[s] < maxCount[s])
    BY <1>1, <1>2, <2>2, SameGate
  <2> QED BY <2>1, <2>2
<1>3. CASE /\ waiters[s] # <<>> /\ waiters' = [waiters EXCEPT ![s] = Tail(@)]
           /\ UNCHANGED value
           /\ \A y \in Sems : Granted(y)' = IF y = s THEN Granted(y) \cup {h} ELSE Granted(y)
  <2>1. CASE x = s
    <3>1. value[s] = 0
      BY <1>1, <1>3 DEF IInv, NoLostWakeup
    <3>2. /\ waiters'[s] = Tail(waiters[s]) /\ value'[s] = value[s]
          /\ Granted(s)' = Granted(s) \cup {h}
      BY <1>1, <1>3
    <3>3. Gate(s)!Grant
      BY <1>3, <3>1, <3>2 DEF Gate!Grant
    <3> QED BY <2>1, <3>3 DEF Gate!Next
  <2>2. CASE x # s
    BY <1>1, <1>3, <2>2, SameGate
  <2> QED BY <2>1, <2>2
<1> QED BY <1>2, <1>3, GiveMoves

\* A Take passes, asks, or is refused.
LEMMA TakeIsPassOrAsk ==
  ASSUME IInv, NEW t \in Tasks, Take(t)
  PROVE  GatesStep
<1> SUFFICES ASSUME NEW x \in Sems
             PROVE  [Gate(x)!Next]_<<value[x], waiters[x], Granted(x)>>
  BY DEF GatesStep
<1> DEFINE s == arg[t]
<1>1. /\ value \in [Sems -> Nat] /\ waiters \in [Objects -> Seq(Threads)]
      /\ Sems \subseteq Objects
  BY DEF IInv, TypeOK, SemaphoreTypeOK, WaitTypeOK, Objects
<1>2. /\ s \in Sems
      /\ \A y \in Sems : Granted(y)' = Granted(y) /\ t \notin Granted(y)
      /\ \/ /\ value[s] > 0 /\ UNCHANGED waiters
            /\ value' = [value EXCEPT ![s] = @ - 1]
         \/ /\ value[s] = 0 /\ UNCHANGED value
            /\ t \notin Range(waiters[s])
            /\ waiters' = [waiters EXCEPT ![s] = Append(@, t)]
         \/ UNCHANGED <<value, waiters>>
  BY TakeMoves
<1> HIDE DEF s
<1>3. CASE x # s
  BY <1>1, <1>2, <1>3, SameGate
<1>4. CASE x = s /\ value[s] > 0 /\ UNCHANGED waiters /\ value' = [value EXCEPT ![s] = @ - 1]
  <2>1. Gate(x)!Pass
    BY <1>1, <1>2, <1>4 DEF Gate!Pass
  <2> QED BY <2>1 DEF Gate!Next
<1>5. CASE /\ x = s /\ value[s] = 0 /\ UNCHANGED value /\ t \notin Range(waiters[s])
           /\ waiters' = [waiters EXCEPT ![s] = Append(@, t)]
  <2>1. waiters'[x] = Append(waiters[x], t)
    BY <1>1, <1>2, <1>5
  <2>2. Gate(x)!Ask(t)
    BY <1>2, <1>5, <2>1 DEF Gate!Ask, Gate!Range, Range
  <2> QED BY <2>2 DEF Gate!Next
<1>6. CASE x = s /\ UNCHANGED <<value, waiters>>
  BY <1>2, <1>6, SameGate
<1> QED BY <1>2, <1>3, <1>4, <1>5, <1>6

\* The return of a Take that waited is a Leave.
LEMMA ReturnIsLeave ==
  ASSUME IInv, NEW t \in Tasks, Return(t)
  PROVE  GatesStep
<1>1. CASE Quiet
  BY <1>1, QuietGates
<1>2. CASE /\ arg[t] \in Sems /\ t \in Granted(arg[t]) /\ UNCHANGED <<value, waiters>>
           /\ \A x \in Sems : Granted(x)' = IF x = arg[t] THEN Granted(x) \ {t} ELSE Granted(x)
  <2> SUFFICES ASSUME NEW x \in Sems
               PROVE  [Gate(x)!Next]_<<value[x], waiters[x], Granted(x)>>
    BY DEF GatesStep
  <2>1. CASE x = arg[t]
    <3>1. Gate(x)!Leave(t)
      BY <1>2, <2>1 DEF Gate!Leave
    <3> QED BY <3>1 DEF Gate!Next
  <2>2. CASE x # arg[t]
    BY <1>2, <2>2, SameGate
  <2> QED BY <2>1, <2>2
<1> QED BY <1>1, <1>2, ReturnMoves

\* Every step is, for each semaphore, a step of the abstract one or a stutter.
LEMMA EveryStepIsGatesStep ==
  ASSUME IInv, TokenConservation, [Next]_vars
  PROVE  GatesStep
<1>1. ASSUME NEW t \in Tasks, TaskStep(t)
      PROVE  GatesStep
  <2>1. CASE Take(t)
    BY <2>1, TakeIsPassOrAsk
  <2>2. CASE MutexTake(t) \/ MutexGive(t)
    BY <2>2, MutexQuiet, QuietGates
  <2>3. CASE Return(t)
    BY <2>3, ReturnIsLeave
  <2>4. CASE \E s \in Sems : TaskGive(t, s)
    <3>1. PICK s \in Sems : Alive /\ Give(s)
      BY <2>4 DEF TaskGive, Executes
    <3>2. pc'[Idle] \in {"wfi", "awake"}
      BY <3>1, ThreadsFacts DEF Give, taskVars, IInv, CallMatchesTcb
    <3> QED BY <3>1, <3>2, GiveIsStoreOrGrant DEF Give, taskVars
  <2> QED BY <1>1, <2>1, <2>2, <2>3, <2>4, OtherTaskQuiet, QuietGates DEF TaskStep
<1>2. CASE Interrupt
  <2>1. ASSUME NEW s \in Sems, HandlerGive(s)
        PROVE  GatesStep
    <3>1. /\ pc'[Idle] \in {"wfi", "awake"}
          /\ \A t \in Tasks : pc'[t] = pc[t]
      BY <2>1, ThreadsFacts DEF HandlerGive, WakesIdle, IInv, TypeOK, CallMatchesTcb, Tasks
    <3> QED BY <2>1, <3>1, GiveIsStoreOrGrant DEF HandlerGive, WakesIdle
  <2> QED BY <1>2, <2>1, KernelQuiet, QuietGates DEF Interrupt
<1>3. CASE Main
  <2>1. ASSUME NEW s \in Sems, MainGive(s)
        PROVE  GatesStep
    <3>1. pc'[Idle] \in {"wfi", "awake"}
      BY <2>1, ThreadsFacts DEF MainGive, Give, taskVars, IInv, CallMatchesTcb
    <3> QED BY <2>1, <3>1, GiveIsStoreOrGrant DEF MainGive, Give, taskVars
  <2> QED BY <1>3, <2>1, KernelQuiet, QuietGates DEF Main
<1>4. CASE Stopped \/ UNCHANGED vars
  <2>1. UNCHANGED <<value, waiters, pc, call, arg, state>>
    BY <1>4 DEF Stopped, vars, kernelVars, taskVars, waitVars
  <2>2. \A s \in Sems : Granted(s)' = Granted(s)
    BY <2>1 DEF Granted
  <2> QED BY <2>1, <2>2, SameGate DEF GatesStep
<1> QED BY <1>1, <1>2, <1>3, <1>4, KernelQuiet, QuietGates DEF Next

\* takeSignal and giveSignal implement the FIFO semaphore: the tokens are handed out
\* in the order of the Takes that wait for them.
THEOREM SemaphoreRefinement == Spec => ImplementsFifoSemaphore
<1>1. Init => IInv /\ TokenConservation
  BY InitIInv, InitTokens
<1>2. IInv /\ TokenConservation /\ [Next]_vars => (IInv /\ TokenConservation)'
  BY NextStep, StutterStep, NextTokens, StutterTokens
<1>3. IInv /\ TokenConservation /\ [Next]_vars => [GatesStep]_vars
  BY EveryStepIsGatesStep
<1>4. ASSUME Init, NEW s \in Sems
      PROVE  Gate(s)!Init
  <2>1. waiters[s] = <<>> /\ Granted(s) = {}
    BY <1>4 DEF Init, WaitInit, Granted, Objects
  <2>2. value[s] \in Nat /\ value[s] <= maxCount[s] /\ maxCount[s] \in Nat
    BY <1>1, <1>4, maxCountAssumption DEF TokenConservation, IInv, TypeOK, SemaphoreTypeOK
  <2> QED BY <2>1, <2>2 DEF Gate!Init
<1>5. Init => \A s \in Sems : Gate(s)!Init
  BY <1>4
<1> QED BY <1>1, <1>2, <1>3, <1>5, PTL DEF Spec, ImplementsFifoSemaphore

(***************************************************************************)
(* Mutexes.                                                                *)
(***************************************************************************)

\* A line is its head followed by its tail.
LEMMA LineParts ==
  ASSUME NEW S, NEW w \in Seq(S), NEW x \in S
  PROVE  /\ <<x>> \o w \in Seq(S) /\ <<x>> \o w # <<>>
         /\ Head(<<x>> \o w) = x /\ Tail(<<x>> \o w) = w
         /\ Range(<<x>> \o w) = {x} \cup Range(w)
         /\ \A y \in S : Append(<<x>> \o w, y) = <<x>> \o Append(w, y)
<1>1. <<x>> \in Seq(S) /\ Len(<<x>>) = 1 /\ <<x>>[1] = x
  OBVIOUS
<1>2. /\ <<x>> \o w \in Seq(S) /\ Len(<<x>> \o w) = Len(w) + 1 /\ Len(w) \in Nat
      /\ (<<x>> \o w)[1] = x
      /\ \A i \in 1..Len(w) : (<<x>> \o w)[i + 1] = w[i]
      /\ DOMAIN (<<x>> \o w) = 1..(Len(w) + 1) /\ DOMAIN w = 1..Len(w)
  BY <1>1
<1>3. <<x>> \o w # <<>> /\ Head(<<x>> \o w) = x
  BY <1>2
<1>4. Tail(<<x>> \o w) = w
  <2>1. Tail(<<x>> \o w) \in Seq(S) /\ Len(Tail(<<x>> \o w)) = Len(w)
    BY <1>2, <1>3
  <2>2. \A i \in 1..Len(w) : Tail(<<x>> \o w)[i] = w[i]
    BY <1>2, <1>3
  <2> QED BY <2>1, <2>2, SeqEqual
<1>5. Range(<<x>> \o w) = {x} \cup Range(w)
  <2>1. ASSUME NEW y \in Range(<<x>> \o w) PROVE y \in {x} \cup Range(w)
    <3>1. PICK i \in 1..(Len(w) + 1) : y = (<<x>> \o w)[i]
      BY <1>2, <2>1 DEF Range
    <3>2. CASE i = 1
      BY <1>2, <3>1, <3>2
    <3>3. CASE i # 1
      <4>1. i - 1 \in 1..Len(w) /\ i = (i - 1) + 1
        BY <1>2, <3>1, <3>3
      <4>2. y = w[i - 1]
        BY <1>2, <3>1, <4>1
      <4> QED BY <1>2, <4>1, <4>2 DEF Range
    <3> QED BY <3>2, <3>3
  <2>2. ASSUME NEW y \in {x} \cup Range(w) PROVE y \in Range(<<x>> \o w)
    <3>1. CASE y = x
      <4>1. 1 \in DOMAIN (<<x>> \o w) /\ (<<x>> \o w)[1] = y
        BY <1>2, <3>1
      <4> QED BY <4>1 DEF Range
    <3>2. CASE y \in Range(w)
      <4>1. PICK i \in 1..Len(w) : y = w[i]
        BY <1>2, <3>2 DEF Range
      <4>2. i + 1 \in DOMAIN (<<x>> \o w) /\ (<<x>> \o w)[i + 1] = y
        BY <1>2, <4>1
      <4> QED BY <4>2 DEF Range
    <3> QED BY <2>2, <3>1, <3>2
  <2> QED BY <2>1, <2>2
<1>6. ASSUME NEW y \in S
      PROVE  Append(<<x>> \o w, y) = <<x>> \o Append(w, y)
  <2>1. /\ Append(w, y) \in Seq(S) /\ Len(Append(w, y)) = Len(w) + 1
        /\ \A i \in 1..Len(w) : Append(w, y)[i] = w[i]
        /\ Append(w, y)[Len(w) + 1] = y
    BY <1>2
  <2>2. /\ <<x>> \o Append(w, y) \in Seq(S) /\ Len(<<x>> \o Append(w, y)) = Len(w) + 2
        /\ (<<x>> \o Append(w, y))[1] = x
        /\ \A i \in 1..(Len(w) + 1) : (<<x>> \o Append(w, y))[i + 1] = Append(w, y)[i]
    BY <1>1, <1>2, <2>1
  <2>3. /\ Append(<<x>> \o w, y) \in Seq(S) /\ Len(Append(<<x>> \o w, y)) = Len(w) + 2
        /\ \A i \in 1..(Len(w) + 1) : Append(<<x>> \o w, y)[i] = (<<x>> \o w)[i]
        /\ Append(<<x>> \o w, y)[Len(w) + 2] = y
    BY <1>2
  <2>4. ASSUME NEW i \in 1..(Len(w) + 2)
        PROVE  Append(<<x>> \o w, y)[i] = (<<x>> \o Append(w, y))[i]
    <3>1. CASE i = 1
      BY <1>2, <2>2, <2>3, <3>1
    <3>2. CASE i \in 2..(Len(w) + 1)
      <4>1. i - 1 \in 1..Len(w) /\ i = (i - 1) + 1 /\ i \in 1..(Len(w) + 1)
        BY <1>2, <3>2
      <4>2. (<<x>> \o w)[i] = w[i - 1]
        BY <1>2, <4>1
      <4>3. (<<x>> \o Append(w, y))[i] = w[i - 1]
        BY <1>2, <2>1, <2>2, <4>1
      <4> QED BY <2>3, <4>1, <4>2, <4>3
    <3>3. CASE i = Len(w) + 2
      <4>1. (<<x>> \o Append(w, y))[(Len(w) + 1) + 1] = y
        BY <1>2, <2>1, <2>2
      <4> QED BY <1>2, <2>3, <3>3, <4>1
    <3> QED BY <1>2, <3>1, <3>2, <3>3
  <2> QED BY <2>2, <2>3, <2>4, SeqEqual
<1> QED BY <1>2, <1>3, <1>4, <1>5, <1>6

\* A nonempty queue is its oldest waiter followed by the others.
LEMMA HeadAndTail ==
  ASSUME NEW S, NEW w \in Seq(S), w # <<>>
  PROVE  <<Head(w)>> \o Tail(w) = w
<1>1. /\ Len(w) \in Nat \ {0} /\ Head(w) = w[1] /\ Head(w) \in S
      /\ Tail(w) \in Seq(S) /\ Len(Tail(w)) = Len(w) - 1
      /\ \A i \in 1..(Len(w) - 1) : Tail(w)[i] = w[i + 1]
  OBVIOUS
<1>2. /\ <<Head(w)>> \in Seq(S) /\ Len(<<Head(w)>>) = 1 /\ <<Head(w)>>[1] = Head(w)
  BY <1>1
<1>3. /\ <<Head(w)>> \o Tail(w) \in Seq(S) /\ Len(<<Head(w)>> \o Tail(w)) = Len(w)
      /\ (<<Head(w)>> \o Tail(w))[1] = w[1]
      /\ \A i \in 2..Len(w) : (<<Head(w)>> \o Tail(w))[i] = Tail(w)[i - 1]
  BY <1>1, <1>2
<1>4. ASSUME NEW i \in 1..Len(w)
      PROVE  (<<Head(w)>> \o Tail(w))[i] = w[i]
  <2>1. CASE i = 1
    BY <1>3, <2>1
  <2>2. CASE i # 1
    <3>1. i \in 2..Len(w) /\ i - 1 \in 1..(Len(w) - 1) /\ (i - 1) + 1 = i
      BY <1>1, <2>2
    <3> QED BY <1>1, <1>3, <3>1
  <2> QED BY <2>1, <2>2
<1> QED BY <1>3, <1>4, SeqEqual

(***************************************************************************)
(* The steps of one mutex.                                                 *)
(***************************************************************************)

\* A step that leaves a mutex, its queue and its owners' view of it alone.
LEMMA SameLine ==
  ASSUME NEW m \in Mutexes, owner'[m] = owner[m], waiters'[m] = waiters[m],
         \A t \in Threads : m \in held'[t] <=> m \in held[t]
  PROVE  [Lock(m)!Next]_<<Line(m), Inside(m)>>
<1>1. UNCHANGED <<Line(m), Inside(m)>>
  BY DEF Line, Inside
<1> QED BY <1>1

\* Who is inside a mutex: its owner, once its Take has returned.
LEMMA InsideOwner ==
  ASSUME IInv, NEW m \in Mutexes
  PROVE  /\ \A t \in Threads : t \in Inside(m) <=> m \in held[t]
         /\ \A t \in Inside(m) : owner[m] = t
         /\ owner[m] = NULL => Inside(m) = {}
         /\ Inside(m) \subseteq Threads
BY ThreadsFacts DEF Inside, IInv, MutualExclusion

\* osMutexTake: a free mutex is entered, an owned one is queued for, and a refused
\* caller changes nothing.
LEMMA TakeIsAsk ==
  ASSUME IInv, NEW t \in Tasks, MutexTake(t), NEW m \in Mutexes
  PROVE  [Lock(m)!Next]_<<Line(m), Inside(m)>>
<1> DEFINE x == arg[t]
<1>1. /\ t \in Threads /\ t = currentPt /\ state[t] = "READY"
      /\ pc[t] = "checked" /\ x \in Mutexes /\ x \in Objects
      /\ Alive /\ running /\ osKernelCurrentThreadIdentity = t
      /\ NotWaiting(t) /\ ~Linked(t) /\ t # NULL
  BY InCallFacts, RunningContext, ThreadsFacts
  DEF MutexTake, ContextCalls, Arguments, Objects
<1>2. /\ owner \in [Mutexes -> Threads \cup {NULL}]
      /\ waiters \in [Objects -> Seq(Threads)] /\ waiters[m] \in Seq(Threads)
      /\ held \in [Threads -> SUBSET Mutexes]
      /\ m \in Objects
  BY DEF IInv, TypeOK, WaitTypeOK, Objects
<1>3. osMutexTake(x, errs[t])
  BY DEF MutexTake
<1>4. CASE MutexRefusal(x, errs[t]) # {}
  <2>1. UNCHANGED <<owner, waiters, held>>
    BY <1>3, <1>4 DEF MutexTake, osMutexTake, mutexVars, waitVars
  <2> QED BY <2>1, SameLine
<1>5. CASE ~(MutexRefusal(x, errs[t]) # {}) /\ owner[x] # NULL
  <2>1. owner[x] \in Threads \ {t}
    BY <1>1, <1>2, <1>5 DEF MutexRefusal
  <2>2. CanPush(x, t)
    BY <1>1, CanAlwaysPush
  <2>3. Enqueue(x) /\ UNCHANGED owner
    BY <1>1, <1>3, <1>5, <2>1, <2>2, RunningContext
    DEF osMutexTake, osKernelBlockCurrentOnMutex, MutexTake, InCall
  <2>4. UNCHANGED held
    BY <1>5 DEF MutexTake
  <2>5. CASE m # x
    <3>1. waiters'[m] = waiters[m]
      BY <1>2, <2>3, <2>5 DEF Enqueue
    <3> QED BY <2>3, <2>4, <3>1, SameLine
  <2>6. CASE m = x
    <3> DEFINE o == owner[m]
    <3>1. waiters'[m] = Append(waiters[m], t) /\ owner'[m] = o
      BY <1>1, <1>2, <2>3, <2>6 DEF Enqueue
    <3>2. o \in Threads /\ o # t /\ o # NULL
      BY <1>5, <2>1, <2>6
    <3> HIDE DEF o
    <3>3. t \notin Range(waiters[m])
      BY <1>1, <1>2 DEF Linked
    <3>4. Line(m) = <<o>> \o waiters[m] /\ Line(m)' = <<o>> \o Append(waiters[m], t)
      BY <3>1, <3>2 DEF Line, o
    <3>5. /\ t \notin Range(Line(m)) /\ Line(m) # <<>>
          /\ Line(m)' = Append(Line(m), t)
      <4>1. waiters[m] \in Seq(Threads) /\ o \in Threads /\ t \in Threads
        BY <1>1, <1>2, <3>2
      <4>2. /\ <<o>> \o waiters[m] # <<>>
            /\ Range(<<o>> \o waiters[m]) = {o} \cup Range(waiters[m])
            /\ Append(<<o>> \o waiters[m], t) = <<o>> \o Append(waiters[m], t)
        BY ONLY <4>1, LineParts
      <4> QED BY <3>2, <3>3, <3>4, <4>2
    <3>6. UNCHANGED Inside(m)
      BY <2>4 DEF Inside
    <3>7. Lock(m)!Ask(t)
      BY <3>5, <3>6 DEF Lock!Ask, Lock!Range, Range
    <3> QED BY <3>7 DEF Lock!Next
  <2> QED BY <2>5, <2>6
<1>6. CASE ~(MutexRefusal(x, errs[t]) # {}) /\ owner[x] = NULL
  <2>1. waiters[x] = <<>>
    BY <1>1, <1>6 DEF IInv, NoLostWakeup
  <2>2. owner' = [owner EXCEPT ![x] = t] /\ UNCHANGED <<waiters, portVars>>
    BY <1>1, <1>3, <1>6, <2>1 DEF osMutexTake
  <2>3. held' = [held EXCEPT ![t] = @ \cup {x}]
    BY <1>1, <1>6, <2>2 DEF MutexTake, portVars, Alive
  <2> HIDE DEF x
  <2>4. CASE m # x
    <3>1. owner'[m] = owner[m] /\ \A u \in Threads : m \in held'[u] <=> m \in held[u]
      BY <1>1, <1>2, <2>2, <2>3, <2>4
    <3> QED BY <2>2, <3>1, SameLine
  <2>5. CASE m = x
    <3>1. owner'[m] = t /\ waiters'[m] = <<>>
      BY <1>1, <1>2, <2>1, <2>2, <2>5
    <3>2. Line(m) = <<>> /\ Line(m)' = <<t>>
      <4>1. <<t>> \o <<>> = <<t>>
        OBVIOUS
      <4> QED BY <1>1, <1>6, <2>5, <3>1, <4>1 DEF Line
    <3>3. Inside(m) = {}
      BY <1>6, <2>5, InsideOwner
    <3>4. Inside(m)' = {t}
      BY <1>1, <1>2, <2>3, <2>5, <3>3 DEF Inside
    <3>5. Lock(m)!AskAndEnter(t)
      BY <3>2, <3>4 DEF Lock!AskAndEnter
    <3> QED BY <3>5 DEF Lock!Next
  <2> QED BY <2>4, <2>5
<1> QED BY <1>4, <1>5, <1>6

\* A blocked osMutexTake that returns: the head of the line enters.
LEMMA ReturnIsEnter ==
  ASSUME IInv, NEW t \in Tasks, Return(t), NEW m \in Mutexes
  PROVE  [Lock(m)!Next]_<<Line(m), Inside(m)>>
<1>1. /\ t \in Threads /\ state[t] = "READY" /\ pc[t] = "resume"
      /\ UNCHANGED <<owner, waiters>>
  BY RunningContext DEF Return, waitVars
<1>2. /\ held \in [Threads -> SUBSET Mutexes] /\ waiters[m] \in Seq(Threads)
  BY DEF IInv, TypeOK, WaitTypeOK, Objects
<1>3. held' = [held EXCEPT ![t] = IF call[t] = "MUTEX_TAKE" THEN @ \cup {arg[t]} ELSE @]
  BY DEF Return
<1>4. CASE call[t] # "MUTEX_TAKE" \/ arg[t] # m
  <2>1. \A u \in Threads : m \in held'[u] <=> m \in held[u]
    BY <1>1, <1>2, <1>3, <1>4
  <2> QED BY <1>1, <2>1, SameLine
<1>5. CASE call[t] = "MUTEX_TAKE" /\ arg[t] = m
  <2>1. owner[m] = t /\ m \notin held[t]
    BY <1>1, <1>5 DEF IInv, CallMatchesTcb
  <2>2. Inside(m) = {}
    BY <1>1, <2>1, InsideOwner
  <2>3. Inside(m)' = {t}
    BY <1>1, <1>2, <1>3, <1>5, <2>2 DEF Inside
  <2>4. Line(m) = <<t>> \o waiters[m] /\ Line(m)' = Line(m)
    BY <1>1, <2>1, ThreadsFacts DEF Line
  <2>5. Line(m) # <<>> /\ t = Head(Line(m))
    BY <1>1, <1>2, <2>4, LineParts
  <2>6. Lock(m)!Enter(t)
    BY <2>2, <2>3, <2>4, <2>5 DEF Lock!Enter
  <2> QED BY <2>6 DEF Lock!Next
<1> QED BY <1>4, <1>5

\* osMutexGive by the owner: the line advances in the same critical section, and
\* by anybody else nothing happens.
LEMMA GiveIsLeave ==
  ASSUME IInv, NEW t \in Tasks, MutexGive(t), NEW m \in Mutexes
  PROVE  [Lock(m)!Next]_<<Line(m), Inside(m)>>
<1> DEFINE x == arg[t]
<1>1. /\ t \in Threads /\ t = currentPt /\ state[t] = "READY"
      /\ pc[t] = "checked" /\ x \in Mutexes /\ x \in Objects
      /\ Alive /\ osKernelHasRunnableCaller /\ osKernelCurrentThreadIdentity = t
  BY InCallFacts, RunningContext DEF MutexGive, ContextCalls, Arguments, Objects
<1>2. /\ owner \in [Mutexes -> Threads \cup {NULL}]
      /\ waiters \in [Objects -> Seq(Threads)] /\ waiters[m] \in Seq(Threads)
      /\ held \in [Threads -> SUBSET Mutexes]
      /\ m \in Objects
  BY DEF IInv, TypeOK, WaitTypeOK, Objects
<1>3. osMutexGive(x)
  BY DEF MutexGive
<1>4. CASE owner[x] # t
  <2>1. UNCHANGED <<owner, waiters, fault>>
    BY <1>1, <1>3, <1>4 DEF osMutexGive, mutexVars, waitVars, portVars
  <2>2. held' = [held EXCEPT ![t] = @ \ {x}]
    BY <1>1, <2>1 DEF MutexGive, Alive
  <2>3. x \notin held[t]
    BY <1>1, <1>4 DEF IInv, MutualExclusion
  <2> HIDE DEF x
  <2>4. \A u \in Threads : m \in held'[u] <=> m \in held[u]
    BY <1>1, <1>2, <2>2, <2>3
  <2> QED BY <2>1, <2>4, SameLine
<1>5. CASE owner[x] = t
  <2> DEFINE h == Head(waiters[x])
  <2>1. osKernelReleaseMutex(x)
    BY <1>1, <1>3, <1>5 DEF osMutexGive
  <2>2. waiters[x] # <<>> =>
          h \in Threads /\ h # t /\ state[h] = "BLOCKED" /\ waitMutex[h] = x /\ waitSem[h] = NULL
    BY <1>1, OldestWaiter, ObjectsAssumption
  <2>3. /\ fault' = fault
        /\ owner' = [owner EXCEPT ![x] = IF waiters[x] = <<>> THEN NULL ELSE h]
        /\ waiters' = IF waiters[x] = <<>> THEN waiters
                                           ELSE [waiters EXCEPT ![x] = Tail(@)]
    BY <1>1, <1>5, <2>1, <2>2 DEF osKernelReleaseMutex, Dequeue, portVars
  <2>4. held' = [held EXCEPT ![t] = @ \ {x}]
    BY <1>1, <2>3 DEF MutexGive, Alive
  <2>5. x \in held[t]
    BY <1>1, <1>5 DEF IInv, MutualExclusion
  <2>6. CASE m # x
    <3> HIDE DEF x
    <3>1. /\ owner'[m] = owner[m] /\ waiters'[m] = waiters[m]
          /\ \A u \in Threads : m \in held'[u] <=> m \in held[u]
      BY <1>1, <1>2, <2>3, <2>4, <2>6
    <3> QED BY <3>1, SameLine
  <2>7. CASE m = x
    <3> DEFINE w == waiters[m]
    <3>1. Inside(m) = {t}
      BY <1>1, <1>5, <2>5, <2>7, InsideOwner
    <3>2. Inside(m)' = {}
      BY <1>1, <1>2, <2>4, <2>7, <3>1 DEF Inside
    <3>3. Line(m) = <<t>> \o w
      BY <1>1, <1>5, <2>7, ThreadsFacts DEF Line
    <3>4. Tail(Line(m)) = w
      <4>1. waiters[m] \in Seq(Threads) /\ t \in Threads
        BY <1>1, <1>2
      <4>2. Tail(<<t>> \o waiters[m]) = waiters[m]
        BY ONLY <4>1, LineParts
      <4> QED BY <3>3, <4>2
    <3>5. Line(m)' = w
      <4>1. CASE w = <<>>
        <5>1. owner'[m] = NULL
          BY <1>2, <2>3, <2>7, <4>1
        <5> QED BY <4>1, <5>1 DEF Line
      <4>2. CASE w # <<>>
        <5>1. owner'[m] = Head(w) /\ waiters'[m] = Tail(w) /\ Head(w) # NULL
          BY <1>2, <2>2, <2>3, <2>7, <4>2, ThreadsFacts
        <5>2. <<Head(w)>> \o Tail(w) = w
          BY <1>2, <4>2, HeadAndTail
        <5> QED BY <5>1, <5>2 DEF Line
      <4> QED BY <4>1, <4>2
    <3>6. Lock(m)!Leave(t)
      BY <3>1, <3>2, <3>4, <3>5 DEF Lock!Leave
    <3> QED BY <3>6 DEF Lock!Next
  <2> QED BY <2>6, <2>7
<1> QED BY <1>4, <1>5

\* A semaphore's Take and Give leave every mutex and its queue alone.
LEMMA SemaphoreKeepsLocks ==
  ASSUME IInv, NEW s \in Sems, NEW e, giveSignal(s) \/ takeSignal(s, e), UNCHANGED held,
         NEW m \in Mutexes
  PROVE  [Lock(m)!Next]_<<Line(m), Inside(m)>>
<1>1. waiters \in [Objects -> Seq(Threads)] /\ s \in Objects /\ m \in Objects /\ m # s
  BY ObjectsAssumption DEF IInv, TypeOK, WaitTypeOK, Objects
<1>2. /\ UNCHANGED owner
      /\ \/ UNCHANGED waiters
         \/ \E q \in {Append(waiters[s], currentPt), Tail(waiters[s])} :
              waiters' = [waiters EXCEPT ![s] = q]
  BY DEF giveSignal, takeSignal, osKernelUnblockOneOnSemaphore,
         osKernelBlockCurrentOnSemaphore, Enqueue, Dequeue, waitFault, waitVars
<1>3. waiters'[m] = waiters[m]
  BY <1>1, <1>2
<1> QED BY <1>2, <1>3, SameLine

\* Seen from one mutex, every step of the kernel is a step of the FIFO lock.
LEMMA EveryStepIsLockStep ==
  ASSUME IInv, [Next]_vars, NEW m \in Mutexes
  PROVE  [Lock(m)!Next]_<<Line(m), Inside(m)>>
<1>1. ASSUME UNCHANGED <<waitVars, held>>
      PROVE  [Lock(m)!Next]_<<Line(m), Inside(m)>>
  BY <1>1, SameLine DEF waitVars
<1>2. ASSUME NEW t \in Tasks, TaskStep(t)
      PROVE  [Lock(m)!Next]_<<Line(m), Inside(m)>>
  <2>1. CASE MutexTake(t)
    BY <2>1, TakeIsAsk
  <2>2. CASE MutexGive(t)
    BY <2>2, GiveIsLeave
  <2>3. CASE Return(t)
    BY <2>3, ReturnIsEnter
  <2>4. CASE Take(t)
    <3>1. arg[t] \in Sems
      BY <2>4, InCallFacts DEF Take, ContextCalls, Arguments
    <3>2. takeSignal(arg[t], errs[t]) /\ UNCHANGED held
      BY <2>4 DEF Take
    <3> QED BY <3>1, <3>2, SemaphoreKeepsLocks
  <2>5. CASE \E s \in Sems : TaskGive(t, s)
    BY <2>5, SemaphoreKeepsLocks DEF TaskGive, Give
  <2>6. CASE \/ \E c \in ContextCalls : \E a \in Arguments(c) : CheckContext(t, c, a)
             \/ BlockingFault(t) \/ osDelay(t) \/ TaskYield(t) \/ osThreadExit(t)
             \/ \E r \in MaskRegisters : SetMask(t, r) \/ ClearMask(t, r)
    <3>1. UNCHANGED <<waitVars, held>>
      BY <2>6 DEF CheckContext, BlockingFault, osDelay, TaskYield, osThreadExit, SetMask,
             ClearMask, historyVars
    <3> QED BY <1>1, <3>1
  <2> QED BY <1>2, <2>1, <2>2, <2>3, <2>4, <2>5, <2>6 DEF TaskStep
<1>3. ASSUME NEW s \in Sems, HandlerGive(s) \/ MainGive(s)
      PROVE  [Lock(m)!Next]_<<Line(m), Inside(m)>>
  BY <1>3, SemaphoreKeepsLocks DEF HandlerGive, MainGive, Give
<1>4. CASE \/ IdleYield \/ Switch \/ Quantum \/ TIM2_IRQHandler \/ Launch
           \/ \E c \in ContextCalls : \E a \in Arguments(c) :
                HandlerContextCall(c, a) \/ MainContextCall(c, a)
  <2>1. UNCHANGED <<waitVars, held>>
    BY <1>4 DEF IdleYield, Switch, Quantum, TIM2_IRQHandler, Launch, HandlerContextCall,
           MainContextCall, historyVars
  <2> QED BY <1>1, <2>1
<1>5. CASE UNCHANGED vars
  BY <1>1, <1>5 DEF vars, historyVars
<1> QED BY <1>2, <1>3, <1>4, <1>5 DEF Next, Interrupt, Main, Stopped

\* osMutex.c and osKernelReleaseMutex implement the FIFO lock: its initial states
\* map to initial states, and its steps to steps or stutters, for every mutex.
THEOREM FifoRefinement == Spec => ImplementsFifoLock
<1>1. Init => \A m \in Mutexes : Lock(m)!Init
  <2>1. ASSUME Init, NEW m \in Mutexes
        PROVE  Line(m) = <<>> /\ Inside(m) = {}
    BY <2>1 DEF Init, WaitInit, Line, Inside
  <2> QED BY <2>1 DEF Lock!Init
<1>2. IInv /\ [Next]_vars => [LocksStep]_vars
  BY EveryStepIsLockStep DEF LocksStep
<1> QED BY <1>1, <1>2, Invariance, PTL DEF Spec, ImplementsFifoLock

(***************************************************************************)
(* The queues of all objects together: each wait transition of             *)
(* osKernelWait.c is one granted call of a WaitLine.                       *)
(***************************************************************************)

\* A task that blocks joins the line of its object; one that is refused joins none.
LEMMA BlockJoins ==
  ASSUME NEW o \in Objects,
         osKernelBlockCurrentOnSemaphore(o) \/ osKernelBlockCurrentOnMutex(o)
  PROVE  WaitTransition
<1>1. CASE waitFault("WAIT_ENQUEUE")
  BY <1>1 DEF waitFault, WaitTransition
<1>2. CASE CanPush(o, currentPt) /\ Enqueue(o)
  <2>1. ~Queues!Standing(currentPt)
    BY <1>2 DEF CanPush, Linked, Queues!Standing, Queues!Range, Range
  <2> QED BY <1>2, <2>1 DEF CanPush, Enqueue, WaitTransition, Queues!Joins
<1> QED BY <1>1, <1>2 DEF osKernelBlockCurrentOnSemaphore, osKernelBlockCurrentOnMutex

\* The oldest waiter is served, by a Give or by a release.
LEMMA WakeServes ==
  ASSUME NEW o \in Objects,
         (waiters[o] # <<>> /\ osKernelUnblockOneOnSemaphore(o)) \/ osKernelReleaseMutex(o)
  PROVE  WaitTransition
<1>1. CASE waiters[o] # <<>> /\ Dequeue(o)
  BY <1>1 DEF Dequeue, WaitTransition, Queues!Served
<1>2. CASE UNCHANGED waiters
  BY <1>2 DEF WaitTransition
<1> QED BY <1>1, <1>2 DEF osKernelUnblockOneOnSemaphore, osKernelReleaseMutex, waitFault

\* The steps of tasks, handlers and main that reach a queue, and the others.
LEMMA EveryStepIsWaitTransition ==
  ASSUME IInv, [Next]_vars
  PROVE  WaitTransition
<1>1. ASSUME UNCHANGED waiters
      PROVE  WaitTransition
  BY <1>1 DEF WaitTransition
<1>2. ASSUME NEW s \in Sems, giveSignal(s)
      PROVE  WaitTransition
  BY <1>1, <1>2, WakeServes DEF giveSignal, Objects, waitVars
<1>3. ASSUME NEW t \in Tasks, TaskStep(t)
      PROVE  WaitTransition
  <2>1. CASE Take(t)
    <3>1. arg[t] \in Sems
      BY <2>1, InCallFacts DEF Take, ContextCalls, Arguments
    <3>2. UNCHANGED waiters \/ osKernelBlockCurrentOnSemaphore(arg[t])
      BY <2>1 DEF Take, takeSignal, waitVars
    <3> QED BY <1>1, <3>1, <3>2, BlockJoins DEF Objects
  <2>2. CASE MutexTake(t)
    <3>1. arg[t] \in Mutexes
      BY <2>2, InCallFacts DEF MutexTake, ContextCalls, Arguments
    <3>2. UNCHANGED waiters \/ osKernelBlockCurrentOnMutex(arg[t])
      BY <2>2 DEF MutexTake, osMutexTake, mutexVars, waitVars
    <3> QED BY <1>1, <3>1, <3>2, BlockJoins DEF Objects
  <2>3. CASE MutexGive(t)
    <3>1. arg[t] \in Mutexes
      BY <2>3, InCallFacts DEF MutexGive, ContextCalls, Arguments
    <3>2. UNCHANGED waiters \/ osKernelReleaseMutex(arg[t])
      BY <2>3 DEF MutexGive, osMutexGive, mutexVars, waitVars
    <3> QED BY <1>1, <3>1, <3>2, WakeServes DEF Objects
  <2>4. CASE \E s \in Sems : TaskGive(t, s)
    BY <1>2, <2>4 DEF TaskGive, Give
  <2>5. CASE \/ \E c \in ContextCalls : \E a \in Arguments(c) : CheckContext(t, c, a)
             \/ BlockingFault(t) \/ osDelay(t) \/ Return(t) \/ TaskYield(t)
             \/ osThreadExit(t)
             \/ \E r \in MaskRegisters : SetMask(t, r) \/ ClearMask(t, r)
    <3>1. UNCHANGED waitVars
      BY <2>5 DEF CheckContext, BlockingFault, osDelay, Return, TaskYield, osThreadExit,
             SetMask, ClearMask
    <3> QED BY <1>1, <3>1 DEF waitVars
  <2> QED BY <1>3, <2>1, <2>2, <2>3, <2>4, <2>5 DEF TaskStep
<1>4. ASSUME NEW s \in Sems, HandlerGive(s) \/ MainGive(s)
      PROVE  WaitTransition
  BY <1>2, <1>4 DEF HandlerGive, MainGive, Give
<1>5. CASE \/ IdleYield \/ Switch \/ Quantum \/ TIM2_IRQHandler \/ Launch
           \/ \E c \in ContextCalls : \E a \in Arguments(c) :
                HandlerContextCall(c, a) \/ MainContextCall(c, a)
  <2>1. UNCHANGED waitVars
    BY <1>5 DEF IdleYield, Switch, Quantum, TIM2_IRQHandler, Launch, HandlerContextCall,
           MainContextCall
  <2> QED BY <1>1, <2>1 DEF waitVars
<1>6. CASE UNCHANGED vars
  BY <1>1, <1>6 DEF vars, waitVars
<1> QED BY <1>3, <1>4, <1>5, <1>6 DEF Next, Interrupt, Main, Stopped

\* osKernelWait.c relies of osWaitQueue.c on exactly what WaitLineRefinement shows it to
\* give: every wait transition is a join or a service that the queue grants.
THEOREM WaitLineUse == Spec => UsesWaitLines
<1>1. IInv /\ [Next]_vars => [WaitTransition]_vars
  BY EveryStepIsWaitTransition
<1> QED BY <1>1, Invariance, PTL DEF Spec, UsesWaitLines

(***************************************************************************)
(* A refused call leaves the state of the kernel and its objects as it     *)
(* found it, both when the caller leaves the critical section and when it  *)
(* enters osPortBlockingFault.                                             *)
(***************************************************************************)

\* The wait operations check everything before they change anything.
LEMMA FailedWaitKeepsState ==
  ASSUME NEW operation, waitFault(operation), NEW transition \in BOOLEAN, TypeOK,
         osKernelRequestContextSwitch(transition)
  PROVE  UNCHANGED <<waitVars, state, pendSV>>
<1>1. fault' # NoFault
  BY DEF waitFault, osPortBlockingFault, NoFault
<1>2. pendSV' = (pendSV \/ FALSE) /\ pendSV \in BOOLEAN
  BY <1>1 DEF osKernelRequestContextSwitch, TypeOK, KernelTypeOK
<1> QED BY <1>2 DEF waitFault, waitVars

\* giveSignal stops the kernel before it makes anybody READY.
LEMMA GiveRefusal ==
  ASSUME TypeOK, NEW s \in Sems, giveSignal(s), Alive, ~Alive'
  PROVE  UNCHANGED <<waitVars, state, pendSV, value>>
<1>1. waiters[s] # <<>> /\ ~Dequeue(s)
  BY DEF giveSignal, Dequeue, portVars, Alive
<1>2. waitFault("WAIT_DEQUEUE") /\ osKernelRequestContextSwitch(TRUE) /\ UNCHANGED value
  BY <1>1 DEF giveSignal, osKernelUnblockOneOnSemaphore
<1> QED BY <1>2, FailedWaitKeepsState

\* A Take that is refused, or that the kernel stops, has not touched its semaphore.
LEMMA TakeRefusalKeepsState ==
  ASSUME TypeOK, NEW t \in Tasks, Take(t), Refusing
  PROVE  UNCHANGED <<kernelVars, waitVars, value>>
<1> DEFINE s == arg[t]
<1>1. t \in Threads /\ pc \in [Threads -> Places] /\ Alive /\ pc[t] = "checked"
  BY DEF Tasks, TypeOK, Take, InCall, Executes
<1>2. takeSignal(s, errs[t]) /\ UNCHANGED <<running, currentPt, wakeAt, osTimeMs>>
  BY DEF Take
<1>3. CASE value[s] > 0
  <2>1. Returns(t) /\ UNCHANGED portVars
    BY <1>2, <1>3 DEF Take, takeSignal
  <2>2. ~Refusing
    BY <1>1, <2>1 DEF Refusing, Returns, Alive, portVars
  <2> QED BY <2>2
<1>4. CASE ~(value[s] > 0) /\ TakeRefusal(s, errs[t]) # {}
  BY <1>2, <1>4 DEF takeSignal, kernelVars
<1>5. CASE ~(value[s] > 0) /\ ~(TakeRefusal(s, errs[t]) # {})
  <2>1. /\ osKernelBlockCurrentOnSemaphore(s) /\ osKernelRequestContextSwitch(TRUE)
        /\ UNCHANGED value /\ Suspends(t)
    BY <1>2, <1>5, Zenon DEF Take, takeSignal
  <2>2. ~Enqueue(s)
    BY <1>1, <2>1 DEF Enqueue, portVars, Refusing, Suspends, Alive
  <2>3. waitFault("WAIT_ENQUEUE")
    BY <2>1, <2>2 DEF osKernelBlockCurrentOnSemaphore
  <2> QED BY <1>2, <2>1, <2>3, FailedWaitKeepsState DEF kernelVars
<1> QED BY <1>3, <1>4, <1>5

\* The same for a mutex: osMutexTake and osMutexGive.
LEMMA MutexRefusalKeepsState ==
  ASSUME TypeOK, NEW t \in Tasks, MutexTake(t) \/ MutexGive(t), Refusing
  PROVE  UNCHANGED <<kernelVars, waitVars, value>>
<1> DEFINE m == arg[t]
<1>1. t \in Threads /\ pc \in [Threads -> Places] /\ Alive /\ pc[t] = "checked"
  BY DEF Tasks, TypeOK, MutexTake, MutexGive, InCall, Executes
<1>2. UNCHANGED <<running, currentPt, wakeAt, osTimeMs, value>>
  BY DEF MutexTake, MutexGive
<1>3. CASE MutexTake(t) /\ MutexRefusal(m, errs[t]) # {}
  BY <1>2, <1>3 DEF MutexTake, osMutexTake, mutexVars, kernelVars
<1>4. CASE ~(MutexTake(t) /\ MutexRefusal(m, errs[t]) # {})
  <2>1. Returns(t) \/ Suspends(t) \/ UNCHANGED taskVars
    BY <1>4 DEF MutexTake, MutexGive
  <2>2. ~Alive'
    BY <1>1, <2>1 DEF Refusing, Returns, Suspends, taskVars
  <2>3. ~UNCHANGED portVars
    BY <1>1, <2>2 DEF Alive, portVars
  <2>4. CASE MutexTake(t)
    <3>1. osMutexTake(m, errs[t])
      BY <2>4 DEF MutexTake
    <3>2. CASE owner[m] = NULL
      BY <1>2, <1>4, <2>3, <2>4, <3>1, <3>2 DEF osMutexTake, mutexVars, kernelVars
    <3>3. CASE owner[m] # NULL
      <4>1. osKernelBlockCurrentOnMutex(m) /\ osKernelRequestContextSwitch(TRUE)
        BY <1>4, <2>4, <3>1, <3>3 DEF osMutexTake
      <4>2. waitFault("WAIT_ENQUEUE")
        BY <2>3, <4>1 DEF osKernelBlockCurrentOnMutex, Enqueue
      <4> QED BY <1>2, <4>1, <4>2, FailedWaitKeepsState DEF kernelVars
    <3> QED BY <3>2, <3>3
  <2>5. CASE MutexGive(t)
    <3>1. osKernelReleaseMutex(m) /\ osKernelRequestContextSwitch(waiters[m] # <<>>)
      BY <2>3, <2>5 DEF MutexGive, osMutexGive
    <3>2. waitFault("WAIT_DEQUEUE")
      BY <2>3, <3>1 DEF osKernelReleaseMutex, Dequeue
    <3>3. (waiters[m] # <<>>) \in BOOLEAN
      OBVIOUS
    <3> QED BY <1>2, <3>1, <3>2, <3>3, FailedWaitKeepsState DEF kernelVars
  <2> QED BY <2>4, <2>5
<1> QED BY <1>3, <1>4

\* Every step that stops the kernel or refuses a caller changes neither the kernel
\* nor any object.
LEMMA RefusingStep ==
  ASSUME TypeOK, [Next]_vars, Refusing
  PROVE  UNCHANGED <<kernelVars, waitVars, value>>
<1>0. pc \in [Threads -> Places] /\ Idle \in Threads /\ Tasks \subseteq Threads
  BY ThreadsFacts DEF TypeOK, Tasks
<1>1. ASSUME NEW t \in Tasks, TaskStep(t)
      PROVE  UNCHANGED <<kernelVars, waitVars, value>>
  <2>1. CASE \E c \in ContextCalls : \E a \in Arguments(c) : CheckContext(t, c, a)
    BY <2>1 DEF CheckContext
  <2>2. CASE BlockingFault(t)
    BY <2>2 DEF BlockingFault
  <2>3. CASE Take(t)
    BY <2>3, TakeRefusalKeepsState
  <2>4. CASE MutexTake(t) \/ MutexGive(t)
    BY <2>4, MutexRefusalKeepsState
  <2>5. CASE \E s \in Sems : TaskGive(t, s)
    BY <2>5, GiveRefusal DEF TaskGive, Give, taskVars, Refusing, Executes, kernelVars
  <2>6. CASE osDelay(t)
    BY <1>0, <2>6 DEF osDelay, Sleep, Suspends, Refusing, portVars, Alive
  <2>7. CASE \/ Return(t) \/ TaskYield(t) \/ osThreadExit(t)
             \/ \E r \in MaskRegisters : SetMask(t, r) \/ ClearMask(t, r)
    BY <1>0, <2>7 DEF Return, Returns, TaskYield, osThreadExit, SetMask, ClearMask,
           Refusing, portVars, taskVars, Alive
  <2> QED BY <1>1, <2>1, <2>2, <2>3, <2>4, <2>5, <2>6, <2>7 DEF TaskStep
<1>2. CASE IdleYield \/ Switch \/ Quantum \/ TIM2_IRQHandler \/ Launch
  BY <1>0, <1>2 DEF IdleYield, Switch, PendSV_Handler, Quantum, SysTick_Handler,
         TIM2_IRQHandler, osKernelTick, Launch, osKernelLaunch, WakesIdle, Refusing,
         portVars, taskVars, Alive
<1>3. ASSUME NEW s \in Sems, HandlerGive(s) \/ MainGive(s)
      PROVE  UNCHANGED <<kernelVars, waitVars, value>>
  <2>1. /\ giveSignal(s) /\ Alive
        /\ UNCHANGED <<running, currentPt, wakeAt, osTimeMs>>
        /\ WakesIdle \/ UNCHANGED taskVars
    BY <1>3 DEF HandlerGive, MainGive, Give
  <2>2. ~Alive'
    BY <1>0, <2>1 DEF WakesIdle, taskVars, Refusing
  <2> QED BY <2>1, <2>2, GiveRefusal DEF kernelVars
<1>4. CASE \E c \in ContextCalls : \E a \in Arguments(c) :
             HandlerContextCall(c, a) \/ MainContextCall(c, a)
  BY <1>4 DEF HandlerContextCall, MainContextCall
<1>5. CASE UNCHANGED vars
  BY <1>5 DEF vars
<1> QED BY <1>1, <1>2, <1>3, <1>4, <1>5 DEF Next, Interrupt, Main, Stopped

\* takeSignal, osMutexTake and the wait operations: a refused call leaves no
\* half-made transition behind.
THEOREM RefusalSafety == Spec => FaultChangesNothing
<1>1. TypeOK /\ [Next]_vars => [RefusalLeavesState]_vars
  BY RefusingStep DEF RefusalLeavesState
<1> QED BY <1>1, TypeCorrectness, PTL DEF Spec, FaultChangesNothing

(***************************************************************************)
(* Applications that keep to the contract: their handlers give semaphores  *)
(* at most, and their tasks set no masks of their own.  What is left of    *)
(* FaultOnlyOnMisuse then is a wait before the launch and a recursive Take. *)
(***************************************************************************)
Disciplined == HandlerCalls \subseteq {"GIVE"} /\ AppMasks = {}

\* The kernel's own checks report a damaged queue and nothing else.
LEMMA OwnChecks ==
  ASSUME "ISR" \notin fault.errors,
         \/ \E s \in Sems : giveSignal(s)
         \/ \E t \in Tasks : osDelay(t) \/ Take(t) \/ MutexTake(t) \/ MutexGive(t)
  PROVE  "ISR" \notin fault'.errors
<1>1. ASSUME NEW o, waitFault(o)
      PROVE  "ISR" \notin fault'.errors
  BY <1>1 DEF waitFault, osPortBlockingFault
<1>2. ASSUME NEW s \in Sems, giveSignal(s)
      PROVE  "ISR" \notin fault'.errors
  BY <1>1, <1>2 DEF giveSignal, osKernelUnblockOneOnSemaphore, Dequeue, portVars
<1>3. ASSUME NEW t \in Tasks, osDelay(t)
      PROVE  "ISR" \notin fault'.errors
  BY <1>3 DEF osDelay, Sleep, portVars
<1>4. ASSUME NEW t \in Tasks, Take(t)
      PROVE  "ISR" \notin fault'.errors
  BY <1>1, <1>4 DEF Take, takeSignal, osKernelBlockCurrentOnSemaphore, Enqueue, portVars
<1>5. ASSUME NEW t \in Tasks, MutexTake(t)
      PROVE  "ISR" \notin fault'.errors
  <2> DEFINE m == arg[t]
  <2>1. \/ UNCHANGED portVars
        \/ osKernelBlockCurrentOnMutex(m)
        \/ osPortBlockingFault({"WAIT_QUEUE"}, "MUTEX_TAKE")
    BY <1>5 DEF MutexTake, osMutexTake, portVars
  <2>2. CASE osKernelBlockCurrentOnMutex(m)
    BY <1>1, <2>2 DEF osKernelBlockCurrentOnMutex, Enqueue, portVars
  <2> QED BY <2>1, <2>2 DEF portVars, osPortBlockingFault
<1>6. ASSUME NEW t \in Tasks, MutexGive(t)
      PROVE  "ISR" \notin fault'.errors
  BY <1>1, <1>6 DEF MutexGive, osMutexGive, osKernelReleaseMutex, Dequeue, portVars
<1> QED BY <1>2, <1>3, <1>4, <1>5, <1>6

\* A task-only call from a handler is the one way to a fault in handler context.
LEMMA NoHandlerFault ==
  ASSUME Disciplined, IInv, [Next]_vars, "ISR" \notin fault.errors
  PROVE  "ISR" \notin fault'.errors
<1>1. ASSUME NEW t \in Tasks, BlockingFault(t)
      PROVE  "ISR" \notin fault'.errors
  <2>1. fault'.errors = errs[t] /\ pc[t] = "refused" /\ t \in Threads
    BY <1>1 DEF BlockingFault, osPortBlockingFault, Tasks
  <2>2. Misused(t)
    BY <2>1 DEF IInv, CallMatchesTcb
  <2> QED BY <2>1, <2>2 DEF Misused, Disciplined
<1>2. ASSUME NEW t \in Tasks, TaskStep(t)
      PROVE  "ISR" \notin fault'.errors
  <2>1. CASE \/ \E c \in ContextCalls : \E a \in Arguments(c) : CheckContext(t, c, a)
             \/ Return(t) \/ TaskYield(t) \/ osThreadExit(t)
             \/ \E r \in MaskRegisters : SetMask(t, r) \/ ClearMask(t, r)
    BY <2>1 DEF CheckContext, Return, TaskYield, osThreadExit, SetMask, ClearMask, portVars
  <2>2. CASE osDelay(t) \/ Take(t) \/ MutexTake(t) \/ MutexGive(t)
    BY <2>2, OwnChecks
  <2>3. CASE \E s \in Sems : TaskGive(t, s)
    BY <2>3, OwnChecks DEF TaskGive, Give
  <2> QED BY <1>1, <1>2, <2>1, <2>2, <2>3 DEF TaskStep
<1>3. CASE IdleYield \/ Switch \/ Quantum \/ TIM2_IRQHandler \/ Launch
  BY <1>3 DEF IdleYield, Switch, PendSV_Handler, Quantum, SysTick_Handler,
         TIM2_IRQHandler, osKernelTick, Launch, osKernelLaunch, portVars
<1>4. CASE \E s \in Sems : HandlerGive(s) \/ MainGive(s)
  BY <1>4, OwnChecks DEF HandlerGive, MainGive, Give
<1>5. ASSUME NEW c \in ContextCalls, NEW a \in Arguments(c), MainContextCall(c, a)
      PROVE  "ISR" \notin fault'.errors
  <2>1. masks \subseteq MaskRegisters
    BY DEF IInv, TypeOK, PortTypeOK
  <2> QED BY <1>5, <2>1 DEF MainContextCall, osPortBlockingFault, osBlockingContextErrors,
         MaskRegisters
<1>6. ASSUME NEW c \in ContextCalls, NEW a \in Arguments(c), HandlerContextCall(c, a)
      PROVE  FALSE
  BY <1>6 DEF HandlerContextCall, ContextCalls, Disciplined
<1>7. CASE UNCHANGED vars
  BY <1>7 DEF vars, portVars
<1> QED BY <1>2, <1>3, <1>4, <1>5, <1>6, <1>7 DEF Next, Interrupt, Main, Stopped

\* osPortBlockingFault: an application that keeps to the contract of its calls is
\* halted, once it was launched, by nothing but its own recursive osMutexTake.
THEOREM ContractSafety ==
  Disciplined =>
    (Spec => [](running /\ ~Alive => /\ fault.errors = {"MUTEX_RECURSION"}
                                     /\ arg[currentPt] \in held[currentPt]))
<1> SUFFICES ASSUME Disciplined
             PROVE  Spec => [](running /\ ~Alive =>
                                 /\ fault.errors = {"MUTEX_RECURSION"}
                                 /\ arg[currentPt] \in held[currentPt])
  OBVIOUS
<1> DEFINE NoHandler == "ISR" \notin fault.errors
<1>1. Init => NoHandler
  BY DEF Init, PortInit, NoFault
<1>2. IInv /\ NoHandler /\ [Next]_vars => NoHandler'
  BY NoHandlerFault
<1>3. IInv /\ NoHandler /\ running /\ ~Alive =>
        fault.errors = {"MUTEX_RECURSION"} /\ arg[currentPt] \in held[currentPt]
  BY DEF IInv, FaultOnlyOnMisuse, Disciplined
<1> HIDE DEF NoHandler
<1> QED BY <1>1, <1>2, <1>3, Invariance, PTL DEF Spec

(***************************************************************************)
(* A delay ends at exactly its tick, for every width of the millisecond    *)
(* counter, across its wraps.  The invariant Asleep counts a sleeper down: *)
(* what is left of its delay is what was asked for less the ticks it has   *)
(* slept, and its wake-up time is that far ahead of osTimeMs in the        *)
(* arithmetic of the counter.                                              *)
(***************************************************************************)

Short(t) == state[t] = "SLEEPING" /\ arg[t] <= SignBit + 1

Asleep ==
  \A t \in Tasks :
    /\ state[t] # "SLEEPING" => slept[t] = 0
    /\ Short(t) => /\ slept[t] < Ticks(arg[t])
                   /\ wakeAt[t] = Add(osTimeMs, arg[t] - slept[t])

\* No sleeper is touched: it goes on sleeping, and nobody else falls asleep.
SleepersStay ==
  /\ UNCHANGED <<wakeAt, osTimeMs, slept>>
  /\ \A t \in Tasks : /\ state'[t] = "SLEEPING" <=> state[t] = "SLEEPING"
                      /\ state[t] = "SLEEPING" => arg'[t] = arg[t]

\* What the step does that DelayExact says of it.
DelayStepExact ==
  \A t \in Tasks : Short(t) =>
    IF osTimeMs' # osTimeMs
    THEN state'[t] = "READY" <=> slept[t] + 1 = Ticks(arg[t])
    ELSE state'[t] = "SLEEPING"

\* osWakeSleeping: a wake-up time up to half the counter range ahead is reached
\* exactly when one tick was left, or none.
LEMMA LastTick ==
  ASSUME SignBit > 1, NEW now \in Time, NEW left \in 0..(SignBit + 1)
  PROVE  /\ Expired(Add(now, 1), Add(now, left)) <=> left <= 1
         /\ left >= 1 => Add(Add(now, 1), left - 1) = Add(now, left)
  BY SignBitAssumption DEF Time, Expired, Subtract, Add

\* What the types say about a sleeper.
LEMMA SleeperFacts ==
  ASSUME IInv, NEW t \in Tasks, state[t] = "SLEEPING"
  PROVE  /\ pc[t] = "resume" /\ call[t] = "DELAY" /\ arg[t] \in Delays
         /\ arg[t] \in Time /\ slept[t] \in 0..SleptLimit
         /\ ~Executes(t)
<1>1. t \in Threads
  BY DEF Tasks
<1>2. pc[t] = "resume" /\ call[t] = "DELAY" /\ arg[t] \in Delays
  BY <1>1 DEF IInv, CallMatchesTcb, Arguments
<1>3. ~Executes(t)
  BY <1>1 DEF IInv, OnlyReadyExecutes, Executes
<1> QED BY <1>1, <1>2, <1>3, CallsAssumption DEF IInv, TypeOK

\* A step that touches no sleeper keeps the countdown and ends no delay.
LEMMA StayStep ==
  ASSUME Asleep, SleepersStay
  PROVE  Asleep' /\ DelayStepExact
  BY DEF Asleep, SleepersStay, Short, DelayStepExact, Ticks

\* osDelay starts the countdown; its caller was executing, so it did not sleep.
LEMMA SleepStep ==
  ASSUME IInv, Asleep, NEW u \in Tasks, osDelay(u)
  PROVE  Asleep' /\ DelayStepExact
<1>1. /\ u \in Threads /\ currentPt = u /\ call[u] = "DELAY" /\ pc[u] = "checked"
      /\ state[u] = "READY"
  BY DEF osDelay, InCall, Executes, IInv, OnlyReadyExecutes, Tasks
<1>2. arg[u] \in Delays /\ arg[u] \in Time /\ slept[u] = 0
  BY <1>1, CallsAssumption DEF IInv, CallMatchesTcb, Arguments, Asleep
<1>3. /\ wakeAt' = [wakeAt EXCEPT ![u] = Add(osTimeMs, arg[u])]
      /\ state' = [state EXCEPT ![u] = "SLEEPING"]
      /\ UNCHANGED <<osTimeMs, arg, slept>>
      /\ state \in [Threads -> {"READY", "BLOCKED", "SLEEPING"}]
      /\ wakeAt \in [Threads -> Time]
  BY <1>1 DEF osDelay, Sleep, Suspends, historyVars, IInv, TypeOK, KernelTypeOK
<1>4. ASSUME NEW t \in Tasks, t # u
      PROVE  /\ state'[t] = state[t] /\ wakeAt'[t] = wakeAt[t]
  BY <1>1, <1>3, <1>4 DEF Tasks
<1>5. state'[u] = "SLEEPING" /\ wakeAt'[u] = Add(osTimeMs, arg[u])
  BY <1>1, <1>3
<1>6. slept[u] < Ticks(arg[u]) /\ arg[u] - slept[u] = arg[u]
  BY <1>2, SignBitAssumption DEF Ticks, Time
<1>7. Asleep'
  BY <1>3, <1>4, <1>5, <1>6 DEF Asleep, Short, Ticks, Add
<1>8. DelayStepExact
  BY <1>1, <1>3, <1>4 DEF DelayStepExact, Short
<1> QED BY <1>7, <1>8

\* osKernelTick: the countdown goes on by one, and whoever reaches its end is READY.
LEMMA CountdownStep ==
  ASSUME SignBit > 1, IInv, Asleep, TIM2_IRQHandler
  PROVE  Asleep' /\ DelayStepExact
<1> DEFINE now == Add(osTimeMs, 1)
<1>1. /\ osTimeMs \in Time /\ osTimeMs' = now /\ now # osTimeMs
      /\ wakeAt' = wakeAt
      /\ Tasks \subseteq Threads
      /\ state \in [Threads -> {"READY", "BLOCKED", "SLEEPING"}]
      /\ slept \in [Threads -> 0..SleptLimit]
  BY SignBitAssumption DEF TIM2_IRQHandler, osKernelTick, IInv, TypeOK, KernelTypeOK,
     Time, Add, Tasks
<1>2. arg' = arg
  BY DEF TIM2_IRQHandler, WakesIdle
<1>3. ASSUME NEW t \in Tasks
      PROVE  /\ state'[t] = IF state[t] = "SLEEPING" /\ Expired(now, wakeAt[t])
                            THEN "READY" ELSE state[t]
             /\ slept'[t] = IF state'[t] # "SLEEPING" THEN 0
                            ELSE IF slept[t] < SleptLimit THEN slept[t] + 1 ELSE slept[t]
  BY <1>1 DEF TIM2_IRQHandler, osKernelTick, osWakeSleeping
<1>4. ASSUME NEW t \in Tasks, Short(t)
      PROVE  /\ state'[t] = "READY" <=> slept[t] + 1 = Ticks(arg[t])
             /\ state'[t] # "READY" =>
                  /\ slept'[t] = slept[t] + 1
                  /\ slept'[t] < Ticks(arg[t])
                  /\ wakeAt[t] = Add(now, arg[t] - slept'[t])
  <2> DEFINE left == arg[t] - slept[t]
  <2>1. /\ state[t] = "SLEEPING" /\ arg[t] <= SignBit + 1
        /\ arg[t] \in Time /\ slept[t] \in 0..SleptLimit
        /\ slept[t] < Ticks(arg[t]) /\ wakeAt[t] = Add(osTimeMs, left)
    BY <1>4, SleeperFacts DEF Asleep, Short
  <2>2. left \in 0..(SignBit + 1) /\ (left <= 1 <=> slept[t] + 1 = Ticks(arg[t]))
    BY <2>1, SignBitAssumption DEF Ticks, Time, SleptLimit
  <2>3. /\ Expired(now, wakeAt[t]) <=> left <= 1
        /\ left >= 1 => Add(now, left - 1) = wakeAt[t]
    BY <1>1, <2>1, <2>2, LastTick
  <2>4. state'[t] = "READY" <=> left <= 1
    BY <1>3, <2>1, <2>3
  <2>5. ASSUME state'[t] # "READY"
        PROVE  /\ slept'[t] = slept[t] + 1 /\ slept'[t] < Ticks(arg[t])
               /\ left - 1 = arg[t] - slept'[t] /\ left >= 1
    <3>1. state'[t] = "SLEEPING"
      BY <1>3, <2>1, <2>5
    <3>2. slept[t] < SleptLimit /\ left > 1
      BY <2>1, <2>2, <2>4, <2>5, SignBitAssumption DEF SleptLimit, Time, Ticks
    <3>3. slept'[t] = slept[t] + 1
      BY <1>3, <3>1, <3>2
    <3> QED BY <2>1, <3>2, <3>3, SignBitAssumption DEF Ticks, Time, SleptLimit
  <2> QED BY <2>2, <2>3, <2>4, <2>5
<1>5. ASSUME NEW t \in Tasks, state'[t] # "SLEEPING"
      PROVE  slept'[t] = 0
  BY <1>3, <1>5
<1>6. ASSUME NEW t \in Tasks, state'[t] = "SLEEPING"
      PROVE  state[t] = "SLEEPING"
  BY <1>3, <1>6
<1>7. Asleep'
  BY <1>1, <1>2, <1>4, <1>5, <1>6 DEF Asleep, Short
<1>8. DelayStepExact
  BY <1>1, <1>4 DEF DelayStepExact
<1> QED BY <1>7, <1>8

\* giveSignal makes a BLOCKED task READY, and nobody that sleeps.
LEMMA GiveWakesNoSleeper ==
  ASSUME IInv, NEW s \in Sems, giveSignal(s)
  PROVE  \A t \in Tasks : state'[t] = "SLEEPING" <=> state[t] = "SLEEPING"
<1>1. state \in [Threads -> {"READY", "BLOCKED", "SLEEPING"}]
  BY DEF IInv, TypeOK, KernelTypeOK
<1>2. CASE waiters[s] = <<>>
  BY <1>2 DEF giveSignal
<1>3. CASE waiters[s] # <<>>
  <2>1. osKernelUnblockOneOnSemaphore(s)
    BY <1>3 DEF giveSignal
  <2>2. \/ UNCHANGED state
        \/ /\ state[Head(waiters[s])] = "BLOCKED"
           /\ state' = [state EXCEPT ![Head(waiters[s])] = "READY"]
    BY <2>1 DEF osKernelUnblockOneOnSemaphore, Dequeue, waitFault
  <2> QED BY <1>1, <2>2 DEF Tasks
<1> QED BY <1>2, <1>3

\* A Take blocks its caller, which executes and so does not sleep.
LEMMA TakeStopsNoSleeper ==
  ASSUME IInv, NEW u \in Tasks, Take(u) \/ MutexTake(u)
  PROVE  \A t \in Tasks : state'[t] = "SLEEPING" <=> state[t] = "SLEEPING"
<1> DEFINE o == arg[u]
<1>1. /\ state \in [Threads -> {"READY", "BLOCKED", "SLEEPING"}]
      /\ currentPt = u /\ state[u] = "READY"
  BY DEF IInv, TypeOK, KernelTypeOK, Take, MutexTake, InCall, Executes, OnlyReadyExecutes
<1>2. CASE Take(u)
  <2>1. takeSignal(o, errs[u])
    BY <1>2 DEF Take
  <2>2. UNCHANGED state \/ osKernelBlockCurrentOnSemaphore(o)
    BY <2>1 DEF takeSignal
  <2>3. UNCHANGED state \/ state' = [state EXCEPT ![u] = "BLOCKED"]
    BY <1>1, <2>2 DEF osKernelBlockCurrentOnSemaphore, Enqueue, waitFault
  <2> QED BY <1>1, <2>3 DEF Tasks
<1>3. CASE MutexTake(u)
  <2>1. osMutexTake(o, errs[u])
    BY <1>3 DEF MutexTake
  <2>2. UNCHANGED state \/ osKernelBlockCurrentOnMutex(o)
    BY <2>1 DEF osMutexTake, mutexVars
  <2>3. UNCHANGED state \/ state' = [state EXCEPT ![u] = "BLOCKED"]
    BY <1>1, <2>2 DEF osKernelBlockCurrentOnMutex, Enqueue, waitFault
  <2> QED BY <1>1, <2>3 DEF Tasks
<1> QED BY <1>2, <1>3

\* osMutexGive makes a BLOCKED task READY.
LEMMA MutexGiveWakesNoSleeper ==
  ASSUME IInv, NEW u \in Tasks, MutexGive(u)
  PROVE  \A t \in Tasks : state'[t] = "SLEEPING" <=> state[t] = "SLEEPING"
<1> DEFINE m == arg[u]
<1>1. state \in [Threads -> {"READY", "BLOCKED", "SLEEPING"}]
  BY DEF IInv, TypeOK, KernelTypeOK
<1>2. UNCHANGED state \/ osKernelReleaseMutex(m)
  BY DEF MutexGive, osMutexGive, mutexVars
<1>3. \/ UNCHANGED state
      \/ /\ state[Head(waiters[m])] = "BLOCKED"
         /\ state' = [state EXCEPT ![Head(waiters[m])] = "READY"]
  BY <1>2 DEF osKernelReleaseMutex, Dequeue, waitFault
<1> QED BY <1>1, <1>3 DEF Tasks

\* The other steps of a task touch no sleeper: they move the local variables of the
\* task that executes.
LEMMA TaskTouchesNoSleeper ==
  ASSUME IInv, NEW u \in Tasks, TaskStep(u), ~osDelay(u)
  PROVE  SleepersStay
<1>0. arg \in [Threads -> Delays \cup Objects \cup {NULL}] /\ Tasks \subseteq Threads
  BY DEF IInv, TypeOK, Tasks
<1>1. ASSUME NEW t \in Tasks, state[t] = "SLEEPING", Executes(u)
      PROVE  t # u
  BY <1>1, SleeperFacts
<1>2. CASE \E c \in ContextCalls : \E a \in Arguments(c) : CheckContext(u, c, a)
  BY <1>0, <1>1, <1>2 DEF CheckContext, SleepersStay, kernelVars, historyVars
<1>3. CASE BlockingFault(u)
  BY <1>3 DEF BlockingFault, SleepersStay, kernelVars, historyVars, taskVars
<1>4. CASE Take(u)
  <2>1. UNCHANGED <<wakeAt, osTimeMs, slept>> /\ Executes(u)
    BY <1>4 DEF Take, InCall
  <2>2. Returns(u) \/ UNCHANGED arg
    BY <1>4 DEF Take, Refuses, Suspends
  <2>3. \A t \in Tasks : state[t] = "SLEEPING" => arg'[t] = arg[t]
    BY <1>0, <1>1, <2>1, <2>2 DEF Returns
  <2> QED BY <1>4, <2>1, <2>3, TakeStopsNoSleeper DEF SleepersStay
<1>5. CASE MutexTake(u)
  <2>1. UNCHANGED <<wakeAt, osTimeMs, slept>> /\ Executes(u)
    BY <1>5 DEF MutexTake, InCall
  <2>2. Returns(u) \/ UNCHANGED arg
    BY <1>5 DEF MutexTake, Refuses, Suspends
  <2>3. \A t \in Tasks : state[t] = "SLEEPING" => arg'[t] = arg[t]
    BY <1>0, <1>1, <2>1, <2>2 DEF Returns
  <2> QED BY <1>5, <2>1, <2>3, TakeStopsNoSleeper DEF SleepersStay
<1>6. CASE MutexGive(u)
  <2>1. UNCHANGED <<wakeAt, osTimeMs, slept>> /\ Executes(u)
    BY <1>6 DEF MutexGive, InCall
  <2>2. Returns(u) \/ UNCHANGED arg
    BY <1>6 DEF MutexGive, taskVars
  <2>3. \A t \in Tasks : state[t] = "SLEEPING" => arg'[t] = arg[t]
    BY <1>0, <1>1, <2>1, <2>2 DEF Returns
  <2> QED BY <1>6, <2>1, <2>3, MutexGiveWakesNoSleeper DEF SleepersStay
<1>7. CASE Return(u)
  BY <1>0, <1>1, <1>7 DEF Return, Returns, SleepersStay, kernelVars
<1>8. ASSUME NEW s \in Sems, TaskGive(u, s)
      PROVE  SleepersStay
  BY <1>8, GiveWakesNoSleeper DEF TaskGive, Give, SleepersStay, taskVars
<1>9. CASE TaskYield(u) \/ osThreadExit(u)
  BY <1>9 DEF TaskYield, osThreadExit, SleepersStay, kernelVars, taskVars, historyVars
<1>10. CASE \E r \in MaskRegisters : SetMask(u, r) \/ ClearMask(u, r)
  BY <1>10 DEF SetMask, ClearMask, SleepersStay, kernelVars, taskVars, historyVars
<1> QED BY <1>2, <1>3, <1>4, <1>5, <1>6, <1>7, <1>8, <1>9, <1>10 DEF TaskStep

\* Neither do idle, main, and the exceptions but TIM2.
LEMMA OthersTouchNoSleeper ==
  ASSUME IInv, IdleYield \/ Interrupt \/ Main \/ UNCHANGED vars, ~TIM2_IRQHandler
  PROVE  SleepersStay
<1>1. CASE IdleYield \/ Switch \/ Quantum \/ Launch
  BY <1>1 DEF IdleYield, Switch, PendSV_Handler, Quantum, SysTick_Handler, WakesIdle,
     Launch, osKernelLaunch, SleepersStay, kernelVars, taskVars, historyVars, osYield
<1>2. ASSUME NEW s \in Sems, HandlerGive(s) \/ MainGive(s)
      PROVE  SleepersStay
  BY <1>2, GiveWakesNoSleeper DEF HandlerGive, MainGive, Give, WakesIdle, SleepersStay,
     taskVars
<1>3. CASE \E c \in ContextCalls : \E a \in Arguments(c) :
             HandlerContextCall(c, a) \/ MainContextCall(c, a)
  BY <1>3 DEF HandlerContextCall, MainContextCall, SleepersStay, kernelVars, taskVars,
     historyVars
<1>4. CASE UNCHANGED vars
  BY <1>4 DEF vars, SleepersStay, kernelVars, taskVars, historyVars
<1> QED BY <1>1, <1>2, <1>3, <1>4 DEF Interrupt, Main

\* Every step keeps the countdown and treats the sleepers as DelayExact says.
LEMMA CountdownNext ==
  ASSUME SignBit > 1, IInv, Asleep, [Next]_vars
  PROVE  Asleep' /\ DelayStepExact
<1>1. ASSUME NEW u \in Tasks, TaskStep(u)
      PROVE  Asleep' /\ DelayStepExact
  BY <1>1, SleepStep, TaskTouchesNoSleeper, StayStep
<1>2. CASE TIM2_IRQHandler
  BY <1>2, CountdownStep
<1>3. CASE (IdleYield \/ Interrupt \/ Main \/ UNCHANGED vars) /\ ~TIM2_IRQHandler
  BY <1>3, OthersTouchNoSleeper, StayStep
<1> QED BY <1>1, <1>2, <1>3 DEF Next, Stopped

\* osWakeSleeping: for every number of threads and every counter of at least two bits,
\* a delay of at most half the range and one tick ends at its tick, neither earlier
\* nor later, however ticks, switches and other calls interleave.
THEOREM DelaySafety == SignBit > 1 => (Spec => DelayExact)
<1> SUFFICES ASSUME SignBit > 1 PROVE Spec => DelayExact
  OBVIOUS
<1>1. Init => Asleep
  BY DEF Init, KernelInit, Asleep, Short, Tasks
<1>2. IInv /\ Asleep /\ [Next]_vars => Asleep'
  BY CountdownNext
<1>3. IInv /\ Asleep /\ [Next]_vars =>
        [\A t \in Tasks : state[t] = "SLEEPING" /\ arg[t] <= SignBit + 1 =>
           IF osTimeMs' # osTimeMs
           THEN state'[t] = "READY" <=> slept[t] + 1 = Ticks(arg[t])
           ELSE state'[t] = "SLEEPING"]_vars
  BY CountdownNext DEF DelayStepExact, Short
<1> QED BY <1>1, <1>2, <1>3, Invariance, PTL DEF Spec, DelayExact

(***************************************************************************)
(* Round robin passes nobody over.                                         *)
(***************************************************************************)

\* Hops from the running thread lead round the ring: the j-th reaches the thread
\* that is j behind.
LEMMA HopBehind ==
  ASSUME IInv, NEW t \in Threads, t # currentPt
  PROVE  /\ Behind(currentPt, t) \in 1..(N - 1)
         /\ Hop(currentPt, Behind(currentPt, t)) = t
<1>1. N \in Nat \ {0} /\ currentPt \in 0..(N - 1) /\ t \in 0..(N - 1)
  BY NAssumption DEF IInv, TypeOK, KernelTypeOK, Threads, MAX_THREADS
<1> QED BY <1>1 DEF Behind, Hop

\* osScheduler: the loop cannot run past a READY thread.
LEMMA SchedulerPassesNobody ==
  ASSUME IInv, NEW u, osScheduler(u), NEW t \in Threads, state[t] = "READY"
  PROVE  u = t \/ Behind(u, t) < Behind(currentPt, t)
<1>1. N \in Nat \ {0} /\ currentPt \in 0..(N - 1) /\ t \in 0..(N - 1)
  BY NAssumption DEF IInv, TypeOK, KernelTypeOK, Threads, MAX_THREADS
<1>2. PICK k \in 1..N : /\ u = Hop(currentPt, k)
                        /\ \A j \in 1..(k - 1) : Skipped(Hop(currentPt, j))
  BY DEF osScheduler
<1>3. CASE t = currentPt
  BY <1>1, <1>2, <1>3 DEF Behind, Hop
<1>4. CASE t # currentPt
  <2> DEFINE b == Behind(currentPt, t)
  <2>1. b \in 1..(N - 1) /\ Hop(currentPt, b) = t
    BY <1>4, HopBehind
  <2>2. ~(b \in 1..(k - 1))
    BY <1>2, <2>1 DEF Skipped
  <2>3. k \in 1..b
    BY <1>1, <1>2, <2>1, <2>2
  <2>4. CASE k = b
    BY <1>2, <2>1, <2>4
  <2>5. CASE k < b
    BY <1>1, <1>2, <2>1, <2>5 DEF Behind, Hop
  <2> QED BY <1>1, <2>1, <2>3, <2>4, <2>5
<1> QED BY <1>3, <1>4

\* Nothing but PendSV moves the processor or answers a request to switch.
LEMMA OnlySwitchDispatches ==
  ASSUME IInv, [Next]_vars, Dispatches
  PROVE  Switch
<1>0. running \in BOOLEAN /\ pendSV \in BOOLEAN /\ (~running => ~pendSV)
  BY DEF IInv, TypeOK, KernelTypeOK, BeforeLaunch
<1>1. ASSUME NEW transition \in BOOLEAN, osKernelRequestContextSwitch(transition), pendSV
      PROVE  pendSV'
  BY <1>1 DEF osKernelRequestContextSwitch
<1>2. ASSUME NEW s \in Sems, giveSignal(s), UNCHANGED currentPt
      PROVE  FALSE
  BY <1>0, <1>1, <1>2 DEF giveSignal, Dispatches
<1>3. ASSUME NEW t \in Tasks, TaskStep(t)
      PROVE  FALSE
  <2>1. CASE \/ \E c \in ContextCalls : \E a \in Arguments(c) : CheckContext(t, c, a)
             \/ BlockingFault(t) \/ Return(t) \/ osThreadExit(t)
             \/ \E r \in MaskRegisters : SetMask(t, r) \/ ClearMask(t, r)
    BY <2>1 DEF CheckContext, BlockingFault, Return, osThreadExit, SetMask, ClearMask,
           kernelVars, Dispatches
  <2>2. CASE osDelay(t) \/ TaskYield(t)
    BY <2>2 DEF osDelay, Sleep, osYield, TaskYield, Dispatches
  <2>3. CASE Take(t)
    BY <1>0, <1>1, <2>3 DEF Take, takeSignal, Dispatches
  <2>4. CASE MutexTake(t)
    BY <1>0, <1>1, <2>4 DEF MutexTake, osMutexTake, mutexVars, Dispatches
  <2>5. CASE MutexGive(t)
    BY <1>0, <1>1, <2>5 DEF MutexGive, osMutexGive, mutexVars, Dispatches
  <2>6. CASE \E s \in Sems : TaskGive(t, s)
    BY <1>2, <2>6 DEF TaskGive, Give
  <2> QED BY <1>3, <2>1, <2>2, <2>3, <2>4, <2>5, <2>6 DEF TaskStep
<1>4. CASE IdleYield \/ Quantum \/ TIM2_IRQHandler \/ Launch
  BY <1>0, <1>4 DEF IdleYield, Quantum, SysTick_Handler, osYield, TIM2_IRQHandler,
     osKernelTick, Launch, osKernelLaunch, Dispatches
<1>5. CASE \E s \in Sems : HandlerGive(s) \/ MainGive(s)
  BY <1>2, <1>5 DEF HandlerGive, MainGive, Give
<1>6. CASE \E c \in ContextCalls : \E a \in Arguments(c) :
             HandlerContextCall(c, a) \/ MainContextCall(c, a)
  <2>1. UNCHANGED kernelVars
    BY <1>6 DEF HandlerContextCall, MainContextCall
  <2> QED BY <2>1 DEF kernelVars, Dispatches
<1>7. CASE UNCHANGED vars
  BY <1>7 DEF vars, kernelVars, Dispatches
<1> QED BY <1>3, <1>4, <1>5, <1>6, <1>7 DEF Next, Interrupt, Main, Stopped

\* osScheduler: for every number of threads, a thread that stays READY waits for at
\* most N - 1 switches, whatever happens to the other threads between them.
THEOREM RoundRobinSafety == Spec => NobodyPassedOver
<1>1. IInv /\ [Next]_vars =>
        [Dispatches => \A t \in Threads : state[t] = "READY" =>
           currentPt' = t \/ Behind(currentPt', t) < Behind(currentPt, t)]_vars
  BY OnlySwitchDispatches, SchedulerPassesNobody DEF Switch, PendSV_Handler
<1> QED BY <1>1, Invariance, PTL DEF Spec, NobodyPassedOver
=============================================================================
