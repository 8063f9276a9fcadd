------------------------ MODULE SemaphoreDemo_proof -------------------------
(***************************************************************************)
(* Proofs about mode 0 of Src/main.c, for every length of its delays, every *)
(* speed of the processor and of the UART, and every width of its          *)
(* counters: the application uses the kernel as TinyKernel says and never  *)
(* halts it, and as long as the consumer is in time for the next event,    *)
(* each event that the producer counts is counted once by the consumer.    *)
(*                                                                         *)
(* The tokens under way are the credit of the semaphore, which counts the  *)
(* accepted Gives less the Takes that returned; TokenConservation splits it *)
(* into what is stored and what was granted.                               *)
(***************************************************************************)
EXTENDS SemaphoreDemo, Demo_proof

\* What main sets up in mode 0: two tasks beside the idle one, and an empty semaphore.
SemaphoreMode ==
  /\ N = 3 /\ eventSem \in Sems /\ InitialCounts = {0}
  /\ {PRODUCER_PERIOD_MS, LED_PULSE_MS} \subseteq Delays
  /\ CounterLimit \in Nat \ {0}

ModeSpec == AppInit /\ [][AppNext]_demoVars

\* The producer counts its next event before the consumer waits for it.
Overtakes ==
  /\ Executes(Producer) /\ pc[Producer] = "run" /\ at[Producer] = "count"
  /\ waiters[eventSem] = <<>>

(***************************************************************************)
(* The inductive invariants: Inv whatever the timing, Kept as long as no   *)
(* event is coalesced, and Prompt as long as the consumer is not overtaken. *)
(***************************************************************************)
Counts == 0..(CounterLimit - 1)
DataType == [produced : Counts, consumed : Counts]

Statements(t) ==
  IF t = Consumer THEN {"top", "took", "print", "pulse"} ELSE {"top", "count", "give"}

\* The call that a task makes before it reaches a statement.
CallBefore ==
  [t \in Tasks |-> [l \in Statements(t) |->
     IF l = "took" THEN "SEMAPHORE" ELSE IF l \in {"top", "count"} THEN "DELAY" ELSE "NONE"]]

Inv == Standing(CallBefore, eventSem) /\ data \in DataType

\* An event is under way from the count of the producer to that of the consumer: about
\* to be signalled, credited to the semaphore, or taken.
Signalled == IF at[Producer] = "give" THEN 1 ELSE 0
Taken == IF at[Consumer] = "took" /\ pc[Consumer] = "run" THEN 1 ELSE 0

Kept ==
  data.produced = (data.consumed + Signalled + credit[eventSem] + Taken) % CounterLimit

\* Every event is handed to a consumer that waits, and none is stored.
Prompt == value[eventSem] = 0 /\ (at[Producer] = "give" => waiters[eventSem] # <<>>)

\* What every step of the mode does.
Keeps ==
  /\ Inv' /\ [Next]_vars
  /\ Kept /\ ~Coalesces => Kept'
  /\ Prompt /\ ~Overtakes => Prompt'

(***************************************************************************)
(* Lemmas.                                                                 *)
(***************************************************************************)

\* The two tasks of the mode and their statements.
LEMMA Members ==
  ASSUME SemaphoreMode
  PROVE  /\ Tasks = {Consumer, Producer} /\ Consumer # Producer
         /\ CallTable(CallBefore) /\ eventSem \in Sems
         /\ \A t \in Tasks : /\ DOMAIN CallBefore[t] = Statements(t)
                             /\ \A l \in Statements(t) :
                                  /\ CallBefore[t][l] = "SEMAPHORE" <=> l = "took"
                                  /\ CallBefore[t][l] = "DELAY" <=> l \in {"top", "count"}
<1>1. Tasks = {Consumer, Producer} /\ Consumer # Producer
  BY DEF SemaphoreMode, Tasks, Threads, Idle, Consumer, Producer
<1>2. CallTable(CallBefore)
  BY DEF CallTable, CallBefore
<1> QED BY <1>1, <1>2 DEF SemaphoreMode, CallBefore

\* What Inv says of the counters and the semaphore.
LEMMA InvFacts ==
  ASSUME SemaphoreMode, Inv
  PROVE  /\ data \in DataType /\ data.produced \in Nat /\ data.consumed \in Nat
         /\ CounterLimit \in Nat \ {0}
         /\ credit[eventSem] \in Nat /\ value[eventSem] \in Nat
         /\ waiters[eventSem] \in Seq(Threads)
         /\ Signalled \in Nat /\ Taken \in Nat
         /\ DOMAIN at = Tasks /\ \A t \in Tasks : at[t] \in Statements(t)
<1>1. /\ credit[eventSem] \in Nat /\ value[eventSem] \in Nat
      /\ waiters[eventSem] \in Seq(Threads)
  BY Members, SemaphoreFacts DEF Inv, Standing
<1>2. \A t \in Tasks : at[t] \in Statements(t)
  BY Members DEF Inv, Standing
<1> QED BY <1>1, <1>2
        DEF SemaphoreMode, Inv, Standing, DataType, Counts, Signalled, Taken

\* Only the consumer queues, in its Take, and while it does it executes nothing.
LEMMA ConsumerQueues ==
  ASSUME SemaphoreMode, Inv, waiters[eventSem] # <<>>
  PROVE  ~Executes(Consumer) /\ at[Consumer] = "took"
<1>1. Standing(CallBefore, eventSem) /\ eventSem \in Sems
  BY Members DEF Inv
<1>2. \E t \in Tasks : CallBefore[t][at[t]] = "SEMAPHORE" /\ ~Executes(t)
  BY <1>1, SomebodyQueues
<1>3. PICK t \in Tasks : CallBefore[t][at[t]] = "SEMAPHORE" /\ ~Executes(t)
  BY <1>2
<1>4. at[t] \in Statements(t) /\ at[t] = "took"
  BY <1>3, InvFacts, Members
<1>5. t = Consumer
  BY <1>4 DEF Statements
<1> QED BY <1>3, <1>4, <1>5

\* A token that was granted and not yet taken belongs to the consumer, in its Take.
LEMMA GrantedConsumer ==
  ASSUME SemaphoreMode, Inv, at[Consumer] # "took"
  PROVE  Cardinality(Granted(eventSem)) = 0
<1>1. ASSUME NEW t \in Granted(eventSem)
      PROVE  FALSE
  <2>1. t \in Threads /\ pc[t] = "resume" /\ call[t] = "SEMAPHORE"
    BY <1>1 DEF Granted
  <2>2. t \in Tasks
    BY <2>1 DEF Inv, Standing, IInv, CallMatchesTcb, Tasks
  <2>3. CallBefore[t][at[t]] = "SEMAPHORE"
    BY <2>1, <2>2 DEF Inv, Standing, InCallOf
  <2>4. at[t] \in Statements(t) /\ at[t] = "took"
    BY <2>2, <2>3, InvFacts, Members
  <2> QED BY <2>4 DEF Statements
<1>2. Granted(eventSem) = {}
  BY <1>1
<1> QED BY <1>2, FS_EmptySet

\* The events under way are those of the property.
LEMMA KeptMeansEventsKept ==
  ASSUME SemaphoreMode, Inv, Kept
  PROVE  EventsKept
<1>1. /\ credit[eventSem] = value[eventSem] + Cardinality(Granted(eventSem))
      /\ value[eventSem] \in Nat /\ Cardinality(Granted(eventSem)) \in Nat
  BY Members, SemaphoreFacts DEF Inv, Standing
<1>2. data.consumed \in Nat /\ Signalled \in Nat /\ Taken \in Nat
  BY InvFacts
<1>3. UnderWay = Signalled + value[eventSem] + Cardinality(Granted(eventSem)) + Taken
  BY DEF UnderWay, Signalled, Taken
<1>4. data.consumed + UnderWay = data.consumed + Signalled + credit[eventSem] + Taken
  BY <1>1, <1>2, <1>3
<1> QED BY <1>4 DEF Kept, EventsKept

\* None is under way when a prompt consumer prints.
LEMMA PromptMeansSampleMatches ==
  ASSUME SemaphoreMode, Inv, Kept, Prompt
  PROVE  SampleMatches
<1> SUFFICES ASSUME at[Consumer] = "print"
             PROVE  data.produced = data.consumed
  BY DEF SampleMatches
<1>1. credit[eventSem] = value[eventSem] + Cardinality(Granted(eventSem))
  BY Members, SemaphoreFacts DEF Inv, Standing
<1>2. credit[eventSem] = 0
  BY <1>1, GrantedConsumer DEF Prompt
<1>3. at[Producer] # "give"
  BY ConsumerQueues DEF Prompt
<1>4. Signalled = 0 /\ Taken = 0
  BY <1>3 DEF Signalled, Taken
<1>5. data.consumed + Signalled + credit[eventSem] + Taken = data.consumed
  BY <1>2, <1>4, InvFacts
<1>6. data.consumed % CounterLimit = data.consumed
  <2>1. data \in DataType /\ data.consumed \in Nat /\ CounterLimit \in Nat \ {0}
    BY InvFacts
  <2>2. data.consumed \in 0..(CounterLimit - 1)
    BY <2>1 DEF DataType, Counts
  <2>3. (CounterLimit * 0 + data.consumed) % CounterLimit = data.consumed
    BY <2>1, <2>2, Remainder
  <2> QED BY <2>1, <2>3
<1> QED BY <1>5, <1>6 DEF Kept

\* main: both counters are 0 and the semaphore is empty.
LEMMA InitKept ==
  ASSUME SemaphoreMode, AppInit
  PROVE  Init /\ Inv /\ Kept /\ Prompt
<1>1. /\ Init /\ data = [produced |-> 0, consumed |-> 0]
      /\ at = [t \in Tasks |-> "top"] /\ gave = [t \in Tasks |-> FALSE]
  BY DEF AppInit, DemoInit
<1>2. IInv /\ TokenConservation
  BY <1>1, InitIInv, InitTokens
<1>3. 0 \in Counts /\ 0 % CounterLimit = 0
  BY DEF SemaphoreMode, Counts
<1>4. \A t \in Tasks : pc[t] = "run" /\ at[t] \in DOMAIN CallBefore[t]
  BY <1>1, Members DEF Init, Tasks, Statements
<1>5. Standing(CallBefore, eventSem)
  BY <1>1, <1>2, <1>4 DEF Standing, InCallOf, Init, PortInit, Alive
<1>6. data \in DataType
  BY <1>1, <1>3 DEF DataType
<1>7. value[eventSem] = 0
  BY <1>1 DEF SemaphoreMode, Init, SemaphoreInit, osBinSemInit, osCountSemInit
<1>8. credit[eventSem] = 0
  BY <1>1, <1>7 DEF Init, SemaphoreMode
<1>9. Signalled = 0 /\ Taken = 0 /\ at[Producer] = "top"
  BY <1>1, Members DEF Signalled, Taken
<1> QED BY <1>1, <1>3, <1>5, <1>6, <1>7, <1>8, <1>9 DEF Inv, Kept, Prompt

\* Statements of a task's own.
LEMMA OwnStep ==
  ASSUME SemaphoreMode, Inv, NEW t \in Tasks, NEW l, NEW next \in Statements(t),
         Does(t, l, next) \/ Prints(t, l, next), data' \in DataType
  PROVE  /\ Inv' /\ [Next]_vars /\ UNCHANGED pc /\ Left(eventSem)
         /\ Executes(t) /\ pc[t] = "run" /\ at[t] = l /\ at'[t] = next
         /\ \A u \in Tasks \ {t} : at'[u] = at[u]
<1>1. /\ Standing(CallBefore, eventSem) /\ eventSem \in Sems
      /\ next \in DOMAIN CallBefore[t]
  BY Members DEF Inv
<1>2. /\ Standing(CallBefore, eventSem)' /\ [Next]_vars
      /\ UNCHANGED <<value, credit, waiters, pc>>
      /\ Executes(t) /\ pc[t] = "run" /\ at[t] = l /\ at' = [at EXCEPT ![t] = next]
  BY <1>1, OwnCode
<1>3. at'[t] = next /\ \A u \in Tasks \ {t} : at'[u] = at[u]
  BY <1>2, InvFacts
<1> QED BY <1>2, <1>3 DEF Inv, Left

\* The first step of a call.
LEMMA CallStep ==
  ASSUME SemaphoreMode, Inv, NEW t \in Tasks, NEW l, NEW next \in Statements(t),
         NEW c \in ContextCalls, NEW a \in Arguments(c), Calls(t, l, c, a, next),
         CallBefore[t][next] = c, c = "SEMAPHORE" => a = eventSem,
         l # "took", l # "give", next # "give"
  PROVE  Keeps
<1>1. Standing(CallBefore, eventSem) /\ eventSem \in Sems /\ next \in DOMAIN CallBefore[t]
  BY Members DEF Inv
<1>2. CallBegun(CallBefore, eventSem, t, l, next)
  BY <1>1, CallBegins
<1>3. /\ Standing(CallBefore, eventSem)' /\ [Next]_vars
      /\ UNCHANGED <<value, credit, waiters, data>>
      /\ at[t] = l /\ at'[t] = next /\ pc'[t] = "checked"
      /\ \A u \in Tasks \ {t} : at'[u] = at[u] /\ pc'[u] = pc[u]
  BY <1>2, InvFacts DEF CallBegun
<1>4. Signalled' = Signalled /\ Taken' = Taken
  BY <1>3, Members DEF Signalled, Taken
<1>5. Prompt => Prompt'
  BY <1>3, Members DEF Prompt
<1> QED BY <1>3, <1>4, <1>5 DEF Inv, Kept, Keeps

\* The rest of a call: a Take that returns takes the token out of the credit.
LEMMA InCallStep ==
  ASSUME SemaphoreMode, Inv, NEW t \in Tasks, InCalls(t)
  PROVE  Keeps
<1>1. Standing(CallBefore, eventSem) /\ eventSem \in Sems /\ CallTable(CallBefore)
  BY Members DEF Inv
<1>2. CallGone(CallBefore, eventSem, t)
  BY <1>1, CallGoesOn
<1>3. /\ Standing(CallBefore, eventSem)' /\ [Next]_vars /\ UNCHANGED <<at, data>>
      /\ Executes(t) /\ pc[t] # "run" /\ \A u \in Tasks \ {t} : pc'[u] = pc[u]
      /\ \/ CallBefore[t][at[t]] = "DELAY" /\ Left(eventSem)
         \/ /\ CallBefore[t][at[t]] = "SEMAPHORE" /\ pc'[t] = "resume"
            /\ Blocked(eventSem, t)
         \/ /\ CallBefore[t][at[t]] = "SEMAPHORE" /\ pc'[t] = "run"
            /\ (TakenAtOnce(eventSem) \/ Resumed(eventSem))
  BY <1>2 DEF CallGone
<1>4. at[t] \in Statements(t) /\ (CallBefore[t][at[t]] = "SEMAPHORE" <=> at[t] = "took")
  BY InvFacts, Members
<1>5. Signalled' = Signalled /\ Inv'
  BY <1>3 DEF Signalled, Inv
<1>6. CASE CallBefore[t][at[t]] = "DELAY"
  <2>1. Left(eventSem) /\ at[t] # "took"
    BY <1>3, <1>4, <1>6
  <2>2. Taken' = Taken
    BY <1>3, <2>1, Members DEF Taken
  <2> QED BY <1>3, <1>5, <2>1, <2>2 DEF Kept, Prompt, Keeps, Left
<1>7. CASE CallBefore[t][at[t]] = "SEMAPHORE"
  <2>1. t = Consumer /\ at[t] = "took"
    BY <1>4, <1>7 DEF Statements
  <2>2. /\ Taken = 0 /\ credit[eventSem] \in Nat /\ data.consumed \in Nat
        /\ Signalled \in Nat /\ waiters[eventSem] = <<>>
    BY <1>3, <2>1, InvFacts, ConsumerQueues DEF Taken
  <2>3. CASE pc'[t] = "resume" /\ Blocked(eventSem, t)
    <3>1. Taken' = 0
      BY <1>3, <2>1, <2>3 DEF Taken
    <3>2. Prompt => Prompt'
      BY <1>3, <2>2, <2>3 DEF Prompt, Blocked
    <3> QED BY <1>3, <1>5, <2>2, <2>3, <3>1, <3>2 DEF Kept, Keeps, Blocked
  <2>4. CASE pc'[t] = "run" /\ (TakenAtOnce(eventSem) \/ Resumed(eventSem))
    <3>1. Taken' = 1 /\ credit'[eventSem] = credit[eventSem] - 1
      BY <1>3, <2>1, <2>4 DEF Taken, TakenAtOnce, Resumed
    <3>2. data.consumed + Signalled + credit'[eventSem] + Taken'
            = data.consumed + Signalled + credit[eventSem] + Taken
      BY <2>2, <3>1
    <3>3. Prompt => Prompt'
      BY <1>3, <2>2, <2>4 DEF Prompt, TakenAtOnce, Resumed
    <3> QED BY <1>3, <1>5, <3>2, <3>3 DEF Kept, Keeps
  <2> QED BY <1>3, <1>7, <2>3, <2>4
<1> QED BY <1>3, <1>6, <1>7

\* The consumer's steps.
LEMMA ConsumerStep ==
  ASSUME SemaphoreMode, Inv, consumerTask(Consumer)
  PROVE  Keeps
<1> DEFINE t == Consumer
<1>1. t \in Tasks /\ Producer \in Tasks \ {t}
  BY Members
<1>2. CASE Calls(t, "top", "SEMAPHORE", eventSem, "took")
  <2>1. /\ "took" \in Statements(t) /\ CallBefore[t]["took"] = "SEMAPHORE"
        /\ "SEMAPHORE" \in ContextCalls /\ eventSem \in Arguments("SEMAPHORE")
    BY <1>1, Members DEF Statements, ContextCalls, Arguments
  <2> QED BY <1>1, <1>2, <2>1, CallStep
<1>3. CASE Calls(t, "pulse", "DELAY", LED_PULSE_MS, "top")
  <2>1. /\ "top" \in Statements(t) /\ CallBefore[t]["top"] = "DELAY"
        /\ "DELAY" \in ContextCalls /\ LED_PULSE_MS \in Arguments("DELAY")
    BY <1>1, Members DEF Statements, ContextCalls, Arguments, SemaphoreMode
  <2> QED BY <1>1, <1>3, <2>1, CallStep
<1>4. CASE Does(t, "took", "print") /\ data' = [data EXCEPT !.consumed = Up(@)]
  <2>1. /\ data \in DataType /\ CounterLimit \in Nat \ {0} /\ data.consumed \in Nat
        /\ Signalled \in Nat /\ credit[eventSem] \in Nat
    BY InvFacts
  <2>2. Up(data.consumed) \in Counts
    BY <2>1, UpFacts DEF Counts
  <2>3. /\ data' \in DataType
        /\ data'.consumed = Up(data.consumed) /\ data'.produced = data.produced
    BY <1>4, <2>1, <2>2 DEF DataType
  <2>4. /\ Inv' /\ [Next]_vars /\ UNCHANGED pc /\ Left(eventSem)
        /\ pc[t] = "run" /\ at[t] = "took" /\ at'[t] = "print"
        /\ at'[Producer] = at[Producer]
    BY <1>1, <1>4, <2>3, OwnStep DEF Statements
  <2>5. Signalled' = Signalled /\ Taken = 1 /\ Taken' = 0
    BY <2>4 DEF Signalled, Taken
  <2> DEFINE k == Signalled + credit[eventSem]
  <2>6. k \in Nat
    BY <2>1
  <2>7. Kept => data.produced = (data.consumed + 1 + k) % CounterLimit
    <3>1. data.consumed + Signalled + credit[eventSem] + 1 = data.consumed + 1 + k
      BY <2>1
    <3> QED BY <2>5, <3>1 DEF Kept
  <2>8. data'.consumed + Signalled' + credit'[eventSem] + Taken' = Up(data.consumed) + k
    BY <2>1, <2>2, <2>3, <2>4, <2>5 DEF Counts, Left
  <2>9. (Up(data.consumed) + k) % CounterLimit = (data.consumed + 1 + k) % CounterLimit
    <3> HIDE DEF k
    <3> QED BY <2>1, <2>6, UpFacts
  <2>10. Kept => Kept'
    BY <2>3, <2>7, <2>8, <2>9 DEF Kept
  <2> QED BY <2>4, <2>10 DEF Keeps, Prompt, Left
<1>5. CASE Prints(t, "print", "pulse")
  <2>1. UNCHANGED data /\ data \in DataType
    BY <1>5, InvFacts DEF Prints
  <2>2. /\ Inv' /\ [Next]_vars /\ UNCHANGED pc /\ Left(eventSem)
        /\ at[t] = "print" /\ at'[t] = "pulse" /\ at'[Producer] = at[Producer]
    BY <1>1, <1>5, <2>1, OwnStep DEF Statements
  <2>3. Signalled' = Signalled /\ Taken' = Taken
    BY <2>2 DEF Signalled, Taken
  <2> QED BY <2>1, <2>2, <2>3 DEF Keeps, Kept, Prompt, Left
<1> QED BY <1>2, <1>3, <1>4, <1>5 DEF consumerTask

\* The producer's steps: what the semaphore has no room for is lost.
LEMMA ProducerStep ==
  ASSUME SemaphoreMode, Inv, producerTask(Producer)
  PROVE  Keeps
<1> DEFINE t == Producer
<1>1. t \in Tasks /\ Consumer \in Tasks \ {t}
  BY Members
<1>2. CASE Calls(t, "top", "DELAY", PRODUCER_PERIOD_MS, "count")
  <2>1. /\ "count" \in Statements(t) /\ CallBefore[t]["count"] = "DELAY"
        /\ "DELAY" \in ContextCalls /\ PRODUCER_PERIOD_MS \in Arguments("DELAY")
    <3>1. "count" \in Statements(t)
      BY Members DEF Statements
    <3> QED BY <1>1, <3>1, Members DEF ContextCalls, Arguments, SemaphoreMode
  <2> QED BY <1>1, <1>2, <2>1, CallStep
<1>3. /\ data \in DataType /\ CounterLimit \in Nat \ {0}
      /\ data.consumed \in Nat /\ data.produced \in Nat
      /\ credit[eventSem] \in Nat /\ Taken \in Nat
  BY InvFacts
<1>4. CASE Does(t, "count", "give") /\ data' = [data EXCEPT !.produced = Up(@)]
  <2>1. Up(data.produced) \in Counts
    BY <1>3, UpFacts DEF Counts
  <2>2. /\ data' \in DataType
        /\ data'.produced = Up(data.produced) /\ data'.consumed = data.consumed
    BY <1>3, <1>4, <2>1 DEF DataType
  <2>3. /\ Inv' /\ [Next]_vars /\ UNCHANGED pc /\ Left(eventSem)
        /\ Executes(t) /\ pc[t] = "run" /\ at[t] = "count" /\ at'[t] = "give"
        /\ at'[Consumer] = at[Consumer]
    <3>1. "give" \in Statements(t)
      BY Members DEF Statements
    <3> QED BY <1>1, <1>4, <2>2, <3>1, OwnStep
  <2>4. Taken' = Taken /\ Signalled = 0 /\ Signalled' = 1
    BY <2>3 DEF Signalled, Taken
  <2> DEFINE n == data.consumed + credit[eventSem] + Taken
  <2>5. n \in Nat
    BY <1>3
  <2>6. Kept => data.produced = n % CounterLimit
    <3>1. data.consumed + Signalled + credit[eventSem] + Taken = n
      BY <1>3, <2>4
    <3> QED BY <3>1 DEF Kept
  <2>7. data'.consumed + Signalled' + credit'[eventSem] + Taken' = n + 1
    BY <1>3, <2>2, <2>3, <2>4 DEF Left
  <2>8. Up(n % CounterLimit) = (n + 1) % CounterLimit
    <3> HIDE DEF n
    <3> QED BY <1>3, <2>5, UpFacts
  <2>9. Kept => Kept'
    BY <2>2, <2>6, <2>7, <2>8 DEF Kept
  <2>10. Prompt /\ ~Overtakes => Prompt'
    BY <2>3 DEF Prompt, Overtakes, Left
  <2> QED BY <2>3, <2>9, <2>10 DEF Keeps
<1>5. CASE Gives(t, "give", eventSem, "top")
  <2>1. /\ Standing(CallBefore, eventSem) /\ eventSem \in Sems
        /\ "top" \in DOMAIN CallBefore[t]
    BY <1>1, Members DEF Inv, Statements
  <2>2. GiveAnswered(CallBefore, eventSem, t, "give", "top")
    BY <1>1, <1>5, <2>1, GiveIsAnswered
  <2>3. /\ Standing(CallBefore, eventSem)' /\ [Next]_vars /\ UNCHANGED <<pc, data>>
        /\ Executes(t) /\ pc[t] = "run" /\ at[t] = "give" /\ at'[t] = "top"
        /\ at'[Consumer] = at[Consumer]
        /\ \/ Stored(eventSem) \/ HandedOver(eventSem)
           \/ /\ waiters[eventSem] = <<>> /\ value[eventSem] = maxCount[eventSem]
              /\ Left(eventSem)
    BY <1>1, <2>2, InvFacts DEF GiveAnswered
  <2>4. Taken' = Taken /\ Signalled = 1 /\ Signalled' = 0
    BY <2>3 DEF Signalled, Taken
  <2>5. ~Coalesces => Stored(eventSem) \/ HandedOver(eventSem)
    <3>1. maxCount[eventSem] \in Nat
      BY <2>1, SemaphoreFacts DEF Standing
    <3> QED BY <2>3, <3>1 DEF Coalesces, Accepted
  <2>6. ~Coalesces => credit'[eventSem] = credit[eventSem] + 1
    BY <2>5 DEF Stored, HandedOver
  <2>7. ~Coalesces => data.consumed + Signalled' + credit'[eventSem] + Taken'
                        = data.consumed + Signalled + credit[eventSem] + Taken
    BY <1>3, <2>4, <2>6
  <2>8. Prompt => Prompt'
    BY <2>3 DEF Prompt, Stored, HandedOver
  <2> QED BY <1>3, <2>3, <2>7, <2>8 DEF Inv, Kept, Keeps
<1> QED BY <1>2, <1>4, <1>5 DEF producerTask

\* The timers, the switch, the idle loop and the launch.
LEMMA SystemStep ==
  ASSUME SemaphoreMode, Inv, OthersStep
  PROVE  Keeps
<1>1. Standing(CallBefore, eventSem) /\ eventSem \in Sems
  BY Members DEF Inv
<1>2. /\ Standing(CallBefore, eventSem)' /\ [Next]_vars /\ UNCHANGED <<at, data>>
      /\ Left(eventSem) /\ \A t \in Tasks : pc'[t] = pc[t]
  BY <1>1, SystemLeaves
<1>3. Signalled' = Signalled /\ Taken' = Taken
  <2>1. UNCHANGED at /\ pc'[Consumer] = pc[Consumer]
    BY <1>2, Members
  <2> QED BY <2>1 DEF Signalled, Taken
<1> QED BY <1>2, <1>3 DEF Inv, Kept, Prompt, Keeps, Left

\* Every step of the mode is a step of the kernel and keeps the balance of the events.
LEMMA ModeStep ==
  ASSUME SemaphoreMode, Inv, [AppNext]_demoVars
  PROVE  Keeps
<1>1. CASE consumerTask(Consumer) \/ producerTask(Producer)
  BY <1>1, ConsumerStep, ProducerStep
<1>2. CASE \E t \in Tasks : InCalls(t)
  BY <1>2, InCallStep
<1>3. CASE OthersStep
  BY <1>3, SystemStep
<1> QED BY <1>1, <1>2, <1>3 DEF AppNext, KernelSteps, OthersStep, appVars

(***************************************************************************)
(* Theorems.                                                               *)
(***************************************************************************)

\* main and the tasks of mode 0 use the kernel as TinyKernel says: every behaviour of
\* the application is one of the kernel, so what is proved of the kernel holds in it.
THEOREM SemaphoreModeIsKernel == SemaphoreMode => (ModeSpec => Spec)
<1> SUFFICES ASSUME SemaphoreMode
             PROVE  ModeSpec => Spec
  OBVIOUS
<1>1. AppInit => Init /\ Inv
  BY InitKept
<1>2. Inv /\ [AppNext]_demoVars => [Next]_vars /\ Inv'
  BY ModeStep DEF Keeps
<1> QED BY <1>1, <1>2, PTL DEF ModeSpec, Spec

\* No call of consumerTask or producerTask is ever refused: whatever the timing, the
\* application never ends in osPortBlockingFault.
THEOREM HaltSafety == SemaphoreMode => (ModeSpec => []NoFailure)
<1> SUFFICES ASSUME SemaphoreMode
             PROVE  ModeSpec => []NoFailure
  OBVIOUS
<1>1. AppInit => Inv
  BY InitKept
<1>2. Inv /\ [AppNext]_demoVars => Inv'
  BY ModeStep DEF Keeps
<1>3. Inv => NoFailure
  <2> SUFFICES ASSUME Inv
               PROVE  NoFailure
    OBVIOUS
  <2>1. DOMAIN data = {"produced", "consumed"}
    BY DEF Inv, DataType
  <2> QED BY <2>1 DEF Inv, Standing, Alive, NoFault, NoFailure
<1> QED BY <1>1, <1>2, <1>3, PTL DEF ModeSpec

\* producerTask and consumerTask over the binary semaphore: no event is lost or counted
\* twice, unless the producer signals one while the last one is still stored.
THEOREM EventSafety == SemaphoreMode => (ModeSpec /\ []~Coalesces => []EventsKept)
<1> SUFFICES ASSUME SemaphoreMode
             PROVE  ModeSpec /\ []~Coalesces => []EventsKept
  OBVIOUS
<1>1. AppInit => Inv /\ Kept
  BY InitKept
<1>2. Inv /\ Kept /\ ~Coalesces /\ [AppNext]_demoVars => Inv' /\ Kept'
  BY ModeStep DEF Keeps
<1>3. Inv /\ Kept => EventsKept
  BY KeptMeansEventsKept
<1> QED BY <1>1, <1>2, <1>3, PTL DEF ModeSpec

\* What consumerTask prints: as long as the producer never counts an event before the
\* consumer waits for it, the two counters of every line are equal, and no event is lost.
THEOREM SampleSafety ==
  SemaphoreMode => (ModeSpec /\ []~Overtakes => [](SampleMatches /\ EventsKept))
<1> SUFFICES ASSUME SemaphoreMode
             PROVE  ModeSpec /\ []~Overtakes => [](SampleMatches /\ EventsKept)
  OBVIOUS
<1>1. AppInit => Inv /\ Kept /\ Prompt
  BY InitKept
<1>2. Prompt => ~Coalesces
  BY DEF Prompt, Coalesces, Accepted
<1>3. Inv /\ Kept /\ Prompt /\ ~Overtakes /\ [AppNext]_demoVars => Inv' /\ Kept' /\ Prompt'
  BY <1>2, ModeStep DEF Keeps
<1>4. Inv /\ Kept /\ Prompt => SampleMatches /\ EventsKept
  BY KeptMeansEventsKept, PromptMeansSampleMatches
<1> QED BY <1>1, <1>3, <1>4, PTL DEF ModeSpec
=============================================================================
