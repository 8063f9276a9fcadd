------------------------- MODULE CountingDemo_proof -------------------------
(***************************************************************************)
(* Proofs about mode 4 of Src/main.c, for every length of its delays and   *)
(* limits, every speed of the processor and of the UART, and every width   *)
(* of its counters that holds a burst.                                     *)
(***************************************************************************)
EXTENDS CountingDemo, Demo_proof

\* What main sets up in mode 4: two tasks beside the idle one, and an empty counting
\* semaphore with room for three tokens.
CountingMode ==
  /\ N = 3 /\ InitialCounts = {0}
  /\ countSem \in Sems \ BinSems /\ maxCount[countSem] = 3
  /\ {FIRST_TAKE_MS, BURST_MS, PAUSE_MS, 1} \subseteq Delays
  /\ CounterLimit \in Nat /\ CounterLimit > BURST

ModeSpec == AppInit /\ [][AppNext]_demoVars

\* The consumer has not come back from its first delay.
ConsumerAsleep == at[Consumer] = "top" \/ (at[Consumer] = "take" /\ pc[Consumer] # "run")

\* The producer is about to count a failure of time: the consumer woke up before the
\* burst was over, or has not drained the semaphore within the limit.
Late ==
  /\ Executes(Producer) /\ pc[Producer] = "run"
  /\ \/ at[Producer] = "burst" /\ data.i = BURST /\ ~ConsumerAsleep
     \/ at[Producer] = "drain" /\ ~Drained /\ Elapsed(data.start) >= DRAIN_MS
     \/ at[Producer] = "await" /\ ~Drained /\ Elapsed(data.start) >= HANDOFF_MS

(***************************************************************************)
(* The inductive invariants: Inv whatever the timing, and Timed as long as *)
(* nobody is late.                                                         *)
(***************************************************************************)
Counts == 0..(CounterLimit - 1)
DataType == [accepted : Counts, rejected : Counts, consumed : Counts, i : Nat,
             start : Time, failed : BOOLEAN]

BurstStatements == {"top", "burst", "count"}
DrainedStatements == {"drained", "pause", "give", "judge"}
Statements(t) ==
  IF t = Consumer THEN {"top", "take", "took"}
  ELSE BurstStatements \cup DrainedStatements
         \cup {"loop", "drain", "nap", "stuck", "gave", "given", "await", "doze", "print"}

CallBefore ==
  [t \in Tasks |-> [l \in Statements(t) |->
     IF l = "took" THEN "SEMAPHORE"
     ELSE IF l \in {"take", "burst", "drain", "give", "await"} THEN "DELAY" ELSE "NONE"]]

Taken == IF at[Consumer] = "took" /\ pc[Consumer] = "run" THEN 1 ELSE 0

Kept ==
  (data.accepted + Uncounted) % CounterLimit
    = (data.consumed + (credit[countSem] + Taken)) % CounterLimit

Inv == Standing(CallBefore, countSem) /\ data \in DataType /\ Kept

\* The burst fills the semaphore, and what finds it full is rejected.
InBurst ==
  /\ data.accepted + data.rejected = data.i /\ data.i <= BURST /\ ~data.failed
  /\ at[Producer] = "count" => data.i < BURST
  /\ ConsumerAsleep =>
       /\ data.consumed = 0 /\ waiters[countSem] = <<>>
       /\ data.accepted + Uncounted = value[countSem]
       /\ (data.rejected > 0 \/ (at[Producer] = "count" /\ ~gave[Producer])) =>
            value[countSem] = 3

\* Afterwards every token goes to a consumer that waits.
AfterBurst ==
  /\ data.rejected = 2 /\ ~data.failed
  /\ at[Producer] \in DrainedStatements => Drained
  /\ at[Producer] = "gave" => gave[Producer]

Timed == IF at[Producer] \in BurstStatements THEN InBurst ELSE AfterBurst

(***************************************************************************)
(* Lemmas.                                                                 *)
(***************************************************************************)

\* The two tasks of the mode and their statements.
LEMMA Members ==
  ASSUME CountingMode
  PROVE  /\ Tasks = {Consumer, Producer} /\ Consumer # Producer
         /\ CallTable(CallBefore) /\ countSem \in Sems
         /\ \A t \in Tasks : /\ DOMAIN CallBefore[t] = Statements(t)
                             /\ \A l \in Statements(t) :
                                  /\ CallBefore[t][l] = "SEMAPHORE" <=> l = "took"
                                  /\ l \in {"take", "burst", "drain", "give", "await"} =>
                                       CallBefore[t][l] = "DELAY"
<1>1. Tasks = {Consumer, Producer} /\ Consumer # Producer
  BY DEF CountingMode, Tasks, Threads, Idle, Consumer, Producer
<1>2. CallTable(CallBefore)
  BY DEF CallTable, CallBefore
<1> QED BY <1>1, <1>2 DEF CountingMode, CallBefore

\* What Inv says of the counters.
LEMMA InvFacts ==
  ASSUME CountingMode, Inv
  PROVE  /\ data.accepted \in Counts /\ data.rejected \in Counts /\ data.consumed \in Counts
         /\ data.accepted \in Nat /\ data.rejected \in Nat /\ data.consumed \in Nat
         /\ data.i \in Nat /\ data.failed \in BOOLEAN
         /\ CounterLimit \in Nat \ {0}
         /\ credit[countSem] \in Nat /\ value[countSem] \in Nat /\ value[countSem] <= 3
         /\ waiters[countSem] \in Seq(Threads)
         /\ Uncounted \in Nat /\ Taken \in Nat
         /\ \A t \in Tasks : at[t] \in Statements(t)
         /\ DOMAIN at = Tasks /\ gave \in [Tasks -> BOOLEAN]
<1>1. /\ credit[countSem] \in Nat /\ value[countSem] \in Nat
      /\ value[countSem] <= maxCount[countSem] /\ waiters[countSem] \in Seq(Threads)
  BY Members, SemaphoreFacts DEF Inv, Standing
<1>2. \A t \in Tasks : at[t] \in Statements(t)
  BY Members DEF Inv, Standing
<1> QED BY <1>1, <1>2 DEF CountingMode, Inv, Standing, DataType, Counts, BURST, Uncounted, Taken

\* Only the consumer queues, and while it does it executes nothing.
LEMMA ConsumerQueues ==
  ASSUME CountingMode, Inv, waiters[countSem] # <<>>
  PROVE  ~Executes(Consumer) /\ value[countSem] = 0
<1>1. Standing(CallBefore, countSem) /\ countSem \in Sems
  BY Members DEF Inv
<1>2. /\ value[countSem] = 0
      /\ \E t \in Tasks : CallBefore[t][at[t]] = "SEMAPHORE" /\ ~Executes(t)
  BY <1>1, SomebodyQueues
<1>3. PICK t \in Tasks : CallBefore[t][at[t]] = "SEMAPHORE" /\ ~Executes(t)
  BY <1>2
<1>4. at[t] \in Statements(t) /\ at[t] = "took"
  BY <1>3, InvFacts, Members
<1>5. t = Consumer
  BY <1>4 DEF Statements, BurstStatements, DrainedStatements
<1> QED BY <1>2, <1>3, <1>5

\* A step that moves no token and no count keeps the balance.
LEMMA KeptStays ==
  ASSUME Kept, data'.accepted + Uncounted' = data.accepted + Uncounted,
         data'.consumed + (credit'[countSem] + Taken')
           = data.consumed + (credit[countSem] + Taken)
  PROVE  Kept'
  BY DEF Kept

\* One more on both sides keeps it, too.
LEMMA KeptGrows ==
  ASSUME CountingMode, Inv, data'.accepted + Uncounted' = data.accepted + Uncounted + 1,
         data'.consumed + (credit'[countSem] + Taken')
           = data.consumed + (credit[countSem] + Taken) + 1
  PROVE  Kept'
<1> DEFINE x == data.accepted + Uncounted
           y == data.consumed + (credit[countSem] + Taken)
<1>1. x \in Nat /\ y \in Nat /\ CounterLimit \in Nat \ {0}
  <2>1. /\ data.accepted \in Nat /\ Uncounted \in Nat /\ data.consumed \in Nat
        /\ credit[countSem] \in Nat /\ Taken \in Nat /\ CounterLimit \in Nat \ {0}
    BY InvFacts
  <2> QED BY <2>1
<1>2. x % CounterLimit = y % CounterLimit
  BY DEF Inv, Kept
<1> HIDE DEF x, y
<1>3. /\ ((x % CounterLimit) + 1) % CounterLimit = (x + 1) % CounterLimit
      /\ ((y % CounterLimit) + 1) % CounterLimit = (y + 1) % CounterLimit
  BY <1>1, RemainderOfSum
<1>4. (x + 1) % CounterLimit = (y + 1) % CounterLimit
  BY <1>2, <1>3
<1> QED BY <1>4 DEF Kept, x, y

\* main: every counter is 0 and the semaphore is empty.
LEMMA InitKept ==
  ASSUME CountingMode, AppInit
  PROVE  Init /\ Inv /\ Timed
<1>1. /\ Init /\ at = [t \in Tasks |-> "top"] /\ gave = [t \in Tasks |-> FALSE]
      /\ data = [accepted |-> 0, rejected |-> 0, consumed |-> 0, i |-> 0, start |-> 0,
                 failed |-> FALSE]
  BY DEF AppInit, DemoInit
<1>2. IInv /\ TokenConservation
  BY <1>1, InitIInv, InitTokens
<1>3. 0 \in Counts /\ 0 % CounterLimit = 0 /\ 0 \in Time
  BY SignBitAssumption DEF CountingMode, Counts, BURST, Time
<1>4. data \in DataType
  BY <1>1, <1>3 DEF DataType
<1>5. \A t \in Tasks : pc[t] = "run" /\ at[t] \in DOMAIN CallBefore[t]
  BY <1>1, Members DEF Init, Tasks, Statements, BurstStatements
<1>6. Standing(CallBefore, countSem)
  BY <1>1, <1>2, <1>5 DEF Standing, InCallOf, Init, PortInit, Alive
<1>7. value[countSem] = 0 /\ waiters[countSem] = <<>>
  BY <1>1 DEF CountingMode, Init, SemaphoreInit, osCountSemInit, WaitInit, Objects
<1>8. credit[countSem] = 0
  BY <1>1, <1>7 DEF Init
<1>9. Uncounted = 0 /\ Taken = 0 /\ at[Producer] = "top"
  BY <1>1, Members DEF Uncounted, Taken
<1>10. Kept
  BY <1>1, <1>3, <1>8, <1>9 DEF Kept
<1>11. Timed
  BY <1>1, <1>7, <1>9 DEF Timed, BurstStatements, InBurst, BURST
<1> QED BY <1>1, <1>4, <1>6, <1>10, <1>11 DEF Inv

(***************************************************************************)
(* Steps.                                                                  *)
(***************************************************************************)

\* The first step of a call of either task.
LEMMA CallStep ==
  ASSUME CountingMode, Inv, NEW t \in Tasks, NEW l, NEW next \in Statements(t),
         NEW c \in ContextCalls, NEW a \in Arguments(c), Calls(t, l, c, a, next),
         CallBefore[t][next] = c, c = "SEMAPHORE" => a = countSem,
         l \notin {"took", "count", "gave"}, next \notin {"count", "gave"}
  PROVE  /\ Inv' /\ [Next]_vars /\ UNCHANGED <<data, gave>> /\ Left(countSem)
         /\ Executes(t) /\ pc[t] = "run" /\ at[t] = l /\ at'[t] = next /\ pc'[t] = "checked"
         /\ \A u \in Tasks \ {t} : at'[u] = at[u] /\ pc'[u] = pc[u]
<1>1. next \in DOMAIN CallBefore[t]
  BY Members
<1>2. /\ Standing(CallBefore, countSem)' /\ [Next]_vars
      /\ UNCHANGED <<value, credit, waiters, data, gave>>
      /\ Executes(t) /\ pc[t] = "run" /\ at[t] = l /\ at' = [at EXCEPT ![t] = next]
      /\ pc'[t] = "checked" /\ \A u \in Tasks \ {t} : pc'[u] = pc[u]
  <2>1. Standing(CallBefore, countSem) /\ countSem \in Sems
    BY Members DEF Inv
  <2>2. CallBegun(CallBefore, countSem, t, l, next)
    BY <1>1, <2>1, CallBegins
  <2> QED BY <2>2 DEF CallBegun
<1>3. at'[t] = next /\ \A u \in Tasks \ {t} : at'[u] = at[u]
  BY <1>2, InvFacts
<1>4. UNCHANGED <<Uncounted, Taken>>
  BY <1>2, <1>3, Members DEF Uncounted, Taken
<1>5. Kept'
  BY <1>2, <1>4 DEF Inv, Kept
<1> QED BY <1>2, <1>3, <1>5 DEF Inv, Left

\* Statements of the producer that neither count nor give.
LEMMA OwnStep ==
  ASSUME CountingMode, Inv, NEW l, NEW next \in Statements(Producer),
         Does(Producer, l, next) \/ Prints(Producer, l, next),
         l \notin {"count", "gave"}, next \notin {"count", "gave"},
         data' \in DataType, data'.accepted = data.accepted, data'.consumed = data.consumed
  PROVE  /\ Inv' /\ [Next]_vars /\ UNCHANGED <<pc, gave>> /\ Left(countSem)
         /\ Executes(Producer) /\ pc[Producer] = "run"
         /\ at[Producer] = l /\ at'[Producer] = next /\ at'[Consumer] = at[Consumer]
<1>1. next \in DOMAIN CallBefore[Producer] /\ Producer \in Tasks
  BY Members
<1>2. /\ Standing(CallBefore, countSem)' /\ [Next]_vars
      /\ UNCHANGED <<value, credit, waiters, pc, gave>>
      /\ Executes(Producer) /\ pc[Producer] = "run"
      /\ at[Producer] = l /\ at' = [at EXCEPT ![Producer] = next]
  BY <1>1, Members, OwnCode DEF Inv
<1>3. at'[Producer] = next /\ at'[Consumer] = at[Consumer]
  BY <1>2, InvFacts, Members
<1>4. UNCHANGED <<Uncounted, Taken>>
  BY <1>2, <1>3 DEF Uncounted, Taken
<1>5. Kept'
  BY <1>2, <1>4 DEF Inv, Kept
<1> QED BY <1>2, <1>3, <1>5 DEF Inv, Left

\* A Give of the producer, which it counts in the next statement.
TokenAnswered(l, next) ==
  /\ Inv' /\ [Next]_vars /\ UNCHANGED <<pc, data>>
  /\ at[Producer] = l /\ at'[Producer] = next /\ at'[Consumer] = at[Consumer]
  /\ Uncounted = 0 /\ Uncounted' = IF gave'[Producer] THEN 1 ELSE 0
  /\ \/ gave'[Producer] = TRUE /\ (Stored(countSem) \/ HandedOver(countSem))
     \/ /\ gave'[Producer] = FALSE
        /\ waiters[countSem] = <<>> /\ value[countSem] = 3 /\ Left(countSem)

LEMMA TokenGiven ==
  ASSUME CountingMode, Inv, NEW l, NEW next \in {"count", "gave"},
         Gives(Producer, l, countSem, next), l \notin {"count", "gave"}
  PROVE  TokenAnswered(l, next)
<1>1. next \in DOMAIN CallBefore[Producer] /\ Producer \in Tasks
  BY Members DEF Statements, BurstStatements
<1>2. /\ Standing(CallBefore, countSem)' /\ [Next]_vars /\ UNCHANGED <<pc, data>>
      /\ Executes(Producer) /\ pc[Producer] = "run"
      /\ at[Producer] = l /\ at' = [at EXCEPT ![Producer] = next]
      /\ \/ gave'[Producer] = TRUE /\ (Stored(countSem) \/ HandedOver(countSem))
         \/ /\ gave'[Producer] = FALSE
            /\ waiters[countSem] = <<>> /\ value[countSem] = maxCount[countSem]
            /\ Left(countSem)
  <2>1. Standing(CallBefore, countSem) /\ countSem \in Sems
    BY Members DEF Inv
  <2>2. GiveAnswered(CallBefore, countSem, Producer, l, next)
    BY <1>1, <2>1, GiveIsAnswered
  <2> QED BY <2>2 DEF GiveAnswered
<1>3. at'[Producer] = next /\ at'[Consumer] = at[Consumer]
  BY <1>2, InvFacts, Members
<1>4. /\ Uncounted = 0 /\ Uncounted' = IF gave'[Producer] THEN 1 ELSE 0
      /\ Taken' = Taken
  BY <1>2, <1>3 DEF Uncounted, Taken
<1>5. Kept'
  <2>1. /\ data.accepted \in Nat /\ data.consumed \in Nat
        /\ credit[countSem] \in Nat /\ Taken \in Nat
    BY InvFacts
  <2>2. CASE gave'[Producer]
    <3>1. credit'[countSem] = credit[countSem] + 1
      BY <1>2, <2>2 DEF Stored, HandedOver
    <3>2. /\ data'.accepted + Uncounted' = data.accepted + Uncounted + 1
          /\ data'.consumed + (credit'[countSem] + Taken')
               = data.consumed + (credit[countSem] + Taken) + 1
      BY <1>2, <1>4, <2>1, <2>2, <3>1
    <3> QED BY <3>2, KeptGrows
  <2>3. CASE ~gave'[Producer]
    <3>1. credit'[countSem] = credit[countSem]
      BY <1>2, <2>3 DEF Left
    <3> QED BY <1>2, <1>4, <2>3, <3>1, KeptStays DEF Inv
  <2> QED BY <2>2, <2>3
<1>6. maxCount[countSem] = 3
  BY DEF CountingMode
<1>7. Inv'
  BY <1>2, <1>5 DEF Inv
<1> QED BY <1>2, <1>3, <1>4, <1>6, <1>7 DEF TokenAnswered

\* The statement that counts what the Give before it returned.
LEMMA TokenCounted ==
  ASSUME CountingMode, Inv, NEW l \in {"count", "gave"},
         NEW next \in Statements(Producer) \ {"count", "gave"},
         Does(Producer, l, next), NEW n \in Nat, data' = [Counted(Producer) EXCEPT !.i = n]
  PROVE  /\ Inv' /\ [Next]_vars /\ UNCHANGED <<pc, gave>> /\ Left(countSem)
         /\ at[Producer] = l /\ at'[Producer] = next /\ at'[Consumer] = at[Consumer]
         /\ Uncounted = (IF gave[Producer] THEN 1 ELSE 0) /\ Uncounted' = 0
         /\ data'.consumed = data.consumed /\ data'.failed = data.failed
         /\ data'.i = n
         /\ data'.accepted = IF gave[Producer] THEN Up(data.accepted) ELSE data.accepted
         /\ data'.rejected = IF gave[Producer] THEN data.rejected ELSE Up(data.rejected)
<1>1. next \in DOMAIN CallBefore[Producer] /\ Producer \in Tasks
  BY Members
<1>2. /\ Standing(CallBefore, countSem)' /\ [Next]_vars
      /\ UNCHANGED <<value, credit, waiters, pc, gave>>
      /\ at[Producer] = l /\ at' = [at EXCEPT ![Producer] = next]
  BY <1>1, Members, OwnCode DEF Inv
<1>3. at'[Producer] = next /\ at'[Consumer] = at[Consumer]
  BY <1>2, InvFacts, Members
<1>4. /\ Uncounted = (IF gave[Producer] THEN 1 ELSE 0) /\ Uncounted' = 0
      /\ Taken' = Taken
  BY <1>2, <1>3 DEF Uncounted, Taken
<1>5. /\ data \in DataType /\ data.accepted \in Nat /\ data.rejected \in Nat
      /\ data.consumed \in Nat /\ CounterLimit \in Nat \ {0}
  BY InvFacts DEF Inv
<1>6. Up(data.accepted) \in Counts /\ Up(data.rejected) \in Counts
  BY <1>5, UpFacts DEF Counts
<1>7. /\ data' \in DataType
      /\ data'.consumed = data.consumed /\ data'.failed = data.failed /\ data'.i = n
      /\ data'.accepted = IF gave[Producer] THEN Up(data.accepted) ELSE data.accepted
      /\ data'.rejected = IF gave[Producer] THEN data.rejected ELSE Up(data.rejected)
  BY <1>5, <1>6 DEF DataType, Counted
<1>8. Kept'
  <2>1. CASE gave[Producer]
    <3>1. (Up(data.accepted) + 0) % CounterLimit = (data.accepted + 1 + 0) % CounterLimit
      BY <1>5, UpFacts
    <3>2. data.accepted + Uncounted = data.accepted + 1 + 0
      BY <1>4, <1>5, <2>1
    <3>3. data'.accepted + Uncounted' = Up(data.accepted) + 0
      BY <1>4, <1>7, <2>1
    <3> QED BY <1>2, <1>4, <1>7, <3>1, <3>2, <3>3 DEF Inv, Kept
  <2>2. CASE ~gave[Producer]
    BY <1>2, <1>4, <1>7, <2>2, KeptStays DEF Inv
  <2> QED BY <2>1, <2>2
<1> QED BY <1>2, <1>3, <1>4, <1>7, <1>8 DEF Inv, Left

(***************************************************************************)
(* The steps of the mode keep Inv, and Timed if nobody is late.            *)
(***************************************************************************)
Keeps == Inv' /\ [Next]_vars /\ (Timed /\ ~Late => Timed')

\* While the consumer executes nothing is drained: nobody waits.
LEMMA NobodyWaits ==
  ASSUME CountingMode, Inv, Executes(Consumer)
  PROVE  waiters[countSem] = <<>> /\ ~Drained
<1>1. waiters[countSem] = <<>>
  BY ConsumerQueues
<1> QED BY <1>1 DEF Drained, countingWaiters

\* When everything is drained the consumer waits in the queue.
LEMMA SomebodyWaits ==
  ASSUME CountingMode, Inv, Drained
  PROVE  waiters[countSem] # <<>> /\ value[countSem] = 0
<1>1. waiters[countSem] # <<>>
  BY DEF Drained, countingWaiters
<1> QED BY <1>1, ConsumerQueues

\* Timed outlives a step that is not the producer's.
LEMMA TimedStays ==
  ASSUME CountingMode, Inv, Timed, at'[Producer] = at[Producer], UNCHANGED gave,
         data'.accepted = data.accepted, data'.rejected = data.rejected,
         data'.i = data.i, data'.failed = data.failed,
         Drained => Drained',
         ConsumerAsleep' => /\ ConsumerAsleep /\ data'.consumed = data.consumed
                            /\ Left(countSem)
  PROVE  Timed'
<1>1. Uncounted' = Uncounted
  BY DEF Uncounted
<1>2. CASE at[Producer] \in BurstStatements
  <2>1. InBurst
    BY <1>2 DEF Timed
  <2>2. /\ (data.accepted + data.rejected = data.i /\ data.i <= BURST /\ ~data.failed)'
        /\ (at[Producer] = "count" => data.i < BURST)'
    BY <2>1 DEF InBurst
  <2>3. InBurst'
    BY <1>1, <2>1, <2>2 DEF InBurst, Left
  <2> QED BY <1>2, <2>3 DEF Timed
<1>3. CASE at[Producer] \notin BurstStatements
  <2>1. AfterBurst
    BY <1>3 DEF Timed
  <2>2. AfterBurst'
    BY <2>1 DEF AfterBurst
  <2> QED BY <1>3, <2>2 DEF Timed
<1> QED BY <1>2, <1>3

\* The consumer takes and counts.
LEMMA ConsumerStep ==
  ASSUME CountingMode, Inv, countingConsumer(Consumer)
  PROVE  Keeps
<1> DEFINE t == Consumer
<1>1. t \in Tasks /\ Producer \in Tasks /\ Producer \in Tasks \ {t}
  BY Members
<1>2. CASE Calls(t, "top", "DELAY", FIRST_TAKE_MS, "take")
  <2>1. /\ "take" \in Statements(t) /\ "DELAY" \in ContextCalls
        /\ FIRST_TAKE_MS \in Arguments("DELAY") /\ CallBefore[t]["take"] = "DELAY"
    BY <1>1, Members DEF Statements, ContextCalls, CountingMode, Arguments
  <2>2. /\ Inv' /\ [Next]_vars /\ UNCHANGED <<data, gave>> /\ Left(countSem)
        /\ Executes(t) /\ at[t] = "top" /\ at'[Producer] = at[Producer]
    BY <1>1, <1>2, <2>1, CallStep
  <2>3. Timed => Timed'
    BY <2>2, NobodyWaits, TimedStays DEF ConsumerAsleep
  <2> QED BY <2>2, <2>3 DEF Keeps
<1>3. CASE Calls(t, "take", "SEMAPHORE", countSem, "took")
  <2>1. /\ "took" \in Statements(t) /\ "SEMAPHORE" \in ContextCalls
        /\ countSem \in Arguments("SEMAPHORE") /\ CallBefore[t]["took"] = "SEMAPHORE"
    BY <1>1, Members DEF Statements, ContextCalls, Arguments
  <2>2. /\ Inv' /\ [Next]_vars /\ UNCHANGED <<data, gave>>
        /\ Executes(t) /\ at'[t] = "took" /\ at'[Producer] = at[Producer]
    BY <1>1, <1>3, <2>1, CallStep
  <2>3. Timed => Timed'
    BY <2>2, NobodyWaits, TimedStays DEF ConsumerAsleep
  <2> QED BY <2>2, <2>3 DEF Keeps
<1>4. CASE Does(t, "took", "take") /\ data' = [data EXCEPT !.consumed = Up(@)]
  <2>1. "take" \in DOMAIN CallBefore[t] /\ Standing(CallBefore, countSem) /\ countSem \in Sems
    BY <1>1, Members DEF Inv, Statements
  <2>2. /\ Standing(CallBefore, countSem)' /\ [Next]_vars
        /\ UNCHANGED <<value, credit, waiters, pc, gave>>
        /\ Executes(t) /\ pc[t] = "run" /\ at[t] = "took" /\ at' = [at EXCEPT ![t] = "take"]
    BY <1>1, <1>4, <2>1, OwnCode
  <2>3. at'[t] = "take" /\ at'[Producer] = at[Producer]
    BY <1>1, <2>2, InvFacts
  <2>4. /\ data \in DataType /\ data.consumed \in Nat /\ CounterLimit \in Nat \ {0}
        /\ credit[countSem] \in Nat
    BY InvFacts DEF Inv
  <2>5. Up(data.consumed) \in Counts /\ Up(data.consumed) \in Nat
    <3>1. Up(data.consumed) \in Counts
      BY <2>4, UpFacts DEF Counts
    <3> QED BY <2>4, <3>1 DEF Counts
  <2>6. /\ data' \in DataType /\ data'.consumed = Up(data.consumed)
        /\ data'.accepted = data.accepted /\ data'.rejected = data.rejected
        /\ data'.i = data.i /\ data'.failed = data.failed
    BY <1>4, <2>4, <2>5 DEF DataType
  <2>7. Taken = 1 /\ Taken' = 0 /\ Uncounted' = Uncounted /\ credit' = credit
    BY <2>2, <2>3 DEF Taken, Uncounted
  <2>8. Kept'
    <3> DEFINE k == credit[countSem]
    <3>1. (Up(data.consumed) + k) % CounterLimit = (data.consumed + 1 + k) % CounterLimit
      BY <2>4, UpFacts
    <3>2. data.consumed + (credit[countSem] + Taken) = data.consumed + 1 + k
      BY <2>4, <2>7
    <3>3. data'.consumed + (credit'[countSem] + Taken') = Up(data.consumed) + k
      BY <2>4, <2>5, <2>6, <2>7
    <3> QED BY <2>6, <2>7, <3>1, <3>2, <3>3 DEF Inv, Kept
  <2>9. ~ConsumerAsleep'
    BY <2>2, <2>3 DEF ConsumerAsleep
  <2>10. Timed => Timed'
    BY <2>2, <2>3, <2>6, <2>9, NobodyWaits, TimedStays
  <2> QED BY <2>2, <2>6, <2>8, <2>10 DEF Inv, Keeps
<1> QED BY <1>2, <1>3, <1>4 DEF countingConsumer

\* The rest of a call: a Take that returns brings a token.
LEMMA InCallStep ==
  ASSUME CountingMode, Inv, NEW t \in Tasks, InCalls(t)
  PROVE  Keeps
<1>1. Standing(CallBefore, countSem) /\ countSem \in Sems /\ CallTable(CallBefore)
  BY Members DEF Inv
<1>2. CallGone(CallBefore, countSem, t)
  BY <1>1, CallGoesOn
<1>3. /\ Standing(CallBefore, countSem)' /\ [Next]_vars /\ UNCHANGED <<at, data, gave>>
      /\ Executes(t) /\ pc[t] # "run" /\ \A u \in Tasks \ {t} : pc'[u] = pc[u]
      /\ \/ CallBefore[t][at[t]] = "DELAY" /\ Left(countSem)
         \/ /\ CallBefore[t][at[t]] = "SEMAPHORE" /\ pc'[t] = "resume"
            /\ Blocked(countSem, t)
         \/ /\ CallBefore[t][at[t]] = "SEMAPHORE" /\ pc'[t] = "run"
            /\ (TakenAtOnce(countSem) \/ Resumed(countSem))
  BY <1>2 DEF CallGone
<1>4. at[t] \in Statements(t) /\ (CallBefore[t][at[t]] = "SEMAPHORE" <=> at[t] = "took")
  BY InvFacts, Members
<1>5. Uncounted' = Uncounted
  BY <1>3 DEF Uncounted
<1>6. CASE CallBefore[t][at[t]] = "DELAY"
  <2>1. Left(countSem) /\ at[t] # "took"
    BY <1>3, <1>4, <1>6
  <2>2. Taken' = Taken
    BY <1>3, <2>1, Members DEF Taken
  <2>3. Kept'
    BY <1>3, <1>5, <2>1, <2>2 DEF Inv, Kept, Left
  <2>4. Drained => Drained'
    BY <1>3, <2>1 DEF Drained, countingWaiters, Left
  <2>5. ConsumerAsleep' => ConsumerAsleep
    BY <1>3, Members DEF ConsumerAsleep
  <2>6. Timed => Timed'
    BY <1>3, <2>1, <2>4, <2>5, TimedStays
  <2> QED BY <1>3, <2>3, <2>6 DEF Inv, Keeps
<1>7. CASE CallBefore[t][at[t]] = "SEMAPHORE"
  <2>1. t = Consumer /\ at[t] = "took"
    BY <1>4, <1>7, Members DEF Statements, BurstStatements, DrainedStatements
  <2>2. Taken = 0 /\ credit[countSem] \in Nat /\ data.consumed \in Nat
    BY <1>3, <2>1, InvFacts DEF Taken
  <2>3. CASE pc'[t] = "resume" /\ Blocked(countSem, t)
    <3>1. Taken' = 0 /\ credit'[countSem] = credit[countSem]
      BY <1>3, <2>1, <2>3 DEF Taken, Blocked
    <3> QED BY <1>3, <1>5, <2>2, <3>1, KeptStays, <2>1, NobodyWaits, TimedStays
            DEF Inv, Keeps, ConsumerAsleep
  <2>4. CASE pc'[t] = "run" /\ (TakenAtOnce(countSem) \/ Resumed(countSem))
    <3>1. Taken' = 1 /\ credit'[countSem] = credit[countSem] - 1
      BY <1>3, <2>1, <2>4 DEF Taken, TakenAtOnce, Resumed
    <3>2. data'.consumed + (credit'[countSem] + Taken')
            = data.consumed + (credit[countSem] + Taken)
      BY <1>3, <2>2, <3>1
    <3> QED BY <1>3, <1>5, <3>2, KeptStays, <2>1, NobodyWaits, TimedStays
            DEF Inv, Keeps, ConsumerAsleep
  <2> QED BY <1>3, <1>7, <2>3, <2>4
<1> QED BY <1>3, <1>6, <1>7


\* The burst: what the semaphore has no room for is rejected.
LEMMA BurstStep ==
  ASSUME CountingMode, Inv, Burst(Producer)
  PROVE  Keeps
<1> DEFINE t == Producer
<1>1. t \in Tasks /\ Consumer \in Tasks /\ Consumer \in Tasks \ {t} /\ CounterLimit > BURST
  BY Members DEF CountingMode
<1>2. /\ data \in DataType /\ data.accepted \in Nat /\ data.rejected \in Nat
      /\ data.consumed \in Nat /\ data.i \in Nat /\ data.failed \in BOOLEAN
      /\ value[countSem] \in Nat /\ value[countSem] <= 3 /\ CounterLimit \in Nat
  BY InvFacts DEF Inv
<1>3. CASE Calls(t, "top", "DELAY", BURST_MS, "burst")
  <2>1. /\ "burst" \in Statements(t) /\ "DELAY" \in ContextCalls
        /\ BURST_MS \in Arguments("DELAY") /\ CallBefore[t]["burst"] = "DELAY"
    <3>1. "burst" \in Statements(t)
      BY Members DEF Statements, BurstStatements
    <3> QED BY <1>1, <3>1, Members DEF ContextCalls, CountingMode, Arguments
  <2>2. /\ Inv' /\ [Next]_vars /\ UNCHANGED <<data, gave>> /\ Left(countSem)
        /\ at[t] = "top" /\ at'[t] = "burst"
        /\ at'[Consumer] = at[Consumer] /\ pc'[Consumer] = pc[Consumer]
    BY <1>1, <1>3, <2>1, CallStep
  <2>3. ConsumerAsleep' = ConsumerAsleep /\ Uncounted = 0 /\ Uncounted' = 0
    BY <2>2 DEF ConsumerAsleep, Uncounted
  <2>4. Timed => Timed'
    BY <2>2, <2>3 DEF Timed, BurstStatements, InBurst, Left
  <2> QED BY <2>2, <2>4 DEF Keeps
<1>4. CASE data.i < BURST /\ Gives(t, "burst", countSem, "count")
  <2>1. /\ Inv' /\ [Next]_vars /\ UNCHANGED <<pc, data>>
        /\ at[t] = "burst" /\ at'[t] = "count" /\ at'[Consumer] = at[Consumer]
        /\ Uncounted = 0 /\ Uncounted' = IF gave'[t] THEN 1 ELSE 0
        /\ \/ gave'[t] = TRUE /\ (Stored(countSem) \/ HandedOver(countSem))
           \/ /\ gave'[t] = FALSE
              /\ waiters[countSem] = <<>> /\ value[countSem] = 3 /\ Left(countSem)
    <3>1. TokenAnswered("burst", "count")
      BY <1>4, TokenGiven
    <3> QED BY <3>1 DEF TokenAnswered
  <2>2. ConsumerAsleep' <=> ConsumerAsleep
    <3>1. at'[Consumer] = at[Consumer] /\ pc'[Consumer] = pc[Consumer]
      BY <2>1
    <3> QED BY <3>1 DEF ConsumerAsleep
  <2>3. ASSUME Timed
        PROVE  InBurst'
    <3>1. InBurst
      BY <2>1, <2>3 DEF Timed, BurstStatements
    <3>2. /\ (data.accepted + data.rejected = data.i /\ data.i <= BURST /\ ~data.failed)'
          /\ (at[t] = "count" => data.i < BURST)'
      BY <1>4, <2>1, <3>1 DEF InBurst
    <3>3. ASSUME ConsumerAsleep'
          PROVE  /\ (data.consumed = 0 /\ waiters[countSem] = <<>>)'
                 /\ (data.accepted + Uncounted = value[countSem])'
                 /\ ((data.rejected > 0 \/ (at[t] = "count" /\ ~gave[t])) =>
                       value[countSem] = 3)'
      <4>1. /\ data.consumed = 0 /\ waiters[countSem] = <<>>
            /\ data.accepted = value[countSem]
            /\ data.rejected > 0 => value[countSem] = 3
        BY <1>2, <2>1, <2>2, <3>1, <3>3 DEF InBurst
      <4>2. CASE gave'[t] = TRUE /\ Stored(countSem)
        BY <1>2, <2>1, <4>1, <4>2 DEF Stored, CountingMode
      <4>3. CASE gave'[t] = TRUE /\ HandedOver(countSem)
        BY <4>1, <4>3 DEF HandedOver
      <4>4. CASE gave'[t] = FALSE /\ value[countSem] = 3 /\ Left(countSem)
        BY <1>2, <2>1, <4>1, <4>4 DEF Left
      <4> QED BY <2>1, <4>2, <4>3, <4>4
    <3> QED BY <3>2, <3>3 DEF InBurst
  <2>4. Timed => Timed'
    BY <2>1, <2>3 DEF Timed, BurstStatements
  <2> QED BY <2>1, <2>4 DEF Keeps
<1>5. CASE Does(t, "count", "burst") /\ data' = [Counted(t) EXCEPT !.i = @ + 1]
  <2>1. data' = [Counted(t) EXCEPT !.i = data.i + 1] /\ data.i + 1 \in Nat
    BY <1>2, <1>5 DEF Counted, DataType
  <2>2. /\ Inv' /\ [Next]_vars /\ UNCHANGED <<pc, gave>> /\ Left(countSem)
        /\ at[t] = "count" /\ at'[t] = "burst" /\ at'[Consumer] = at[Consumer]
        /\ Uncounted = (IF gave[t] THEN 1 ELSE 0) /\ Uncounted' = 0
        /\ data'.consumed = data.consumed /\ data'.failed = data.failed
        /\ data'.i = data.i + 1
        /\ data'.accepted = IF gave[t] THEN Up(data.accepted) ELSE data.accepted
        /\ data'.rejected = IF gave[t] THEN data.rejected ELSE Up(data.rejected)
    <3>1. "burst" \in Statements(t) \ {"count", "gave"}
      BY Members DEF Statements, BurstStatements
    <3> QED BY <1>5, <2>1, <3>1, TokenCounted
  <2>3. ConsumerAsleep' = ConsumerAsleep
    BY <2>2 DEF ConsumerAsleep
  <2>4. ASSUME Timed
        PROVE  InBurst'
    <3>1. InBurst
      BY <2>2, <2>4 DEF Timed, BurstStatements
    <3>2. /\ data.accepted + data.rejected = data.i /\ data.i < BURST /\ BURST = 5
          /\ ~data.failed
      BY <2>2, <3>1 DEF InBurst, BURST
    <3>3. Up(data.accepted) = data.accepted + 1 /\ Up(data.rejected) = data.rejected + 1
      <4>1. ASSUME NEW n \in Nat, n < BURST
            PROVE  Up(n) = n + 1
        BY <1>1, <1>2, <3>2, <4>1, Remainder DEF Up
      <4> QED BY <1>2, <3>2, <4>1
    <3>4. /\ (data.accepted + data.rejected = data.i /\ data.i <= BURST /\ ~data.failed)'
          /\ (at[t] = "count" => data.i < BURST)'
      BY <1>2, <2>2, <3>2, <3>3 DEF BURST
    <3>5. ASSUME ConsumerAsleep'
          PROVE  /\ (data.consumed = 0 /\ waiters[countSem] = <<>>)'
                 /\ (data.accepted + Uncounted = value[countSem])'
                 /\ ((data.rejected > 0 \/ (at[t] = "count" /\ ~gave[t])) =>
                       value[countSem] = 3)'
      BY <1>2, <2>2, <2>3, <3>1, <3>3, <3>5 DEF InBurst, Left
    <3> QED BY <3>4, <3>5 DEF InBurst
  <2>5. Timed => Timed'
    BY <2>2, <2>4 DEF Timed, BurstStatements
  <2> QED BY <2>2, <2>5 DEF Keeps
<1>6. CASE /\ data.i = BURST
           /\ Checks(t, "burst", /\ data.accepted = 3 /\ data.rejected = 2
                                 /\ data.consumed = 0 /\ value[countSem] = 3, "print")
  <2>1. "print" \in Statements(t) /\ Does(t, "burst", "print")
    BY <1>6, Members DEF Statements, Checks
  <2>2. /\ data' \in DataType /\ data'.accepted = data.accepted
        /\ data'.consumed = data.consumed /\ data'.rejected = data.rejected
        /\ data'.failed = (data.failed \/ ~(/\ data.accepted = 3 /\ data.rejected = 2
                                            /\ data.consumed = 0 /\ value[countSem] = 3))
    BY <1>2, <1>6 DEF Checks, DataType
  <2>3. /\ Inv' /\ [Next]_vars /\ Executes(t) /\ pc[t] = "run"
        /\ at[t] = "burst" /\ at'[t] = "print"
    BY <2>1, <2>2, OwnStep
  <2>4. ASSUME Timed, ~Late
        PROVE  AfterBurst'
    <3>1. InBurst /\ ConsumerAsleep
      BY <1>6, <2>3, <2>4 DEF Timed, BurstStatements, Late
    <3>2. /\ data.accepted + data.rejected = 5 /\ data.consumed = 0 /\ ~data.failed
          /\ data.accepted = value[countSem] /\ (data.rejected > 0 => value[countSem] = 3)
      BY <1>2, <1>6, <2>3, <3>1 DEF InBurst, Uncounted, BURST
    <3>3. data.accepted = 3 /\ data.rejected = 2 /\ value[countSem] = 3
      BY <1>2, <3>2
    <3> QED BY <2>2, <2>3, <3>2, <3>3 DEF AfterBurst, DrainedStatements
  <2>5. Timed /\ ~Late => Timed'
    BY <2>3, <2>4 DEF Timed, BurstStatements
  <2> QED BY <2>3, <2>5 DEF Keeps
<1> QED BY <1>3, <1>4, <1>5, <1>6 DEF Burst


\* A statement of the loop that neither counts nor gives keeps what follows the burst.
LEMMA HandoffOwn ==
  ASSUME CountingMode, Inv, NEW l, NEW next \in Statements(Producer),
         Does(Producer, l, next) \/ Prints(Producer, l, next),
         l \notin {"count", "gave"}, next \notin {"count", "gave"},
         l \notin BurstStatements, next \notin BurstStatements,
         data' \in DataType, data'.accepted = data.accepted, data'.consumed = data.consumed,
         data'.rejected = data.rejected,
         Timed /\ ~Late => data'.failed = data.failed,
         Timed /\ ~Late /\ next \in DrainedStatements => Drained
  PROVE  Keeps
<1>1. /\ Inv' /\ [Next]_vars /\ Left(countSem)
      /\ at[Producer] = l /\ at'[Producer] = next
  BY OwnStep
<1>2. ASSUME Timed, ~Late
      PROVE  AfterBurst'
  <2>1. AfterBurst
    BY <1>1, <1>2 DEF Timed
  <2>2. Drained => Drained'
    BY <1>1 DEF Drained, countingWaiters, Left
  <2> QED BY <1>1, <1>2, <2>1, <2>2 DEF AfterBurst
<1>3. Timed /\ ~Late => Timed'
  BY <1>1, <1>2 DEF Timed
<1> QED BY <1>1, <1>3 DEF Keeps

\* So does the first step of a sleep.
LEMMA HandoffSleep ==
  ASSUME CountingMode, Inv, NEW l, NEW next \in {"drain", "give", "await"},
         NEW a \in Delays, Calls(Producer, l, "DELAY", a, next),
         l \notin {"took", "count", "gave"}, l \notin BurstStatements,
         next \in DrainedStatements => l \in DrainedStatements
  PROVE  Keeps
<1>1. /\ Producer \in Tasks /\ next \in Statements(Producer)
      /\ "DELAY" \in ContextCalls /\ a \in Arguments("DELAY")
      /\ CallBefore[Producer][next] = "DELAY"
      /\ next \notin {"count", "gave"} /\ next \notin BurstStatements
  <2>1. next \in Statements(Producer) /\ next \notin BurstStatements
    BY Members DEF Statements, DrainedStatements, BurstStatements
  <2> QED BY <2>1, Members DEF ContextCalls, Arguments
<1>2. /\ Inv' /\ [Next]_vars /\ UNCHANGED <<data, gave>> /\ Left(countSem)
      /\ at[Producer] = l /\ at'[Producer] = next
  BY <1>1, CallStep
<1>3. ASSUME Timed
      PROVE  AfterBurst'
  <2>1. AfterBurst
    BY <1>2, <1>3 DEF Timed
  <2>2. Drained => Drained'
    BY <1>2 DEF Drained, countingWaiters, Left
  <2> QED BY <1>1, <1>2, <2>1, <2>2 DEF AfterBurst
<1>4. Timed => Timed'
  BY <1>1, <1>2, <1>3 DEF Timed
<1> QED BY <1>2, <1>4 DEF Keeps

\* The loop behind the burst: each token goes to the consumer, which waits for it.
LEMMA LoopStep ==
  ASSUME CountingMode, Inv, Handoff(Producer)
  PROVE  Keeps
<1> DEFINE t == Producer
<1>1. /\ {"loop", "drain", "nap", "stuck", "gave", "given", "await", "doze", "print",
          "drained", "pause", "give", "judge"} \subseteq Statements(t)
      /\ 1 \in Delays /\ PAUSE_MS \in Delays
  BY Members DEF Statements, DrainedStatements, CountingMode
<1>2. /\ data \in DataType /\ data.accepted \in Nat /\ data.rejected \in Nat
      /\ data.consumed \in Nat /\ data.i \in Nat /\ data.failed \in BOOLEAN
      /\ osTimeMs \in Time
  BY InvFacts DEF Inv, Standing, IInv, TypeOK, KernelTypeOK
<1>3. ASSUME NEW l \in {"loop", "given"}, NEW next \in {"drain", "await"},
             StartsClock(t, l, next)
      PROVE  Keeps
  <2>1. /\ data' \in DataType /\ data'.accepted = data.accepted
        /\ data'.consumed = data.consumed /\ data'.rejected = data.rejected
        /\ data'.failed = data.failed /\ Does(t, l, next)
    BY <1>2, <1>3 DEF StartsClock, DataType
  <2> QED BY <1>1, <2>1, HandoffOwn DEF BurstStatements, DrainedStatements
<1>4. ASSUME NEW l \in {"drain", "await"}, NEW ms, NEW nap \in {"nap", "doze"},
             NEW next \in {"drained", "judge"},
             l = "drain" => ms = DRAIN_MS, l = "await" => ms = HANDOFF_MS,
             Waits(t, l, Drained, ms, nap, next)
      PROVE  Keeps
  <2> DEFINE n == IF Drained \/ Elapsed(data.start) >= ms THEN next ELSE nap
  <2>1. Does(t, l, n) /\ UNCHANGED data
    BY <1>4 DEF Waits
  <2>2. n \in {"nap", "doze", "drained", "judge"}
    OBVIOUS
  <2>3. ~Late /\ n \in DrainedStatements => Drained
    <3>1. at[t] = l /\ Executes(t) /\ pc[t] = "run"
      BY <2>1 DEF Does
    <3>2. n \in DrainedStatements => Drained \/ Elapsed(data.start) >= ms
      BY DEF DrainedStatements
    <3> QED BY <1>4, <3>1, <3>2 DEF Late
  <2> HIDE DEF n
  <2> QED BY <1>1, <1>2, <2>1, <2>2, <2>3, HandoffOwn DEF BurstStatements
<1>5. ASSUME Checks(t, "drained", Drained, IF Drained THEN "pause" ELSE "stuck")
      PROVE  Keeps
  <2> DEFINE n == IF Drained THEN "pause" ELSE "stuck"
  <2>1. /\ data' \in DataType /\ data'.accepted = data.accepted
        /\ data'.consumed = data.consumed /\ data'.rejected = data.rejected
        /\ data'.failed = (data.failed \/ ~Drained) /\ Does(t, "drained", n)
    BY <1>2, <1>5 DEF Checks, DataType
  <2>2. Timed => Drained
    BY <2>1 DEF Timed, AfterBurst, Does, BurstStatements, DrainedStatements
  <2>3. n \in {"pause", "stuck"} /\ (n \in DrainedStatements => Drained)
    BY DEF DrainedStatements
  <2> HIDE DEF n
  <2>4. Timed => data'.failed = data.failed
    BY <1>2, <2>1, <2>2
  <2> QED BY <1>1, <2>1, <2>3, <2>4, HandoffOwn DEF BurstStatements
<1>6. ASSUME Checks(t, "judge", Drained /\ data.rejected = 2 /\ value[countSem] = 0, "print")
      PROVE  Keeps
  <2> DEFINE good == Drained /\ data.rejected = 2 /\ value[countSem] = 0
  <2>1. /\ data' \in DataType /\ data'.accepted = data.accepted
        /\ data'.consumed = data.consumed /\ data'.rejected = data.rejected
        /\ data'.failed = (data.failed \/ ~good) /\ Does(t, "judge", "print")
    BY <1>2, <1>6 DEF Checks, DataType
  <2>2. Timed => good
    <3>1. Timed => AfterBurst /\ Drained
      BY <2>1 DEF Timed, AfterBurst, Does, BurstStatements, DrainedStatements
    <3> QED BY <3>1, SomebodyWaits DEF AfterBurst
  <2> HIDE DEF good
  <2>3. Timed => data'.failed = data.failed
    BY <1>2, <2>1, <2>2
  <2> QED BY <1>1, <2>1, <2>3, HandoffOwn DEF BurstStatements, DrainedStatements
<1>7. ASSUME Gives(t, "give", countSem, "gave")
      PROVE  Keeps
  <2>1. TokenAnswered("give", "gave")
    BY <1>7, TokenGiven
  <2>2. Timed => AfterBurst /\ waiters[countSem] # <<>>
    BY <2>1, SomebodyWaits
       DEF TokenAnswered, Timed, AfterBurst, BurstStatements, DrainedStatements
  <2>3. ASSUME Timed
        PROVE  AfterBurst'
    BY <2>1, <2>2, <2>3 DEF TokenAnswered, AfterBurst, DrainedStatements
  <2>4. Timed => Timed'
    BY <2>1, <2>3 DEF TokenAnswered, Timed, BurstStatements
  <2> QED BY <2>1, <2>4 DEF Keeps, TokenAnswered
<1>8. ASSUME Does(t, "gave", "given"), data' = Counted(t)
      PROVE  Keeps
  <2>1. data' = [Counted(t) EXCEPT !.i = data.i]
    BY <1>2, <1>8 DEF Counted, DataType
  <2>2. /\ Inv' /\ [Next]_vars /\ UNCHANGED gave
        /\ at[t] = "gave" /\ at'[t] = "given" /\ data'.failed = data.failed
        /\ data'.rejected = IF gave[t] THEN data.rejected ELSE Up(data.rejected)
    BY <1>1, <1>2, <1>8, <2>1, TokenCounted
  <2>3. Timed => Timed'
    BY <2>2 DEF Timed, AfterBurst, BurstStatements, DrainedStatements
  <2> QED BY <2>2, <2>3 DEF Keeps
<1>9. ASSUME Prints(t, "print", "loop")
      PROVE  Keeps
  <2>1. UNCHANGED data
    BY <1>9 DEF Prints
  <2> QED BY <1>1, <1>2, <1>9, <2>1, HandoffOwn DEF BurstStatements, DrainedStatements
<1>10. ASSUME NEW l \in {"nap", "doze"}, NEW next \in {"drain", "await"},
              Calls(t, l, "DELAY", 1, next)
       PROVE  Keeps
  BY <1>1, <1>10, HandoffSleep DEF BurstStatements, DrainedStatements
<1>11. ASSUME Calls(t, "pause", "DELAY", PAUSE_MS, "give")
       PROVE  Keeps
  BY <1>1, <1>11, HandoffSleep DEF BurstStatements, DrainedStatements
<1>12. ASSUME Polls(t, "drain", "nap", DRAIN_MS, "drained")
              \/ Polls(t, "await", "doze", HANDOFF_MS, "judge")
       PROVE  Keeps
  BY <1>4, <1>10, <1>12 DEF Polls
<1> QED BY <1>3, <1>5, <1>6, <1>7, <1>8, <1>9, <1>11, <1>12 DEF Handoff

\* The timers, the switch, the idle loop and the launch.
LEMMA SystemStep ==
  ASSUME CountingMode, Inv, OthersStep
  PROVE  Keeps
<1>1. /\ Standing(CallBefore, countSem)' /\ [Next]_vars /\ UNCHANGED <<at, data, gave>>
      /\ Left(countSem) /\ \A t \in Tasks : pc'[t] = pc[t]
  <2>1. Standing(CallBefore, countSem) /\ countSem \in Sems
    BY Members DEF Inv
  <2> QED BY <2>1, SystemLeaves
<1>2. pc'[Consumer] = pc[Consumer]
  BY <1>1, Members
<1>3. Uncounted' = Uncounted /\ Taken' = Taken /\ (ConsumerAsleep' <=> ConsumerAsleep)
  <2>1. UNCHANGED <<at, gave>> /\ pc'[Consumer] = pc[Consumer]
    BY <1>1, <1>2
  <2> QED BY <2>1 DEF Uncounted, Taken, ConsumerAsleep
<1>4. Inv'
  BY <1>1, <1>3 DEF Inv, Kept, Left
<1>5. Timed => Timed'
  <2>1. Drained => Drained'
    BY <1>1 DEF Drained, countingWaiters, Left
  <2> QED BY <1>1, <1>3, <2>1, TimedStays
<1> QED BY <1>1, <1>4, <1>5 DEF Keeps

\* Every step of the mode is one of the kernel and keeps the invariants.
LEMMA ModeStep ==
  ASSUME CountingMode, Inv, [AppNext]_demoVars
  PROVE  Keeps
<1>1. CASE countingConsumer(Consumer) \/ countingProducer(Producer)
  BY <1>1, ConsumerStep, BurstStep, LoopStep DEF countingProducer
<1>2. CASE \E t \in Tasks : InCalls(t)
  BY <1>2, InCallStep
<1>3. CASE OthersStep
  BY <1>3, SystemStep
<1> QED BY <1>1, <1>2, <1>3 DEF AppNext, KernelSteps, OthersStep, appVars

(***************************************************************************)
(* Theorems.                                                               *)
(***************************************************************************)

\* main and the tasks of mode 4 use the kernel as TinyKernel says: every behaviour of
\* the application is one of the kernel, so what is proved of the kernel holds in it.
THEOREM CountingModeIsKernel == CountingMode => (ModeSpec => Spec)
<1> SUFFICES ASSUME CountingMode
             PROVE  ModeSpec => Spec
  OBVIOUS
<1>1. AppInit => Init /\ Inv
  BY InitKept
<1>2. Inv /\ [AppNext]_demoVars => [Next]_vars /\ Inv'
  BY ModeStep DEF Keeps
<1> QED BY <1>1, <1>2, PTL DEF ModeSpec, Spec

\* osCountSemGive never lies: whatever the timing, the tokens that it told the producer
\* were accepted are those that countingConsumer counted or has yet to receive.
THEOREM TokenSafety == CountingMode => (ModeSpec => []TokensKept)
<1> SUFFICES ASSUME CountingMode
             PROVE  ModeSpec => []TokensKept
  OBVIOUS
<1>1. AppInit => Inv
  BY InitKept
<1>2. Inv /\ [AppNext]_demoVars => Inv'
  BY ModeStep DEF Keeps
<1>3. Inv => TokensKept
  <2> SUFFICES ASSUME Inv
               PROVE  TokensKept
    OBVIOUS
  <2>1. /\ credit[countSem] = value[countSem] + Cardinality(Granted(countSem))
        /\ value[countSem] \in Nat /\ Cardinality(Granted(countSem)) \in Nat
    BY Members, SemaphoreFacts DEF Inv, Standing
  <2>2. UnderWay = credit[countSem] + Taken
    BY <2>1 DEF UnderWay, Taken
  <2> QED BY <2>2 DEF Inv, Kept, TokensKept
<1> QED BY <1>1, <1>2, <1>3, PTL DEF ModeSpec

\* The checks that countingProducer makes of the semaphore: as long as the consumer
\* sleeps through the burst and drains within the limits, none of them ever fails.
THEOREM FailureSafety == CountingMode => (ModeSpec /\ []~Late => []NoFailure)
<1> SUFFICES ASSUME CountingMode
             PROVE  ModeSpec /\ []~Late => []NoFailure
  OBVIOUS
<1>1. AppInit => Inv /\ Timed
  BY InitKept
<1>2. Inv /\ Timed /\ ~Late /\ [AppNext]_demoVars => Inv' /\ Timed'
  BY ModeStep DEF Keeps
<1>3. Inv /\ Timed => NoFailure
  BY DEF Inv, Standing, Alive, NoFault, NoFailure, Timed, InBurst, AfterBurst
<1> QED BY <1>1, <1>2, <1>3, PTL DEF ModeSpec
=============================================================================
