---------------------------- MODULE CountingDemo ----------------------------
(***************************************************************************)
(* Mode 4 of Src/main.c: the producer fills a counting semaphore beyond    *)
(* its capacity while the consumer sleeps, and then hands tokens over.     *)
(***************************************************************************)
EXTENDS Demo

CONSTANTS countSem,
          FIRST_TAKE_MS, BURST_MS,         \* 1000 and 100 in the code
          DRAIN_MS, PAUSE_MS, HANDOFF_MS   \* 3000, 500 and 100

Consumer == 1
Producer == 2
BURST == 5

AppInit ==
  DemoInit([t \in Tasks |-> "top"],
           [accepted |-> 0, rejected |-> 0, consumed |-> 0, i |-> 0, start |-> 0,
            failed |-> FALSE])

countingConsumer(t) ==
  \/ Calls(t, "top", "DELAY", FIRST_TAKE_MS, "take")
  \/ Calls(t, "take", "SEMAPHORE", countSem, "took")
  \/ Does(t, "took", "take") /\ data' = [data EXCEPT !.consumed = Up(@)]

countingWaiters == Len(waiters[countSem])

\* The counters after a Give that returned gave[t].
Counted(t) ==
  IF gave[t] THEN [data EXCEPT !.accepted = Up(@)] ELSE [data EXCEPT !.rejected = Up(@)]

Checks(t, l, passed, next) ==
  Does(t, l, next) /\ data' = [data EXCEPT !.failed = @ \/ ~passed]

Burst(t) ==
  \/ Calls(t, "top", "DELAY", BURST_MS, "burst")
  \/ data.i < BURST /\ Gives(t, "burst", countSem, "count")
  \/ Does(t, "count", "burst") /\ data' = [Counted(t) EXCEPT !.i = @ + 1]
  \/ /\ data.i = BURST
     /\ Checks(t, "burst", /\ data.accepted = 3 /\ data.rejected = 2
                           /\ data.consumed = 0 /\ value[countSem] = 3, "print")

Drained == data.consumed = data.accepted /\ countingWaiters = 1

\* Until every accepted token was consumed and the consumer waits again, or ms passed.
Polls(t, l, nap, ms, next) ==
  \/ Waits(t, l, Drained, ms, nap, next)
  \/ Calls(t, nap, "DELAY", 1, l)

StartsClock(t, l, next) == Does(t, l, next) /\ data' = [data EXCEPT !.start = osTimeMs]

Handoff(t) ==
  \/ StartsClock(t, "loop", "drain")
  \/ Polls(t, "drain", "nap", DRAIN_MS, "drained")
  \/ Checks(t, "drained", Drained, IF Drained THEN "pause" ELSE "stuck")
  \/ Calls(t, "pause", "DELAY", PAUSE_MS, "give")
  \/ Gives(t, "give", countSem, "gave")
  \/ Does(t, "gave", "given") /\ data' = Counted(t)
  \/ StartsClock(t, "given", "await")
  \/ Polls(t, "await", "doze", HANDOFF_MS, "judge")
  \/ Checks(t, "judge", Drained /\ data.rejected = 2 /\ value[countSem] = 0, "print")
  \/ Prints(t, "print", "loop")

countingProducer(t) == Burst(t) \/ Handoff(t)

AppNext ==
  \/ (countingConsumer(Consumer) \/ countingProducer(Producer)) /\ Works
  \/ KernelSteps

\* Accepted, and not yet counted by the producer.
Uncounted == IF at[Producer] \in {"count", "gave"} /\ gave[Producer] THEN 1 ELSE 0

\* Tokens on their way from the semaphore to the count of the consumer.
UnderWay ==
  value[countSem] + Cardinality(Granted(countSem))
    + (IF at[Consumer] = "took" /\ pc[Consumer] = "run" THEN 1 ELSE 0)

\* The answers of osCountSemGive are true: the consumer receives exactly the tokens
\* that the producer was told were accepted, those it has not received being under way.
TokensKept ==
  (data.accepted + Uncounted) % CounterLimit = (data.consumed + UnderWay) % CounterLimit
=============================================================================
