--------------------------- MODULE SemaphoreDemo ---------------------------
(***************************************************************************)
(* The default application of Src/main.c: a producer signals an event      *)
(* every period, and a consumer takes it, reports and pulses the LED.       *)
(***************************************************************************)
EXTENDS Demo

CONSTANTS eventSem, PRODUCER_PERIOD_MS, LED_PULSE_MS

Consumer == 1
Producer == 2

AppInit ==
  DemoInit([t \in Tasks |-> "top"], [produced |-> 0, consumed |-> 0])

consumerTask(t) ==
  \/ Calls(t, "top", "SEMAPHORE", eventSem, "took")
  \/ Does(t, "took", "print") /\ data' = [data EXCEPT !.consumed = Up(@)]
  \/ Prints(t, "print", "pulse")
  \/ Calls(t, "pulse", "DELAY", LED_PULSE_MS, "top")

producerTask(t) ==
  \/ Calls(t, "top", "DELAY", PRODUCER_PERIOD_MS, "count")
  \/ Does(t, "count", "give") /\ data' = [data EXCEPT !.produced = Up(@)]
  \/ Gives(t, "give", eventSem, "top")

AppNext ==
  \/ (consumerTask(Consumer) \/ producerTask(Producer)) /\ Works
  \/ KernelSteps

\* Events on their way from the count of the producer to that of the consumer.
UnderWay ==
  (IF at[Producer] = "give" THEN 1 ELSE 0) + value[eventSem] + Cardinality(Granted(eventSem))
    + (IF at[Consumer] = "took" /\ pc[Consumer] = "run" THEN 1 ELSE 0)

\* No event is lost by coalescing or counted twice: the counters differ by the events
\* under way.
EventsKept == data.produced = (data.consumed + UnderWay) % CounterLimit

\* The producer is about to signal an event that the semaphore has no room for: the one
\* before it is still stored, because the consumer was too late.
Coalesces ==
  /\ Executes(Producer) /\ pc[Producer] = "run" /\ at[Producer] = "give"
  /\ ~Accepted(eventSem)

\* docs/pendsv-context-switch-test-plan.md: at each sample produced equals consumed.
SampleMatches == at[Consumer] = "print" => data.produced = data.consumed
=============================================================================
