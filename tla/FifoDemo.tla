------------------------------ MODULE FifoDemo ------------------------------
(***************************************************************************)
(* Mode 3 of Src/main.c: tasks A, B and C take the semaphore first in the  *)
(* order C, A, B, and the producer checks who is woken.                    *)
(***************************************************************************)
EXTENDS Demo

CONSTANTS fifoSem,
          FirstDelay,      \* of each waiter, in milliseconds
          GATHER_MS, PAUSE_MS, WAKE_MS   \* 3000, 500 and 100 in the code

Waiters == 1..3
Producer == 4
ExpectedOrder == <<3, 1, 2>>

AppInit ==
  DemoInit([t \in Tasks |-> "top"],
           [lastWake |-> NULL, wakes |-> 0, before |-> 0, gives |-> 0, expected |-> NULL,
            start |-> 0, failed |-> FALSE])

fifoWaiter(t) ==
  \/ Calls(t, "top", "DELAY", FirstDelay[t], "take")
  \/ Calls(t, "take", "SEMAPHORE", fifoSem, "took")
  \/ Does(t, "took", "take") /\ data' = [data EXCEPT !.lastWake = t, !.wakes = Up(@)]

fifoWaiterCount == Len(waiters[fifoSem])

\* The producer collects the three waiters.  Without them it reports and stays "stuck".
Gather(t) ==
  \/ Does(t, "top", "gather") /\ data' = [data EXCEPT !.start = osTimeMs]
  \/ Waits(t, "gather", fifoWaiterCount = 3, GATHER_MS, "nap", "gathered")
  \/ Calls(t, "nap", "DELAY", 1, "gather")
  \/ Does(t, "gathered", IF fifoWaiterCount = 3 THEN "pause" ELSE "stuck")
     /\ data' = [data EXCEPT !.failed = @ \/ fifoWaiterCount # 3]

\* It gives once and waits for the acknowledgement.
Handoff(t) ==
  \/ Calls(t, "pause", "DELAY", PAUSE_MS, "before")
  \/ Does(t, "before", "give")
     /\ data' = [data EXCEPT !.expected = ExpectedOrder[data.gives + 1], !.before = data.wakes]
  \/ Gives(t, "give", fifoSem, "given")
  \/ Does(t, "given", "await")
     /\ data' = [data EXCEPT !.gives = (@ + 1) % 3, !.start = osTimeMs]
  \/ Waits(t, "await", data.wakes # data.before, WAKE_MS, "doze", "judge")
  \/ Calls(t, "doze", "DELAY", 1, "await")
  \/ Does(t, "judge", "print")
     /\ data' = [data EXCEPT
          !.failed = @ \/ ~(/\ data.wakes = Up(data.before)
                            /\ data.lastWake = data.expected
                            /\ value[fifoSem] = 0)]
  \/ Prints(t, "print", "top")

fifoProducer(t) == Gather(t) \/ Handoff(t)

AppNext ==
  \/ ((\E t \in Waiters : fifoWaiter(t)) \/ fifoProducer(Producer)) /\ Works
  \/ KernelSteps
=============================================================================
