------------------------------- MODULE MCDemo -------------------------------
(* The applications of Src/main.c for TLC, with scaled times. *)
EXTENDS Integers

CONSTANTS SignBit, NULL, s1, m1, HALF_MS_STEPS, PRINT_MS

VARIABLES
  mode,   \* OS_HARDWARE_TEST_MODE
  masks, fault, running, currentPt, state, wakeAt, osTimeMs, pendSV,
  waiters, waitSem, waitMutex, owner, value, pc, call, arg, errs, held, credit, slept,
  at, data, gave, steps, ticks, printing

MCSemaphore == INSTANCE SemaphoreDemo WITH
  CounterLimit <- 6, N <- 3, Sems <- {s1}, Mutexes <- {}, BinSems <- {s1}, InitialCounts <- {0},
  maxCount <- [s \in {s1} |-> 1],
  Delays <- {1, 4}, TaskCalls <- {"DELAY", "SEMAPHORE", "GIVE"},
  HandlerCalls <- {}, AppMasks <- {},
  eventSem <- s1, PRODUCER_PERIOD_MS <- 4, LED_PULSE_MS <- 1

MCFifo == INSTANCE FifoDemo WITH
  CounterLimit <- 3, N <- 5, Sems <- {s1}, Mutexes <- {}, BinSems <- {s1}, InitialCounts <- {0},
  maxCount <- [s \in {s1} |-> 1],
  Delays <- {0, 1, 2, 4, 7}, TaskCalls <- {"DELAY", "SEMAPHORE", "GIVE"},
  HandlerCalls <- {}, AppMasks <- {},
  fifoSem <- s1, FirstDelay <- <<4, 7, 0>>, GATHER_MS <- 12, PAUSE_MS <- 2, WAKE_MS <- 4

MCCounting == INSTANCE CountingDemo WITH
  CounterLimit <- 6, N <- 3, Sems <- {s1}, Mutexes <- {}, BinSems <- {}, InitialCounts <- {0},
  maxCount <- [s \in {s1} |-> 3],
  Delays <- {1, 2, 6}, TaskCalls <- {"DELAY", "SEMAPHORE", "GIVE"},
  HandlerCalls <- {}, AppMasks <- {},
  countSem <- s1, FIRST_TAKE_MS <- 6, BURST_MS <- 1,
  DRAIN_MS <- 12, PAUSE_MS <- 2, HANDOFF_MS <- 4

MCMutex == INSTANCE MutexDemo WITH
  CounterLimit <- 2, SignBit <- 6, N <- 4, Sems <- {}, Mutexes <- {m1}, BinSems <- {}, InitialCounts <- {},
  maxCount <- [s \in {} |-> 1],
  Delays <- {2, 7}, TaskCalls <- {"DELAY", "MUTEX_TAKE", "MUTEX_GIVE", "YIELD"},
  HandlerCalls <- {}, AppMasks <- {"PRIMASK"},
  testMutex <- m1, INSIDE_MS <- 2, REPORT_MS <- 7, POLL_MS <- 8

MCBusy(yield) == INSTANCE BusyDemo WITH
  CounterLimit <- 2, N <- 4, Sems <- {}, Mutexes <- {}, BinSems <- {}, InitialCounts <- {},
  maxCount <- [s \in {} |-> 1],
  Delays <- {}, TaskCalls <- {"YIELD"}, HandlerCalls <- {}, AppMasks <- {},
  Yield <- yield, REPORT_MS <- 12

Init ==
  \/ mode = "SEMAPHORE" /\ MCSemaphore!AppInit
  \/ mode = "SEMAPHORE_FIFO" /\ MCFifo!AppInit
  \/ mode = "COUNTING_SEMAPHORE" /\ MCCounting!AppInit
  \/ mode = "MUTEX" /\ MCMutex!AppInit
  \/ mode = "PREEMPTION" /\ MCBusy(FALSE)!AppInit
  \/ mode = "YIELD" /\ MCBusy(TRUE)!AppInit

Next ==
  /\ UNCHANGED mode
  /\ \/ mode = "SEMAPHORE" /\ MCSemaphore!AppNext
     \/ mode = "SEMAPHORE_FIFO" /\ MCFifo!AppNext
     \/ mode = "COUNTING_SEMAPHORE" /\ MCCounting!AppNext
     \/ mode = "MUTEX" /\ MCMutex!AppNext
     \/ mode = "PREEMPTION" /\ MCBusy(FALSE)!AppNext
     \/ mode = "YIELD" /\ MCBusy(TRUE)!AppNext

demoVars == <<mode, MCFifo!demoVars>>

Spec == Init /\ [][Next]_demoVars

\* No mode of the test program ever counts a failure or halts the kernel (Demo).
NoFailure == MCFifo!NoFailure

\* Mode 5: a worker that sleeps between reading and writing the shared counter, as
\* mutexWorker does, overwrites no update of the other.
NoLostUpdate == mode = "MUTEX" => MCMutex!NoLostUpdate

\* Mode 0: every event that producerTask signals reaches consumerTask exactly once: the
\* binary semaphore never has to coalesce two of them.
EventsKept == mode = "SEMAPHORE" => MCSemaphore!EventsKept

\* Mode 4: the answers of osCountSemGive are true: countingConsumer receives exactly the
\* tokens that countingProducer was told were accepted.
TokensKept == mode = "COUNTING_SEMAPHORE" => MCCounting!TokensKept

\* Mode 0: consumerTask prints equal counters, as the hardware test plan expects.
SampleMatches == mode = "SEMAPHORE" => MCSemaphore!SampleMatches
=============================================================================
