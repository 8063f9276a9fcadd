------------------------------ MODULE MutexDemo ------------------------------
(***************************************************************************)
(* Mode 5 of Src/main.c: two workers sleep inside the mutex between the    *)
(* read and the write of a shared counter, and a reporter gives a mutex it *)
(* does not own before it takes it to compare the counters.                *)
(***************************************************************************)
EXTENDS Demo

CONSTANTS testMutex,
          INSIDE_MS, REPORT_MS, POLL_MS   \* 10, 1000 and 100 in the code

A == 1
B == 2
Reporter == 3

AppInit ==
  DemoInit([t \in Tasks |-> "top"],
           [shared |-> 0, writes |-> [w \in {A, B} |-> 0],
            moved |-> [w \in {A, B} |-> FALSE],   \* writes since the last report
            before |-> [w \in {A, B} |-> 0], active |-> NULL,
            start |-> 0, rejected |-> FALSE, failed |-> FALSE])

Fails(passed) == [data EXCEPT !.failed = @ \/ ~passed]

mutexWorker(t) ==
  \/ Calls(t, "top", "MUTEX_TAKE", testMutex, "in")
  \/ Does(t, "in", "enter") /\ data' = Fails(data.active = NULL)
  \/ Does(t, "enter", "read") /\ data' = [data EXCEPT !.active = t]
  \/ Does(t, "read", "hold") /\ data' = [data EXCEPT !.before[t] = data.shared]
  \/ Calls(t, "hold", "DELAY", INSIDE_MS, "held")
  \/ Does(t, "held", "write") /\ data' = Fails(data.active = t)
  \/ Does(t, "write", "count") /\ data' = [data EXCEPT !.shared = Up(data.before[t])]
  \/ Does(t, "count", "leave")
     /\ data' = [data EXCEPT !.writes[t] = Up(@), !.moved[t] = TRUE]
  \/ Does(t, "leave", "give") /\ data' = [data EXCEPT !.active = NULL]
  \/ Calls(t, "give", "MUTEX_GIVE", testMutex, "gave")
  \/ Does(t, "gave", "top") /\ data' = Fails(gave[t])

\* Until a worker is seen inside the mutex, or POLL_MS passed.
mutexRejectForeignGive(t) ==
  \/ Does(t, "begin", "poll") /\ data' = [data EXCEPT !.start = osTimeMs]
  \/ IF Elapsed(data.start) < POLL_MS
     THEN Masks(t, "poll", "look")
     ELSE /\ Does(t, "poll", "take")
          /\ data' = [Fails(FALSE) EXCEPT !.rejected = FALSE, !.start = 0]
  \/ data.active # NULL /\ Calls(t, "look", "MUTEX_GIVE", testMutex, "gaveForeign")
  \/ Does(t, "gaveForeign", "seen")
     /\ data' = [Fails(~gave[t]) EXCEPT !.rejected = ~gave[t], !.start = 0]
  \/ Unmasks(t, "seen", "take")
  \/ data.active = NULL /\ Unmasks(t, "look", "retry")
  \/ Yields(t, "retry", "poll")

\* The reporter reads the counters and judges them in one step, as their owner.
Consistent ==
  /\ data.rejected /\ data.active = NULL /\ ~data.failed
  /\ data.shared = (data.writes[A] + data.writes[B]) % CounterLimit
  /\ data.moved[A] /\ data.moved[B]

mutexReporter(t) ==
  \/ Calls(t, "top", "DELAY", REPORT_MS, "begin")
  \/ mutexRejectForeignGive(t)
  \/ Calls(t, "take", "MUTEX_TAKE", testMutex, "judge")
  \/ Does(t, "judge", "give")
     /\ data' = [Fails(Consistent) EXCEPT !.moved = [w \in {A, B} |-> FALSE]]
  \/ Calls(t, "give", "MUTEX_GIVE", testMutex, "gave")
  \/ Does(t, "gave", "print") /\ data' = Fails(gave[t])
  \/ Prints(t, "print", "top")

AppNext ==
  \/ (mutexWorker(A) \/ mutexWorker(B) \/ mutexReporter(Reporter)) /\ Works
  \/ KernelSteps

\* No update is lost: the shared counter is what both workers counted, but for the
\* update of a worker that has written and not counted yet.
NoLostUpdate ==
  data.shared = (data.writes[A] + data.writes[B]
                 + Cardinality({w \in {A, B} : at[w] = "count"})) % CounterLimit

\* The reporter is about to count a failure because time ran out: it saw no worker
\* inside the mutex for POLL_MS, or a worker wrote nothing since the last report.
Late ==
  /\ Executes(Reporter) /\ pc[Reporter] = "run"
  /\ \/ at[Reporter] = "poll" /\ Elapsed(data.start) >= POLL_MS
     \/ at[Reporter] = "judge" /\ ~(data.moved[A] /\ data.moved[B])
=============================================================================
