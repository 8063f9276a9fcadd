------------------------------ MODULE BusyDemo ------------------------------
(***************************************************************************)
(* Modes 1 and 2 of Src/main.c: two workers count and a reporter watches   *)
(* them, under SysTick alone, or under osYield alone after task A stopped  *)
(* SysTick.  Nobody delays.                                                 *)
(***************************************************************************)
EXTENDS Demo

CONSTANTS Yield,      \* OS_HARDWARE_TEST_MODE == OS_HW_TEST_YIELD
          REPORT_MS   \* 1000 in the code

A == 1
B == 2
Reporter == 3

AppInit ==
  /\ DemoInit([t \in Tasks |-> IF t = Reporter THEN "start"
                               ELSE IF t = A /\ Yield THEN "setup" ELSE "work"],
              [moved |-> [w \in {A, B} |-> FALSE],   \* counted since the last report
               previousTime |-> 0, now |-> 0, failed |-> FALSE])

\* Stops SysTick and clears its pending bit, with interrupts masked.
StopsSysTick(t) ==
  /\ Executes(t) /\ pc[t] = "run" /\ at[t] = "setup"
  /\ Goes(t, "work") /\ ticks' = SysTickOff
  /\ UNCHANGED <<vars, data, gave, printing>>

After == IF Yield THEN "yield" ELSE "work"

testTask(t) ==
  \/ Does(t, "work", After) /\ data' = [data EXCEPT !.moved[t] = TRUE]
  \/ Yields(t, "yield", "work")

testTaskA(t) == StopsSysTick(t) \/ testTask(t)

\* Both workers went on, and SysTick is in the state that the mode calls for.
Progress == data.moved[A] /\ data.moved[B] /\ (ticks = SysTickOff <=> Yield)

testReporterTask(t) ==
  \/ Does(t, "start", "work") /\ data' = [data EXCEPT !.previousTime = osTimeMs,
                                                          !.moved = [w \in {A, B} |-> FALSE]]
  \/ Does(t, "work", "compare") /\ data' = [data EXCEPT !.now = osTimeMs]
  \/ Does(t, "compare",
          IF Subtract(data.now, data.previousTime) >= REPORT_MS THEN "sample" ELSE After)
     /\ UNCHANGED data
  \/ Does(t, "sample", "print")
     /\ data' = [data EXCEPT !.moved = [w \in {A, B} |-> FALSE], !.failed = @ \/ ~Progress]
  \/ Prints(t, "print", "reported")
  \/ Does(t, "reported", After) /\ data' = [data EXCEPT !.previousTime = data.now]
  \/ Yields(t, "yield", "work")

AppNext ==
  \/ (testTaskA(A) \/ testTask(B) \/ testReporterTask(Reporter)) /\ Works
  \/ KernelSteps
=============================================================================
