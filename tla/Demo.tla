-------------------------------- MODULE Demo --------------------------------
(***************************************************************************)
(* What the demonstration applications of Src/main.c share: tasks that run *)
(* their own code and call the kernel, the two timers, and the UART.       *)
(*                                                                         *)
(* One statement of a task is one step.  A counter that is only compared   *)
(* with zero is a Boolean, and the others wrap at CounterLimit instead of  *)
(* 2^32.  The LED and the text of the lines are left out.                   *)
(***************************************************************************)
EXTENDS TinyKernel

CONSTANTS
  CounterLimit,
  HALF_MS_STEPS, \* steps that the processor makes at least in half a millisecond
  PRINT_MS       \* milliseconds that a line takes at most

QUANTA == 2      \* milliseconds of a quantum

VARIABLES
  at,        \* the statement at which a task is in its own code
  data,      \* what the tasks of the application count and remember
  gave,      \* what the last osMutexGive or osCountSemGive of a task returned
  steps,     \* steps since the last interrupt of a timer, up to 2 * HALF_MS_STEPS
  ticks,     \* ticks since the last interrupt of SysTick, which runs while >= 0
  printing   \* ticks since the line being printed was begun

appVars == <<at, data, gave>>
clockVars == <<steps, ticks, printing>>
demoVars == <<vars, appVars, clockVars>>

SysTickOff == -1

DemoInit(program, globals) ==
  /\ Init
  /\ at = program /\ data = globals /\ gave = [t \in Tasks |-> FALSE]
  /\ steps = 0 /\ ticks = 0 /\ printing = 0

Up(n) == (n + 1) % CounterLimit
Elapsed(since) == Subtract(osTimeMs, since)

(***************************************************************************)
(* Forms of the steps of a task t that is at statement l.                   *)
(***************************************************************************)
Goes(t, next) == at' = [at EXCEPT ![t] = next]

\* Own code, which touches nothing of the kernel.
Does(t, l, next) ==
  /\ Executes(t) /\ pc[t] = "run" /\ at[t] = l
  /\ Goes(t, next)
  /\ UNCHANGED <<vars, gave, ticks, printing>>

\* The test of a loop that ends when done, or ms after data.start.
Waits(t, l, done, ms, nap, next) ==
  /\ Does(t, l, IF done \/ Elapsed(data.start) >= ms THEN next ELSE nap)
  /\ UNCHANGED data

\* The first step of a call.
Calls(t, l, c, a, next) ==
  /\ at[t] = l /\ CheckContext(t, c, a) /\ Goes(t, next)
  /\ UNCHANGED <<data, gave, ticks, printing>>

\* The others.
InCalls(t) ==
  /\ FinishCall(t)
  /\ gave' = [gave EXCEPT ![t] = IF InCall(t, "MUTEX_GIVE") THEN owner[arg[t]] = t ELSE @]
  /\ UNCHANGED <<at, data, ticks, printing>>

Gives(t, l, s, next) ==
  /\ at[t] = l /\ TaskGive(t, s) /\ Goes(t, next)
  /\ gave' = [gave EXCEPT ![t] = Accepted(s)]
  /\ UNCHANGED <<data, ticks, printing>>

Yields(t, l, next) ==
  /\ at[t] = l /\ TaskYield(t) /\ Goes(t, next)
  /\ UNCHANGED <<data, gave, ticks, printing>>

Masks(t, l, next) ==
  /\ at[t] = l /\ SetMask(t, "PRIMASK") /\ Goes(t, next)
  /\ UNCHANGED <<data, gave, ticks, printing>>

Unmasks(t, l, next) ==
  /\ at[t] = l /\ ClearMask(t, "PRIMASK") /\ Goes(t, next)
  /\ UNCHANGED <<data, gave, ticks, printing>>

\* printf polls the UART until the line is out; one task of an application prints.
Prints(t, l, next) ==
  /\ Executes(t) /\ pc[t] = "run" /\ at[t] = l
  /\ Goes(t, next) /\ printing' = 0
  /\ UNCHANGED <<vars, data, gave, ticks>>

(***************************************************************************)
(* Time.  TIM2 and SysTick count the same clock, so an interrupt of        *)
(* SysTick keeps its place between those of TIM2: here in the middle.  A   *)
(* millisecond is 16000 cycles: in half of it the processor makes at least *)
(* HALF_MS_STEPS steps, unless it waits for the interrupt or for the UART.  *)
(***************************************************************************)
\* main prints a line before it launches the kernel.
Printing ==
  ~running \/ \E t \in Tasks : Executes(t) /\ pc[t] = "run" /\ at[t] = "print"

Waiting == Printing \/ (Executes(Idle) /\ pc[Idle] = "wfi")

\* Half a millisecond has passed since the last interrupt of a timer, or a whole one.
Passed(halves) == steps >= halves * HALF_MS_STEPS \/ Waiting

Millisecond ==
  /\ TIM2_IRQHandler
  /\ ticks < QUANTA /\ Passed(IF ticks = 0 THEN 1 ELSE 2)
  /\ Printing => printing < PRINT_MS
  /\ ticks' = IF ticks = SysTickOff \/ ~running THEN ticks ELSE ticks + 1
  /\ printing' = IF Printing THEN printing + 1 ELSE printing
  /\ steps' = 0 /\ UNCHANGED appVars

EndOfQuantum ==
  /\ Quantum
  /\ ticks = QUANTA /\ Passed(1)
  /\ ticks' = 0 /\ steps' = 0 /\ UNCHANGED <<appVars, printing>>

Start == Launch /\ printing' = 0 /\ UNCHANGED <<appVars, steps, ticks>>

Works == steps' = IF steps < 2 * HALF_MS_STEPS THEN steps + 1 ELSE steps

KernelSteps ==
  \/ \E t \in Tasks : InCalls(t) /\ Works
  \/ (IdleYield \/ Switch) /\ Works /\ UNCHANGED <<appVars, ticks, printing>>
  \/ Millisecond
  \/ EndOfQuantum
  \/ Start

\* No mode of the test program ever counts a failure or halts the kernel: the checks it
\* makes of itself, timeouts and refused calls included, hold under every interleaving.
NoFailure ==
  /\ fault.errors = {}
  /\ "failed" \in DOMAIN data => ~data.failed
=============================================================================
