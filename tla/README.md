# tiny_kernel: specification and proofs

tiny_kernel is a preemptive round-robin kernel for one Cortex-M4 core: threads
on static stacks, millisecond delays, binary and counting semaphores, and a
mutex with FIFO ownership handoff. This directory holds TLA+ modules that model
it, TLC runs that check the modules on small instances, and TLAPS proofs that
hold for every instance.

```
tlc -config MCWait.cfg MCTinyKernel.tla     # one run
tlapm TinyKernel_proof.tla                  # the proofs of one module
```

The other proof modules are `TinyKernelSteps_proof`, `Demo_proof`, `MutexDemo_proof`,
`SemaphoreDemo_proof`, `CountingDemo_proof`, `WaitQueue_proof` and `ThreadStacks_proof`.

## 1. The system

| Component | Source | State | Operations |
|---|---|---|---|
| Port | `osPort.c`, `osBlocking.h` | PRIMASK, BASEPRI, FAULTMASK; `osLastBlockingFault` | capture context, enter/exit critical section, `osPortBlockingFault` |
| Kernel | `osKernel.c`, `osKernelPrivate.h` | `osKernelRunning`, `currentPt`, TCB `state` and `wake_at_ms`, `osTimeMs`, PendSV pending bit | `osYield`, `osScheduler`/PendSV, SysTick, TIM2 tick, `osDelay`, `osKernelLaunch`, idle task, `osThreadExit` |
| Wait relations | `osKernelWait.c` | TCB `waitSem`, `waitMutex`, the waiting lists | block on / wake from a semaphore or mutex |
| Semaphores | `osSemaphore.c` | `value`, `maxCount`, waiters | Init, Take, Give of both kinds |
| Mutex | `osMutex.c` | `owner`, waiters | Init, Take, Give |
| Wait queue | `osWaitQueue.c` | intrusive doubly linked list | init, validate, push, pop, remove |
| Thread admission | `osKernelThread.c` | `thread_count`, ring of `nextPt`, default stack pool, stack ranges | create (pool or caller stack), stack usage |
| Stack diagnostics | `osStack.c` | guard and fill words | initialize, measure |
| Demonstrations | `main.c`, `osHardwareTest.h` | demo counters | eight applications, one per hardware test mode, and the TIM2 handler |
| Drivers, runtime, startup | `uart.c`, `osGpio.c`, `syscalls.c`, `sysmem.c`, `Startup/`, linker scripts, `chip_headers/` | registers | none the kernel depends on |

**Interaction.** There is one core. Tasks call the API directly. An API call
masks interrupts (PRIMASK) for its critical section, so everything between
`osPortEnterCritical` and `osPortExitCritical` is atomic; everything outside,
in particular the capture of the caller's context *before* the section and the
call of `osPortBlockingFault` *after* it, is not. A call that changes who should
run does not switch: it pends PendSV, which the core takes as soon as nothing
masks it. SysTick pends PendSV too. TIM2 outranks both, advances the clock and
wakes sleepers; handlers at that level may Give semaphores. A semaphore or mutex
reaches the TCBs only through `osKernelWait.c`.

**What is hard.** Preemption between the two halves of a call; interrupts that
make a task READY before the switch that should take the processor away from it
has happened; Gives that race with Takes; a third task that runs between the
release of a mutex and the dispatch of the waiter that was handed it; masks that
postpone PendSV; the wrap of the 32-bit millisecond counter; refused calls that
must have changed nothing. The list with lines is in `PROJECT.json`
("hazards").

**What makes it correct.**
Port: a fault stops the kernel and nothing but misuse enters it.
Kernel: only READY threads execute, all of them do in turn, and a delay ends at
its tick.
Wait relations: queue, TCB and state agree.
Semaphores: tokens are conserved, nobody sleeps on a stored token.
Mutex: exclusion, in FIFO order, with ownership by task.
Wait queue: the links are those of the sequence of its members, and validation
tells a list from anything else.
Admission: stacks are disjoint, their contexts survive until the launch, the pool
stays usable, the ring is closed.
Diagnostics: a measurement is bounded by what was written.
Demonstrations: what they check of the kernel and of themselves never fails.

## 2. Modules

```
Port <- Kernel <- KernelWait <- Semaphore ---\
                            \<- Mutex --------+- TinyKernel <- MCTinyKernel (TLC)
FifoLock, FifoSemaphore (abstract) - INSTANCE -/           \<- TinyKernel_proof (TLAPS)
TinyKernel_proof <- TinyKernelSteps_proof <- Demo_proof <- MutexDemo_proof
                                                        <- SemaphoreDemo_proof
                                                        <- CountingDemo_proof
TinyKernel <- Demo <- SemaphoreDemo, FifoDemo, CountingDemo, MutexDemo, BusyDemo
              MCDemo (TLC) instantiates all five
WaitLine (abstract) - - - INSTANCE - - - TinyKernel
                    \- - - INSTANCE - - - WaitQueue <- MCWaitQueue, WaitQueue_proof
                                         ThreadStacks <- MCThreadStacks, ThreadStacks_proof
```

WaitQueue and ThreadStacks are the two parts below the kernel modules, each closed
under its own calls. They meet the kernel modules at two interfaces. The queues of
KernelWait are sequences with at most `OS_WAIT_QUEUE_MAX_NODES` members; each of their
changes is a call that WaitLine grants (`UsesWaitLines`), and WaitLine is what WaitQueue
is shown to implement. Kernel starts from `N` threads in a ring with stacks of their
own, which is what ThreadStacks is shown to build; this one stays an assumption.

**Port** (`osPort.c`, `osBlocking.h`). `masks` is the set of mask registers that
are nonzero; a critical section is one step and leaves `masks` as it found it.
`fault` is `osLastBlockingFault`. Once it is set the kernel is no longer `Alive`
and every action but `Stopped` is disabled, as in the endless loop of the code.
The exception context stored in the record is not modelled.

**Kernel** (`osKernel.c`). Threads are the numbers `0..N-1` in creation order,
which is the order of the ring. `SwitchDue` says that PendSV is pending and can
be taken: in such a state no instruction of the current thread executes, because
`osYield` ends in DSB and ISB. `osScheduler(u)` relates the current thread to
the one the do-while loop stops at, with the counter of tries. Time is kept
modulo `2 * SignBit`, where `SignBit` stands for 2^31, and `Expired` is the
signed comparison of `osWakeSleeping`. The counter is that of the code in
everything but its width.

**KernelWait** (`osKernelWait.c`). `waiters[o]` is the queue of object `o`, oldest
first. Each of the four transitions tests what the code tests before it changes
anything and ends in `waitFault` otherwise.

**Semaphore**, **Mutex** (`osSemaphore.c`, `osMutex.c`). The critical sections of
the calls. `TakeRefusal` and `MutexRefusal` are the errors with which a call
leaves its section for the trap.

**TinyKernel**. Tasks, handlers and `main` over all of it. `pc`, `call`, `arg` and
`errs` are the place of each thread inside its call and the local variables
`caller`/`errors`. One call is up to four steps:

| Step | Code | Between the steps |
|---|---|---|
| `CheckContext` | capture of the context and first refusal | preemption, anything |
| `osDelay`, `Take`, `MutexTake`, `MutexGive` | the critical section | masked: atomic |
| `BlockingFault` | entry of the trap by a refused caller | the other tasks run on |
| `Return` | the blocked caller is dispatched again | |

`TaskGive`, `TaskYield`, `SetMask`, `ClearMask`, `osThreadExit` are the other
things tasks do; `IdleYield` is the loop of `idle_task` (`WakesIdle` lets an interrupt that
arrives just before the WFI end it too; nothing obliges idle to yield at once, so
waiting for the next interrupt remains possible); `Switch`, `Quantum`,
`TIM2_IRQHandler`, `HandlerGive`, `HandlerContextCall` the exceptions; `Launch`,
`MainGive`, `MainContextCall` what `main` does. The variables `held`, `credit`
and `slept` are history: what the callers know, never read by an action.

**FifoLock**. The abstract lock: a line of clients, and who is inside.
`TinyKernel!Lock(m)` maps mutex `m` to it: the line is the owner followed by the
queue, and a task is inside between the return of its Take and its Give.

**FifoSemaphore**. The abstract semaphore: stored tokens, a line of clients, and the
clients that were granted a token and have not gone on yet. `TinyKernel!Gate(s)` maps
semaphore `s` to it: the line is the queue, and a client is granted a token from the
Give that wakes it until its Take returns. A client that asks while another one is
granted finds nothing stored, which is what direct handoff promises.

**WaitLine**. The abstract family of queues: lines of distinct members, joined at the
end, served at the front, left anywhere, with the reason of every refusal. `Joins` and
`Served` are what a granted call does to the lines; `TinyKernel!Queues` maps all queues
of the kernel to them. What a queue answers is used within the step of the kernel, so
the answers have no counterpart there.

**WaitQueue** (`osWaitQueue.c`). The fields `head`, `tail`, `count` of the queues and
`next`, `previous`, `container` of the nodes. A call is one step, because callers
serialize them. `Accepts` is the walk of `osWaitQueueValidate`: `Walk(q)` is the
sequence of nodes the loop visits, and the loop accepts when it meets NULL after
`count` nodes that passed its tests. `Spec` has the calls alone, for callers that keep
to the contract of `osWaitQueue.h`; `DamagedSpec` also overwrites single fields
(`Damage`), as `test_corruption_detection` of the host tests does. `result` and `out`
are what the last call returned. The `owner` payload is not read by the list.

**ThreadStacks** (`osKernelThread.c`, `osStack.c`). `stacks` is the storage of the
admitted slots, `memory` the whole address space by words, each holding one of the
two patterns, the initial context, or something else. Addresses count words of four
bytes, so the 8-byte alignment is evenness; `EndOf` adds modulo the address space.
`createThread` has both creation calls with all their refusals; `prepareThread`
paints. After the launch, `Write` is whatever a thread, or an exception on its stack,
stores inside that stack, its guard included; a write beyond the guard is outside the
model. `lowest` is history: the deepest word each thread has written.

**Demo** and its five applications (`main.c`). A task of an application is at a statement
`at[t]` of its own code or inside a call of TinyKernel; `data` are the volatile counters
and locals. `Does`, `Calls`, `Gives`, `Yields`, `Masks`, `Prints` are the forms of a
step, so that each task reads as the list of its statements. Unlike TinyKernel, where
interrupts come at any time, Demo has a clock: TIM2 ticks once a millisecond, SysTick
after `QUANTA` of them, at a fixed place between two ticks because both count the same
clock (32000 and 16000 cycles; the moment of the launch decides the place, and Demo
takes the middle), and in half a millisecond the processor makes at least
`HALF_MS_STEPS` steps unless it waits for an interrupt or for the UART. That is what
the applications assume when they compare times.

| Module | Mode | Tasks |
|---|---|---|
| SemaphoreDemo | 0 | `consumerTask`, `producerTask` |
| BusyDemo | 1, 2 | `testTaskA`, `testTaskB`, `testReporterTask`, under SysTick or `osYield` alone |
| FifoDemo | 3 | three `fifoWaiter`s, `fifoProducer` |
| CountingDemo | 4 | `countingConsumer`, `countingProducer` |
| MutexDemo | 5 | two `mutexWorker`s, `mutexReporter` with `mutexRejectForeignGive` |

A counter that is only compared with zero is a Boolean (`failed`, `moved`); the others
wrap at `CounterLimit`. The LED, the texts and `consumerWaitCalls` are left out, and
so are the endless delay loops after a failed observation ("stuck"). `fifoProducer`
takes `fifoGiveCount` modulo 3; that the order would shift when the counter wraps at
2^32, after 68 years of two Gives a second, is not modelled.

## 3. Runs

| Run | Properties | Instance | States | What it shows |
|---|---|---|---|---|
| MCWait | WaitRelation, NoLostWakeup, MutualExclusion, SnapshotValid, FaultOnlyOnMisuse, FaultChangesNothing, TokenConservation, ImplementsFifoLock, ImplementsFifoSemaphore, UsesWaitLines | 3 tasks + idle, 1 binary semaphore, 1 mutex, PRIMASK | 178,116 | the wait machinery under preemption and misuse; no token lost or doubled; FIFO lock and FIFO semaphore implemented; queues used as WaitLine grants |
| MCMixed | TypeOK, IInv, OnlyReadyExecutes, TokenConservation, NobodyPassedOver | 2 tasks + idle, every call, counting semaphore (2), 2 masks, delays 0 and 1 | 586,404 | the inductive invariant; only READY threads execute; the round robin passes nobody over; tokens up to and beyond a capacity of 2 |
| MCLive | ReadyIsDispatched, DelayReturns | 2 tasks + idle, semaphore, delays, exits, PRIMASK; `FairSpec` | 23,628 | nobody READY starves, delays return |
| MCServe | WaiterIsServed | 2 tasks + idle, semaphore, mutex, exits; `ServedSpec` | 8,016 | FIFO handoff starves no waiter |
| MCDeadlock | WaiterIsServed | 2 tasks + idle, 2 mutexes, exits; `ServedSpec` | 13,878 | only an owner that ended, or a circle of owners, strands a waiter |
| MCTime | DelayExact | 2 tasks + idle, counter of 8, delays 0, 1, 4, 5, 6 | 919,920 | each delay ends at its tick, across wraps |
| MCLongDelay | DelayNeverEarly (violated) | counter of 8, delay 7 | | a delay beyond half the range ends at the first tick |
| MCIdle | IdleOnlyWhenNoneReady (violated) | 2 tasks + idle | | idle takes its turn in the round robin |
| MCWaitQueue | TypeOK, Shape, ImplementsWaitLine | 2 queues of at most 3, 4 nodes | 1,176 | every order of calls: the links are a list, and the answers those of a line, never CORRUPT |
| MCDamage | ValidateExact, IntactStaysIntact | 2 queues, 3 nodes, 2 fields overwritten; symmetry | 32,698 | validation accepts exactly the lists; no call damages an accepted queue |
| MCStacks | TypeOK, StacksDisjoint, ContextsIntact, PoolStaysUsable, RingClosed, UsageTruthful, IInv | 2 slots, 24 words, good and bad storage, pool, writes | 242,989 | no bad, wrapping or overlapping storage is admitted, nothing admitted is harmed, and a measurement is bounded by the history of writes |
| MCDemo | NoFailure, NoLostUpdate, EventsKept, SampleMatches, TokensKept | modes 0 to 5, times scaled to a few ticks | 541,046 | the applications of `main.c` never report a failure; no update or event is lost, and no token is lost or doubled |

**Bounds.** One counter is capped, and only in a history variable: `slept`, the
ticks a task has slept, saturates at `SleptLimit`, above every delay. Time wraps as
in the code (`SignBit` = 1 or 4 instead of 2^31; the comparison and the addition
depend on the width only through `SignBit`, and with 4 the cases 0, 1, exactly half,
half plus one and more are all different). `credit` is bounded by capacities and
threads. Three tasks are the fewest for an order among waiters while a third holds
the object, and two waiters plus a runner are the fewest for stealing; two semaphore
capacities (1 and 2) distinguish coalescing and counting. `InitialCounts` holds
negative, zero, in-range and out-of-range requests. In the wait queue, three members
are the fewest with a head, a middle and a tail, the fourth node finds the queue
full, and the second queue is the other one a node can stand in; two overwritten
fields are enough for a pair of links that agree with each other and not with the
list (`Damages` bounds them). In MCStacks the pool lies in
the middle of the address space and leaves room for one stack of a caller beside it;
`MAX_THREADS`, `WordLimit` and the sizes are scaled down, keeping guard, context and
free words apart, and `MCRequests` picks one storage of each kind: fitting and
adjacent to the pool, inside another, at address 0, misaligned, odd, empty, in the
pool, around it, across its edge, up to the end of the address space and beyond.
In MCDemo the periods are scaled to a few ticks. The quantum is not
scaled (2 ms), so the waits that have to outlast it shrink less than the pauses, and three
pairs are in the opposite order to the code's: in mode 3 the pause of the producer (500 ms
in the code, 2 in the run) and its wait for the woken task (100 and 4), in mode 4 the
pause (500 and 2) and the wait for the handoff (100 and 4), in mode 5 the period of the
reporter (1000 and 7) and its poll for an owner (100 and 8). The short pauses leave the
other tasks less time to settle before the next round than the code does. Each application starts from its own `Init`, and the counter of
time wraps several times; `HALF_MS_STEPS = 10` is below what 8000 cycles allow, so
more interleavings are explored than can happen. The proofs lift all these bounds for
the properties they cover. Symmetry is used in MCDamage only, where no definition
tells two queues or two nodes apart and the properties are safety; the ring orders the
threads of the kernel.

**Deadlock** is checked in every run. The only states without a successor other
than themselves are those in `Stopped`: the trap, and `osThreadExit` with every
interrupt masked. A call of the wait queue, or a measurement, is always possible.

**Fairness** (`Fairness` in TinyKernel). The pending bits of PendSV, SysTick and
TIM2 are latched by the hardware: a mask only delays the handler. So `Switch` is
weakly fair (nothing but the switch itself or a mask disables it), and `Quantum`
and `TIM2_IRQHandler` are strongly fair, because masks come and go. A thread that
has the processor executes instructions between two switches, a quantum being
far longer than a step: its calls (`FinishCall`) are strongly fair. A task leaves
a masked region some time (`RestoreMasks`): what the documentation requires of
callers. A task that returned from its function while masked never does
(`MaskedForever`); the liveness properties name that as the way in which a task stops
all others. `WaiterIsServed` needs the application too: handlers go on giving, and
a task that executes and owns a mutex calls `osMutexGive` for it some time, for each
of its mutexes. Where the owner cannot, because it ended or waits itself, the waiter
may be `Stranded`: the property says that nothing but such a set of tasks, closed
under "waits for the owner of", lets a Take wait for ever. MCDemo states no fairness: its
properties are safety, and the timeouts of the applications turn a missing step into
a failure.

## 4. Proofs

`TinyKernel_proof.tla` proves, for every `N` in 1..8, every set of semaphores and
mutexes, every capacity, counter width and choice of calls, that `IInv` is an
invariant (`Invariance`), and with it

* `TypeCorrectness`, `DispatchSafety`, `WaitRelationSafety`, `WakeupSafety`,
  `MutualExclusionSafety`, `SnapshotSafety`, `FaultSafety`.

Assumptions are those on the constants: `N` is between 1 and `OS_MAX_THREADS`,
`SignBit` is positive, semaphores, mutexes, threads and NULL are different,
capacities are positive and 1 for binary semaphores, delays fit the counter.

**The argument.** None of the properties is inductive alone. That only READY
threads execute needs the scheduler to find one: it does because idle is always
READY (`CallMatchesTcb`: only a task that went through a blocking call is not),
so the tries cannot run out on a thread that waits (`SchedulerChoosesReady`). It
needs each blocking step to leave a switch that is due: a caller whose masks
would hold PendSV off is refused, and the refusal is decided on a snapshot which
is still true (`SnapshotValid`: masks belong to the processor, and no switch
happens while one is set). That the kernel's own checks never fail
(`FaultOnlyOnMisuse`) needs `WaitRelation` for the TCBs and a bound on the
queues: they are injective and never contain the caller, so `Cardinality` gives
them room (`QueueHasRoom`). `MutualExclusion` is stated with the owner that has
not returned yet: a waiter that was handed the mutex, is READY and still inside
its Take. `BeforeLaunch` says that nobody waits, or masks, before the launch.

The steps that join and leave queues are factored out (`EnqueueFacts`,
`DequeueFacts`, `OldestWaiter`, `BlockStep`, `HandoffStep`, `GiveStep`); each
action has a lemma of its own, and `NextStep` collects them.

On top of the invariant, `TinyKernelSteps_proof` proves what relates states to histories
and to the abstract specifications (the first four below) and what a step may never do,
with a lemma per action:

* `TokenConservationSafety`: a grant is a task made READY by a Give that has not
  returned (`HasGrant`); `GiveTokens`, `TakeTokens` and `ReturnTokens` follow value,
  credit and the Cardinality of the grants through the steps that move a token, and
  `NoTokenMoves` disposes of the others.
* `FifoRefinement`: initial states map to initial states (`FifoLock`'s, through the
  mapping `Lock(m)`), a Take is an Ask (`TakeIsAsk`), its return an Enter
  (`ReturnIsEnter`), a Give a Leave (`GiveIsLeave`), anything else a stutter
  (`EveryStepIsLockStep`).
* `SemaphoreRefinement`: the same for each semaphore and `FifoSemaphore`, through
  `Gate(s)`. A Give serves the head of the line or stores, a Take takes a token or
  joins the line, the return of a waiter ends its grant; `Quiet` steps, which move
  no token, grant or taker, are stutters (`QuietGates`, `EveryStepIsGatesStep`).
* `WaitLineUse`: every wait transition joins (`BlockJoins`) or serves (`WakeServes`) one
  line, as the lines grant it; the checks of the code before each transition are what
  the contract of the queue asks for.
* `DelaySafety`: for a counter of more than one bit. `Asleep` is the countdown: what is
  left of a delay is its argument less the ticks slept, and the wake-up time is that
  far ahead of `osTimeMs`. `LastTick` is the arithmetic of the signed comparison;
  `CountdownStep` is the tick, `SleepStep` the start, and every other step leaves
  the sleepers alone (`SleepersStay`), because a task that executes does not sleep.
* `RefusalSafety`: a failing wait operation has changed nothing
  (`FailedWaitKeepsState`), from the types alone.
* `ContractSafety`: what `FaultOnlyOnMisuse` leaves to an application that keeps to the
  contract (`Disciplined`: its handlers give semaphores at most, its tasks set no masks
  of their own). Once launched it is halted by nothing but its own recursive
  `osMutexTake`. The kernel's own checks report a damaged queue at most (`OwnChecks`),
  which the invariant excludes, and only a handler's task-only call faults in handler
  context (`NoHandlerFault`).
* `RoundRobinSafety`: the distance in the ring (`Behind`) from the processor to a thread
  that stays READY shrinks with every switch that does not dispatch it, so it waits for
  at most N - 1 of them. A hop of the search brings it nearer to every thread but those
  it lands on (`HopBehind`), the search lands on no READY thread without stopping
  (`SchedulerPassesNobody`), and nothing but PendSV moves the processor or answers a
  request to switch (`OnlySwitchDispatches`). With `ReadyIsDispatched` of MCLive it
  gives the bound that fairness alone does not.

`WaitQueue_proof.tla` is for any queues, nodes, capacity and number of overwritten
fields. The walk of the validation exists and is unique (least counterexamples, in the
place of an induction), so `AcceptedList` and `ListAccepted` tie it to the reference
definition `IsList`: `ValidationSafety`. `LinkStep` and `UnlinkStep` show that
`linkNode` and `unlinkNode` edit the one list and keep every other one: `IntactSafety`
under damage, and without it `ShapeSafety`, where `Shape` is the inductive invariant:
that each queue is a list does not survive a push unless unlinked nodes have no links
and a node's container is the queue it stands in. `WaitLineRefinement` then reads the
answers: a push is a Join, a pop a Serve, a remove a Withdraw.

`ThreadStacks_proof.tla` is for any sizes, pool, address width and requests that meet
the static assertions. A range that `stackRange` accepts does not wrap (`EndFits`), so
`overlaps` decides whether two of them share a word (`Apart`). The invariant is
`Layout` with `Pristine`: between the guard and the deepest word written there is the
pattern, which no write of another thread disturbs because the stacks are disjoint.
`DisjointSafety`, `ContextSafety`, `PoolSafety`, `RingSafety` and `UsageSafety` follow.
`PoolSafety` says more than the comment at `osKernelThread.c:85-86`: without the
reservation of the pool a later legacy creation would be refused, not overwrite a
task, since the overlap loop tests pool stacks too.

**The applications.** `Demo_proof.tla` says once what each form of an application's
step does to the kernel: own code leaves it alone (`DoesFacts`), the first step of a
call moves its task only (`CallsFacts`), the rest of a call ends in no fault and moves
`held` and `credit` as the call promises (`InCallsFacts`, from `IInv`), a Give credits
what it accepts (`GivesFacts`), and the timers, the switch and the idle loop touch no
task's call (`SystemFacts`). `UpFacts` is the arithmetic of a counter that wraps.

`MutexDemo_proof.tla` is about mode 5 with any delays, counter width, processor and UART
speed. `MutexMode` fixes what `main` fixes: three tasks beside idle, a mutex, delays that
are legal arguments. The invariant `MutexInv` ties the statement of each task to its
call (`InItsCall`), to what it holds (`HeldInSection`), to the marks it leaves while it is
inside (`ActiveInSection`, `BeforeIsShared`) and to the masks (`MaskedReporter`), and says
what the answers of the Gives are (`Answers`, `Rejection`); `ModeStep` collects the lemmas
about the statements.

* `MutexModeIsKernel`: every behaviour of the mode is one of TinyKernel, so the theorems
  above hold in it.
* `HaltSafety`: no call is ever refused.
* `UpdateSafety` (`NoLostUpdate`): the counter that a worker reads before a delay and
  writes after it is what both workers have counted.
* `FailureSafety` (`NoFailure`): no check fails while the reporter is never `Late`. `Late`
  is the state in which the reporter is about to count a failure of time: it saw nobody
  inside for `POLL_MS`, or a worker wrote nothing since the last report. How long a task
  may take is not in the power of an untimed proof; that no such state is reached with the
  speeds of the board is what MCDemo checks. The checks of ownership, exclusion and of
  the rejected foreign Give need no such help.

Modes 0 and 4 have tasks that only sleep and take one semaphore, and a second part of
`Demo_proof` is about any such application. A table `f` lists, for each statement of each
task, the call before it; `Standing(f, s)` is the invariant of the kernel with the
agreement between statements and calls. Every form of a step keeps it and does one of
six things to the semaphore: `Left`, `Stored`, `HandedOver`, `TakenAtOnce`, `Blocked`,
`Resumed` (`OwnCode`, `CallBegins`, `CallGoesOn`, `GiveIsAnswered`, `SystemLeaves`). A
proof about a mode gives the table and follows its counters through these.

`SemaphoreDemo_proof.tla` is about mode 0, under the same generality. An event is under
way from the count of the producer to that of the consumer; `Kept` writes it as what is
about to be signalled, plus the `credit` of the semaphore, plus what the consumer took.
Credit moves only when a Give is accepted and when a Take returns, so the steps of the
kernel between the two do not matter, and `TokenConservation` turns it back into what
is stored and what was granted (`KeptMeansEventsKept`).

* `SemaphoreModeIsKernel` and `HaltSafety` (`NoFailure`): as for mode 5, whatever the timing.
* `EventSafety` (`EventsKept`): no event is lost or counted twice, unless the producer
  signals one while the last one is still stored (`Coalesces`), which the binary
  semaphore is meant to coalesce. That the consumer is in time is what MCDemo checks.
* `SampleSafety` (`SampleMatches`): every line shows equal counters, as long as the
  producer never counts an event before the consumer waits for it (`Overtakes`). Then
  every event is handed over and none is stored (`Prompt`), so when the consumer prints
  none is under way.

`CountingDemo_proof.tla` is about mode 4, for any delays, limits, processor and UART speed
and any counter that holds a burst.

* `CountingModeIsKernel`: as above.
* `TokenSafety` (`TokensKept`): whatever the timing, the consumer gets exactly the tokens
  that `osCountSemGive` told the producer were accepted, neither a rejected one nor one
  twice. `Kept` balances the two counts with the credit, as in mode 0, but needs no
  condition: what is rejected is not counted as accepted.
* `FailureSafety` (`NoFailure`): no call is refused and no check of the producer fails
  while nobody is `Late`: the consumer woke up before the burst was over, or has not
  drained the semaphore within a limit. The invariant `Timed` says why the other checks
  hold: while the consumer sleeps, the accepted Gives are what is stored, and nothing is
  rejected before it is full (`InBurst`), so five Gives are three and two; afterwards the
  producer gives only to a consumer that waits (`AfterBurst`), so nothing is rejected again
  or stored. That no such state is reached with the times of the code is MCDemo's.

The properties of the run MCDemo are those of the application modules, guarded by the
mode; the theorems are about the application modules themselves.

**Only model-checked:** the liveness properties (`ReadyIsDispatched`, `DelayReturns`,
`WaiterIsServed`: fairness and ENABLED are beyond the prover); `NoFailure` in modes 1 to 3;
the timing that the theorems about modes 0, 4 and 5 assume (`Coalesces`, `Overtakes`,
`Late`), which depends on how long delays, prints and half milliseconds are, so a proof
would need bounds on the speed of every step; and the two violated runs.

## 5. Divergences between documentation and code

* `osKernel.c:349-350` promises that a delayed thread does not run before its
  wake-up time. The signed comparison of `osWakeSleeping` holds a wake-up time
  more than 2^31 ms ahead for one in the past: such a delay ends at the next
  tick (MCLongDelay). `DelayExact` states what does hold: up to 2^31 + 1 ms.
* `osKernel.c:85` says that idle runs when no other thread is ready. It is in the
  ring and READY, so every round gives it a turn (MCIdle); it yields at once when
  an interrupt wakes it. Nothing starves, but up to a quantum is idle time.

## 6. Not modelled

Register frames, floating-point context and the stack switch of PendSV and the
bootstrap (the switch is the change of `currentPt`); the SysTick reload value and
the length of a quantum; wall-clock time: a tick that is missed because TIM2 stayed
masked for more than a millisecond is not seen by the kernel and not by the model;
memory barriers (one core, in-order); drivers, C runtime, startup code; the owner
payload of list nodes; a task that writes beyond the guard of its stack, and the
bytes of the initial register frame. Modes 6 and 7 of `main.c` print measurements of
the stacks, which depend on what the compiler puts there; ThreadStacks covers the calls
they make with arbitrary writes. The host tests and their fakes are not part of the
product. Nearly all lines of the repository are the vendored CMSIS and chip headers
(`chip_headers/`, 350,000 lines of register definitions), which have no behaviour to
model; of the kernel's own files every function that changes state of the kernel is mapped.
A BASEPRI mask is taken to hold back PendSV and
SysTick only; one that holds back TIM2 as well only removes behaviours.

## 7. What could follow

* The ticks that a long mask loses (`osKernel.c:75`), for which TinyKernel would need
  the clock that Demo has.
* Proofs about modes 1 to 3: that they are behaviours of the kernel and halt it never,
  and the parts of their checks that do not depend on time. Mode 3 has the form that
  `Standing` describes; its order of wake-ups follows from that of the queue.
