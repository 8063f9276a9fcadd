-------------------------- MODULE MutexDemo_proof --------------------------
(***************************************************************************)
(* Proofs about mode 5 of Src/main.c, for every length of its delays, every *)
(* speed of the processor and of the UART, and every width of its          *)
(* counters: no update of the shared counter is lost, the kernel never     *)
(* halts, and the test fails for no other reason than that time ran out.   *)
(*                                                                         *)
(* The invariant ties the statement at which a task is to the call it is   *)
(* in and to the mutex: a task holds it from the return of its osMutexTake *)
(* to that of its osMutexGive, and the reporter never waits, sleeps or     *)
(* gives up the processor while it masks interrupts.                        *)
(***************************************************************************)
EXTENDS MutexDemo, Demo_proof

\* What main sets up in mode 5: three tasks beside the idle one, and the mutex.
MutexMode ==
  /\ N = 4 /\ testMutex \in Mutexes
  /\ {INSIDE_MS, REPORT_MS} \subseteq Delays
  /\ POLL_MS \in Nat
  /\ CounterLimit \in Nat \ {0}

ModeSpec == AppInit /\ [][AppNext]_demoVars

(***************************************************************************)
(* The inductive invariant.                                                *)
(***************************************************************************)
Workers == {A, B}
Counts == 0..(CounterLimit - 1)

WorkerStatements ==
  {"top", "in", "enter", "read", "hold", "held", "write", "count", "leave", "give", "gave"}
ReporterStatements ==
  {"top", "begin", "poll", "look", "gaveForeign", "seen", "retry", "take", "judge", "give",
   "gave", "print"}

DataType ==
  [shared : Counts, writes : [Workers -> Counts], moved : [Workers -> BOOLEAN],
   before : [Workers -> Counts], active : Workers \cup {NULL},
   start : Time, rejected : BOOLEAN, failed : BOOLEAN]

Typed ==
  /\ at \in [Tasks -> WorkerStatements \cup ReporterStatements]
  /\ \A w \in Workers : at[w] \in WorkerStatements
  /\ at[Reporter] \in ReporterStatements
  /\ gave \in [Tasks -> BOOLEAN]
  /\ data \in DataType

\* The call that a task makes before it reaches statement l.
CallBefore(l) ==
  IF l \in {"in", "judge"} THEN "MUTEX_TAKE"
  ELSE IF l \in {"gave", "gaveForeign"} THEN "MUTEX_GIVE"
  ELSE IF l \in {"held", "begin"} THEN "DELAY" ELSE "NONE"

\* A task that is in a call is in the one its statement waits for.
InItsCall ==
  \A t \in Tasks : pc[t] # "run" =>
    /\ pc[t] \in {"checked", "resume"}
    /\ call[t] = CallBefore(at[t])
    /\ call[t] \in {"MUTEX_TAKE", "MUTEX_GIVE"} => arg[t] = testMutex

Section == {"enter", "read", "hold", "held", "write", "count", "leave", "give"}

Holds(t) ==
  \/ at[t] \in Section
  \/ at[t] \in {"in", "judge"} /\ pc[t] = "run"
  \/ at[t] = "gave" /\ pc[t] # "run"

HeldInSection == \A t \in Tasks : testMutex \in held[t] <=> Holds(t)

ActiveInSection ==
  \A w \in Workers :
    data.active = w <=> at[w] \in {"read", "hold", "held", "write", "count", "leave"}

BeforeIsShared ==
  \A w \in Workers : at[w] \in {"hold", "held", "write"} => data.before[w] = data.shared

MaskedReporter ==
  /\ masks \subseteq {"PRIMASK"}
  /\ masks # {} => currentPt = Reporter /\ at[Reporter] \in {"look", "gaveForeign", "seen"}

\* osMutexGive answers TRUE to the owner and FALSE to the reporter's foreign Give.
Answers ==
  \A t \in Tasks : pc[t] = "run" =>
    /\ at[t] = "gave" => gave[t]
    /\ at[t] = "gaveForeign" => ~gave[t]

Rejection ==
  at[Reporter] \in {"seen", "take", "judge"} => data.rejected \/ data.failed

MutexInv ==
  /\ Alive
  /\ Typed
  /\ InItsCall
  /\ HeldInSection
  /\ ActiveInSection
  /\ BeforeIsShared
  /\ NoLostUpdate
  /\ MaskedReporter
  /\ Answers
  /\ Rejection

(***************************************************************************)
(* Lemmas.                                                                 *)
(***************************************************************************)

\* The three tasks of the mode.
LEMMA Members ==
  ASSUME MutexMode
  PROVE  /\ Tasks = {A, B, Reporter} /\ Workers \subseteq Tasks
         /\ NULL \notin Tasks /\ "PRIMASK" \in MaskRegisters
  BY ObjectsAssumption DEF MutexMode, Tasks, Threads, Idle, A, B, Reporter, Workers,
     MaskRegisters

\* Only one task at a time is in the section.
LEMMA OneHolder ==
  ASSUME MutexMode, IInv, MutexInv, NEW t \in Tasks, NEW u \in Tasks, Holds(t), Holds(u)
  PROVE  t = u
  BY DEF MutexMode, IInv, MutualExclusion, MutexInv, HeldInSection, Tasks

\* The counters agree as long as neither they nor the writers at "count" change.
LEMMA SameCounts ==
  ASSUME NoLostUpdate, UNCHANGED <<data.shared, data.writes>>,
         \A w \in Workers : at'[w] = "count" <=> at[w] = "count"
  PROVE  NoLostUpdate'
<1>1. {w \in {A, B} : at'[w] = "count"} = {w \in {A, B} : at[w] = "count"}
  BY DEF Workers
<1> QED BY <1>1 DEF NoLostUpdate

\* main: before the first statement nobody holds the mutex and every counter is 0.
LEMMA InitMutexInv ==
  ASSUME MutexMode, AppInit
  PROVE  MutexInv
<1>1. /\ at = [t \in Tasks |-> "top"] /\ gave = [t \in Tasks |-> FALSE]
      /\ data = [shared |-> 0, writes |-> [w \in Workers |-> 0],
                 moved |-> [w \in Workers |-> FALSE],
                 before |-> [w \in Workers |-> 0], active |-> NULL,
                 start |-> 0, rejected |-> FALSE, failed |-> FALSE]
  BY DEF AppInit, DemoInit, Workers
<1>2. /\ \A t \in Tasks : pc[t] = "run" /\ held[t] = {} /\ at[t] = "top"
      /\ masks = {} /\ fault = NoFault
  BY <1>1 DEF AppInit, DemoInit, Init, PortInit, Tasks
<1>3. 0 \in Counts /\ 0 \in Time
  BY SignBitAssumption DEF MutexMode, Counts, Time
<1>4. data \in DataType
  BY <1>1, <1>3 DEF DataType
<1>5. Typed
  BY <1>1, <1>4, Members DEF Typed, WorkerStatements, ReporterStatements
<1>6. InItsCall /\ HeldInSection /\ MaskedReporter /\ Answers /\ Rejection
  BY <1>2, Members DEF InItsCall, HeldInSection, Holds, Section, MaskedReporter, Answers,
     Rejection
<1>7. ActiveInSection /\ BeforeIsShared
  BY <1>1, <1>2, Members DEF ActiveInSection, BeforeIsShared
<1>8. NoLostUpdate
  <2>1. {w \in {A, B} : at[w] = "count"} = {}
    BY <1>2, Members DEF Workers
  <2>2. 0 % CounterLimit = 0
    BY DEF MutexMode
  <2>3. data.shared = 0 /\ data.writes[A] = 0 /\ data.writes[B] = 0
    BY <1>1 DEF Workers
  <2>4. Cardinality({w \in {A, B} : at[w] = "count"}) = 0
    BY <2>1, FS_EmptySet
  <2>5. data.writes[A] + data.writes[B] + 0 = 0
    BY <2>3
  <2> QED BY <2>2, <2>3, <2>4, <2>5 DEF NoLostUpdate
<1> QED BY <1>2, <1>5, <1>6, <1>7, <1>8 DEF MutexInv, Alive

\* Only the reporter runs while interrupts are masked, at three statements.
LEMMA Unmasked ==
  ASSUME MutexMode, IInv, MutexInv, NEW t \in Tasks, Executes(t),
         t # Reporter \/ at[t] \notin {"look", "gaveForeign", "seen"}
  PROVE  masks = {}
  BY TaskContext DEF MutexInv, MaskedReporter

\* What t may stand at.
StatementsOf(t) == IF t = Reporter THEN ReporterStatements ELSE WorkerStatements

\* A statement of a task's own code leaves it on the same side of the mutex.
LEMMA OwnStep ==
  ASSUME MutexMode, IInv, MutexInv, NEW t \in Tasks, NEW l, NEW next,
         Does(t, l, next) \/ Prints(t, l, next),
         data' \in DataType, next \in StatementsOf(t), CallBefore(next) = "NONE",
         next \in Section <=> l \in Section \cup {"in", "judge"},
         l = "gaveForeign" => next = "seen", l \notin {"look", "seen"}
  PROVE  /\ [Next]_vars /\ Alive' /\ Typed' /\ InItsCall' /\ HeldInSection'
         /\ MaskedReporter' /\ Answers'
         /\ at'[t] = next /\ \A u \in Tasks \ {t} : at'[u] = at[u]
<1>1. /\ UNCHANGED <<vars, gave>>
      /\ Executes(t) /\ pc[t] = "run" /\ at[t] = l /\ at' = [at EXCEPT ![t] = next]
  BY DoesFacts
<1>2. UNCHANGED <<fault, masks, currentPt, pc, call, arg, held, gave>>
  BY <1>1 DEF vars, portVars, kernelVars, taskVars, historyVars
<1>3. at'[t] = next /\ \A u \in Tasks \ {t} : at'[u] = at[u]
  BY <1>1 DEF MutexInv, Typed
<1>4. Typed'
  BY <1>1, <1>2, Members DEF MutexInv, Typed, StatementsOf, Workers, A, B, Reporter,
     WorkerStatements, ReporterStatements
<1>5. InItsCall'
  BY <1>1, <1>2, <1>3 DEF MutexInv, InItsCall
<1>6. Holds(t)' <=> Holds(t)
  BY <1>1, <1>2, <1>3 DEF Holds, CallBefore, Section
<1>7. HeldInSection'
  BY <1>2, <1>3, <1>6 DEF MutexInv, HeldInSection, Holds
<1>8. Answers'
  BY <1>1, <1>2, <1>3 DEF MutexInv, Answers, CallBefore
<1>9. MaskedReporter'
  <2>1. CASE t = Reporter /\ l = "gaveForeign"
    BY <1>1, <1>2, <1>3, <2>1 DEF MutexInv, MaskedReporter
  <2>2. CASE t # Reporter \/ l # "gaveForeign"
    <3>1. masks = {}
      BY <1>1, <2>2, Unmasked
    <3> QED BY <1>2, <3>1 DEF MaskedReporter
  <2> QED BY <2>1, <2>2
<1> QED BY <1>1, <1>2, <1>3, <1>4, <1>5, <1>7, <1>8, <1>9 DEF MutexInv, Alive

Active == {"read", "hold", "held", "write", "count", "leave"}

\* The first step of a call: the caller of osMutexGive goes on holding the mutex, that
\* of osMutexTake does not hold it yet.
LEMMA CallStep ==
  ASSUME MutexMode, IInv, MutexInv, NEW t \in Tasks, NEW l, NEW next,
         NEW c \in {"DELAY", "MUTEX_TAKE", "MUTEX_GIVE"}, NEW a \in Arguments(c),
         Calls(t, l, c, a, next),
         next \in StatementsOf(t), CallBefore(next) = c, c # "DELAY" => a = testMutex,
         l \in Section <=> next \in Section \cup {"gave"}, l \notin {"in", "judge", "gave"},
         l \in Active <=> next \in Active, next \in {"hold", "held", "write"} => l = "hold",
         l # "count", next # "count",
         next = "judge" => l = "take", next \notin {"seen", "take"},
         IF l = "look" THEN c # "DELAY" /\ next = "gaveForeign"
                       ELSE l \notin {"seen", "gaveForeign"}
  PROVE  MutexInv' /\ [Next]_vars /\ UNCHANGED data
<1>0. Executes(t) /\ at[t] = l
  BY DEF Calls, CheckContext
<1>1. l # "look" => masks = {}
  BY <1>0, Unmasked
<1>2. /\ [Next]_vars
      /\ Executes(t) /\ pc[t] = "run" /\ at[t] = l /\ at' = [at EXCEPT ![t] = next]
      /\ pc' = [pc EXCEPT ![t] = "checked"]
      /\ call' = [call EXCEPT ![t] = c] /\ arg' = [arg EXCEPT ![t] = a]
      /\ UNCHANGED <<portVars, kernelVars, held, data, gave>>
  <2>1. c \in ContextCalls /\ (c = "DELAY" => masks = {})
    BY <1>1 DEF ContextCalls
  <2>2. Begins(t, l, c, a, next)
    BY <2>1, CallsFacts
  <2> QED BY <2>2 DEF Begins
<1>3. t \in Threads /\ UNCHANGED <<fault, masks, currentPt, held, data, gave>>
  BY <1>2 DEF portVars, kernelVars, Tasks
<1>4. /\ at'[t] = next /\ pc'[t] = "checked" /\ call'[t] = c /\ arg'[t] = a
      /\ \A u \in Tasks \ {t} :
           /\ at'[u] = at[u] /\ pc'[u] = pc[u]
           /\ call'[u] = call[u] /\ arg'[u] = arg[u]
  BY <1>2, <1>3 DEF MutexInv, Typed, IInv, TypeOK, Tasks
<1>5. Typed'
  BY <1>2, <1>3, Members DEF MutexInv, Typed, StatementsOf, Workers, A, B, Reporter,
     WorkerStatements, ReporterStatements
<1>6. InItsCall'
  BY <1>3, <1>4 DEF MutexInv, InItsCall
<1>7. Holds(t)' <=> Holds(t)
  BY <1>2, <1>4 DEF Holds, Section
<1>8. HeldInSection'
  BY <1>3, <1>4, <1>7 DEF MutexInv, HeldInSection, Holds
<1>9. ActiveInSection' /\ BeforeIsShared'
  BY <1>2, <1>3, <1>4, Members DEF MutexInv, ActiveInSection, BeforeIsShared, Active
<1>10. NoLostUpdate'
  BY <1>2, <1>3, <1>4, Members, SameCounts DEF MutexInv
<1>11. MaskedReporter'
  <2>1. CASE l = "look"
    BY <1>2, <1>3, <1>4, <2>1 DEF MutexInv, MaskedReporter
  <2>2. CASE l # "look"
    BY <1>1, <1>3, <2>2 DEF MaskedReporter
  <2> QED BY <2>1, <2>2
<1>12. Answers'
  BY <1>3, <1>4 DEF MutexInv, Answers
<1>13. Rejection'
  BY <1>2, <1>3, <1>4, Members DEF MutexInv, Rejection
<1> QED BY <1>2, <1>3, <1>5, <1>6, <1>8, <1>9, <1>10, <1>11, <1>12, <1>13
        DEF MutexInv, Alive

\* The rest of a call: osMutexTake returns with the mutex, osMutexGive without it, and
\* none is refused, since nobody takes it twice or waits while masked.
LEMMA InCallStep ==
  ASSUME MutexMode, IInv, MutexInv, NEW t \in Tasks, InCalls(t)
  PROVE  MutexInv' /\ [Next]_vars /\ UNCHANGED data
<1>1. Executes(t) /\ pc[t] # "run"
  BY DEF InCalls, FinishCall, osDelay, Take, MutexTake, MutexGive, Return, BlockingFault, InCall
<1>2. t \in Threads /\ t = currentPt
  BY <1>1, TaskContext
<1>3. /\ pc[t] \in {"checked", "resume"} /\ call[t] = CallBefore(at[t])
      /\ call[t] \in {"MUTEX_TAKE", "MUTEX_GIVE"} => arg[t] = testMutex
  BY <1>1 DEF MutexInv, InItsCall
<1>4. call[t] \in {"DELAY", "MUTEX_TAKE", "MUTEX_GIVE"}
  BY <1>2, <1>3 DEF IInv, CallMatchesTcb, CallBefore
<1>5. /\ at[t] \in {"in", "judge"} <=> call[t] = "MUTEX_TAKE"
      /\ at[t] \in {"gave", "gaveForeign"} <=> call[t] = "MUTEX_GIVE"
      /\ at[t] \in {"held", "begin"} <=> call[t] = "DELAY"
  BY <1>3, <1>4 DEF CallBefore
<1>6. testMutex \in held[t] <=> at[t] \in {"gave", "held"}
  BY <1>1, <1>4, <1>5 DEF MutexInv, HeldInSection, Holds, Section
<1>7. call[t] = "MUTEX_TAKE" => masks = {} /\ arg[t] \notin held[t]
  BY <1>1, <1>3, <1>5, <1>6, Unmasked
<1>8. gave \in [Tasks -> BOOLEAN]
  BY DEF MutexInv, Typed
<1>9. /\ [Next]_vars /\ Alive' /\ UNCHANGED <<masks, running, currentPt, at, data>>
      /\ Executes(t) /\ pc[t] \in {"checked", "resume"}
      /\ \A u \in Tasks \ {t} :
           /\ pc'[u] = pc[u] /\ call'[u] = call[u] /\ arg'[u] = arg[u]
           /\ held'[u] = held[u] /\ gave'[u] = gave[u]
      /\ gave' \in [Tasks -> BOOLEAN]
      /\ \/ /\ pc'[t] = "resume" /\ call[t] # "MUTEX_GIVE"
            /\ call'[t] = call[t] /\ arg'[t] = arg[t] /\ held'[t] = held[t]
         \/ pc'[t] = "run" /\ call[t] = "DELAY" /\ held'[t] = held[t]
         \/ /\ pc'[t] = "run" /\ call[t] = "MUTEX_TAKE"
            /\ held'[t] = held[t] \cup {arg[t]}
         \/ /\ pc[t] = "checked" /\ pc'[t] = "run" /\ call[t] = "MUTEX_GIVE"
            /\ held'[t] = held[t] \ {arg[t]} /\ gave'[t] = (arg[t] \in held[t])
  BY <1>3, <1>4, <1>7, <1>8, InCallsFacts
<1>10. Typed' /\ ActiveInSection' /\ BeforeIsShared' /\ NoLostUpdate' /\ MaskedReporter'
       /\ Rejection'
  BY <1>9 DEF MutexInv, Typed, ActiveInSection, BeforeIsShared, NoLostUpdate, MaskedReporter,
     Rejection
<1>11. InItsCall'
  BY <1>3, <1>9 DEF MutexInv, InItsCall
<1>12. HeldInSection'
  <2>1. testMutex \in held'[t] <=> Holds(t)'
    BY <1>3, <1>4, <1>5, <1>6, <1>9 DEF Holds, Section
  <2> QED BY <1>9, <2>1 DEF MutexInv, HeldInSection, Holds
<1>13. Answers'
  <2>1. pc'[t] = "run" => (at[t] = "gave" => gave'[t]) /\ (at[t] = "gaveForeign" => ~gave'[t])
    BY <1>3, <1>5, <1>6, <1>9
  <2> QED BY <1>9, <2>1 DEF MutexInv, Answers
<1> QED BY <1>9, <1>10, <1>11, <1>12, <1>13 DEF MutexInv

\* The timers, the switch, the idle loop and the launch move no task.
LEMMA SystemStep ==
  ASSUME MutexMode, IInv, MutexInv,
         \/ (IdleYield \/ Switch) /\ UNCHANGED appVars
         \/ Millisecond \/ EndOfQuantum \/ Start
  PROVE  MutexInv' /\ [Next]_vars /\ UNCHANGED data
<1>1. /\ [Next]_vars
      /\ UNCHANGED <<fault, call, arg, errs, held, at, data, gave>>
      /\ \A t \in Tasks : pc'[t] = pc[t]
      /\ masks' \subseteq masks
      /\ masks # {} => UNCHANGED currentPt
  BY SystemFacts
<1>2. Alive' /\ Typed' /\ InItsCall' /\ HeldInSection'
  BY <1>1 DEF MutexInv, Alive, Typed, InItsCall, HeldInSection, Holds
<1>3. ActiveInSection' /\ BeforeIsShared' /\ NoLostUpdate' /\ Answers' /\ Rejection'
  BY <1>1 DEF MutexInv, ActiveInSection, BeforeIsShared, NoLostUpdate, Answers, Rejection
<1>4. MaskedReporter'
  BY <1>1 DEF MutexInv, MaskedReporter
<1> QED BY <1>1, <1>2, <1>3, <1>4 DEF MutexInv

\* The reporter masks interrupts to look, and unmasks them to go on.
LEMMA ReporterMasks ==
  ASSUME MutexMode, IInv, MutexInv, NEW t \in Tasks, t = Reporter,
         \/ Masks(t, "poll", "look")
         \/ Unmasks(t, "seen", "take") \/ Unmasks(t, "look", "retry")
         \/ Yields(t, "retry", "poll")
  PROVE  MutexInv' /\ [Next]_vars /\ UNCHANGED data
<1>1. PICK l \in {"poll", "seen", "look", "retry"},
           next \in {"look", "take", "retry", "poll"} :
        /\ <<l, next>> \in {<<"poll", "look">>, <<"seen", "take">>, <<"look", "retry">>,
                           <<"retry", "poll">>}
        /\ IF l = "poll" THEN Masks(t, l, next)
           ELSE IF l = "retry" THEN Yields(t, l, next) ELSE Unmasks(t, l, next)
  OBVIOUS
<1>2. /\ [Next]_vars
      /\ Executes(t) /\ pc[t] = "run" /\ at[t] = l /\ at' = [at EXCEPT ![t] = next]
      /\ UNCHANGED <<fault, running, currentPt, taskVars, held, data, gave>>
      /\ l = "poll" => masks' = masks \cup {"PRIMASK"}
      /\ l = "retry" => masks' = masks
      /\ l \notin {"poll", "retry"} => masks' = masks \ {"PRIMASK"}
  <2>1. CASE l = "poll"
    <3>1. Masks(t, l, next)
      BY <1>1, <2>1
    <3> QED BY <2>1, <3>1, MaskFacts DEF kernelVars
  <2>2. CASE l = "retry"
    BY <1>1, <2>2, YieldsFacts DEF portVars
  <2>3. CASE l \notin {"poll", "retry"}
    <3>1. Unmasks(t, l, next) /\ l \in {"seen", "look"}
      BY <1>1, <2>3
    <3>2. ~Masks(t, l, next) \/ masks' = masks \cup {"PRIMASK"}
      BY MaskFacts
    <3>3. masks' = masks \ {"PRIMASK"}
      BY <3>1 DEF Unmasks, ClearMask
    <3> QED BY <2>3, <3>1, <3>3, MaskFacts DEF kernelVars
  <2> QED BY <2>1, <2>2, <2>3
<1>3. t \in Threads /\ t = currentPt
  BY <1>2, TaskContext
<1>4. /\ UNCHANGED <<pc, call, arg, held, gave, data, currentPt, fault>>
      /\ at'[t] = next /\ \A u \in Tasks \ {t} : at'[u] = at[u]
  BY <1>2 DEF taskVars, MutexInv, Typed
<1>5. Typed'
  BY <1>1, <1>2, <1>4, Members DEF MutexInv, Typed, Workers, A, B, Reporter, ReporterStatements
<1>6. Alive' /\ InItsCall' /\ HeldInSection' /\ Answers'
  BY <1>1, <1>2, <1>4 DEF MutexInv, Alive, InItsCall, HeldInSection, Holds, Section, Answers
<1>7. \A w \in Workers : at'[w] = at[w]
  BY <1>4, Members DEF Workers, A, B, Reporter
<1>8. ActiveInSection' /\ BeforeIsShared' /\ NoLostUpdate'
  BY <1>4, <1>7, SameCounts DEF MutexInv, ActiveInSection, BeforeIsShared
<1>9. MaskedReporter'
  BY <1>1, <1>2, <1>3, <1>4 DEF MutexInv, MaskedReporter
<1>10. Rejection'
  BY <1>1, <1>2, <1>4 DEF MutexInv, Rejection
<1> QED BY <1>2, <1>4, <1>5, <1>6, <1>8, <1>9, <1>10 DEF MutexInv

\* Counters wrap inside their type.
LEMMA UpType ==
  ASSUME MutexMode, NEW n \in Counts
  PROVE  Up(n) \in Counts
<1>1. CounterLimit \in Nat \ {0} /\ n \in Nat
  BY DEF MutexMode, Counts
<1> QED BY <1>1, UpFacts DEF Counts

\* A check of the test program changes the flag "failed" only.
LEMMA FailsFacts ==
  ASSUME data \in DataType, NEW passed \in BOOLEAN
  PROVE  /\ Fails(passed) \in DataType
         /\ Fails(passed).shared = data.shared /\ Fails(passed).writes = data.writes
         /\ Fails(passed).before = data.before /\ Fails(passed).active = data.active
         /\ Fails(passed).rejected = data.rejected
         /\ Fails(passed).failed = (data.failed \/ ~passed)
  BY DEF DataType, Fails

\* What a check leaves alone.
LEMMA FailsKeeps ==
  ASSUME MutexMode, MutexInv, NEW passed \in BOOLEAN, data' = Fails(passed),
         \A w \in Workers :
           /\ at'[w] \in Active <=> at[w] \in Active
           /\ at'[w] \in {"hold", "held", "write"} => at[w] \in {"hold", "held", "write"}
           /\ at'[w] = "count" <=> at[w] = "count"
  PROVE  ActiveInSection' /\ BeforeIsShared' /\ NoLostUpdate'
<1>1. /\ data'.shared = data.shared /\ data'.writes = data.writes
      /\ data'.before = data.before /\ data'.active = data.active
  BY FailsFacts DEF MutexInv, Typed
<1>2. ActiveInSection' /\ BeforeIsShared'
  BY <1>1 DEF MutexInv, ActiveInSection, BeforeIsShared, Active
<1> QED BY <1>1, <1>2, SameCounts DEF MutexInv

\* The write of a worker in the section is based on the counter as it still is.
LEMMA WriteCounts ==
  ASSUME MutexMode, IInv, MutexInv, NEW w \in Workers, at[w] = "write",
         at' = [at EXCEPT ![w] = "count"],
         data' = [data EXCEPT !.shared = Up(data.before[w])]
  PROVE  NoLostUpdate'
<1>1. PICK v \in Workers : v # w /\ Workers = {v, w}
  BY DEF Workers, A, B
<1>2. v \in Tasks /\ w \in Tasks
  BY Members
<1>3. at[v] # "count"
  BY <1>1, <1>2, OneHolder DEF Holds, Section
<1>4. at'[w] = "count" /\ at'[v] = at[v]
  BY <1>1, <1>2 DEF MutexInv, Typed
<1>5. /\ Cardinality({u \in {A, B} : at[u] = "count"}) = 0
      /\ Cardinality({u \in {A, B} : at'[u] = "count"}) = 1
  <2>1. {u \in {A, B} : at[u] = "count"} = {} /\ {u \in {A, B} : at'[u] = "count"} = {w}
    BY <1>1, <1>3, <1>4 DEF Workers
  <2> QED BY <2>1, FS_EmptySet, FS_Singleton
<1>6. /\ data.shared \in Counts /\ data.writes[A] \in Counts /\ data.writes[B] \in Counts
      /\ data.before[w] = data.shared
      /\ data'.shared = Up(data.before[w]) /\ data'.writes = data.writes
  BY DEF MutexInv, Typed, DataType, BeforeIsShared, Workers
<1> DEFINE a == data.writes[A]
           b == data.writes[B]
<1>7. CounterLimit \in Nat \ {0} /\ a \in 0..(CounterLimit - 1) /\ b \in 0..(CounterLimit - 1)
  BY <1>6 DEF MutexMode, Counts
<1>8. data.shared = (a + b) % CounterLimit
  BY <1>5, <1>6, <1>7 DEF MutexInv, NoLostUpdate
<1>9. Up((a + b) % CounterLimit) = (a + b + 1) % CounterLimit
  BY <1>7, UpFacts
<1>10. data'.shared = (a + b + 1) % CounterLimit
  BY <1>6, <1>8, <1>9
<1> QED BY <1>5, <1>6, <1>10 DEF NoLostUpdate

\* The count that follows the write moves one update from under way to done.
LEMMA CountCounts ==
  ASSUME MutexMode, IInv, MutexInv, NEW w \in Workers, at[w] = "count",
         at' = [at EXCEPT ![w] = "leave"],
         data' = [data EXCEPT !.writes[w] = Up(@), !.moved[w] = TRUE]
  PROVE  NoLostUpdate'
<1>1. PICK v \in Workers : v # w /\ Workers = {v, w}
  BY DEF Workers, A, B
<1>2. v \in Tasks /\ w \in Tasks
  BY Members
<1>3. at[v] # "count"
  BY <1>1, <1>2, OneHolder DEF Holds, Section
<1>4. at'[w] = "leave" /\ at'[v] = at[v]
  BY <1>1, <1>2 DEF MutexInv, Typed
<1>5. /\ Cardinality({u \in {A, B} : at[u] = "count"}) = 1
      /\ Cardinality({u \in {A, B} : at'[u] = "count"}) = 0
  <2>1. {u \in {A, B} : at[u] = "count"} = {w} /\ {u \in {A, B} : at'[u] = "count"} = {}
    BY <1>1, <1>3, <1>4 DEF Workers
  <2> QED BY <2>1, FS_EmptySet, FS_Singleton
<1>6. /\ data.shared \in Counts /\ data.writes[v] \in Counts /\ data.writes[w] \in Counts
      /\ data'.shared = data.shared
      /\ data'.writes[w] = Up(data.writes[w]) /\ data'.writes[v] = data.writes[v]
  BY <1>1 DEF MutexInv, Typed, DataType
<1> DEFINE a == data.writes[w]
           b == data.writes[v]
<1>7. /\ data.writes[A] + data.writes[B] = a + b
      /\ data'.writes[A] + data'.writes[B] = Up(a) + b
  BY <1>1, <1>6, UpType DEF Workers, A, B, Counts, MutexMode
<1>8. Up(a) \in Counts
  BY <1>6, UpType
<1>9. CounterLimit \in Nat \ {0} /\ a \in Nat /\ b \in Nat
  BY <1>6 DEF MutexMode, Counts
<1>10. data.shared = (a + 1 + b) % CounterLimit
  BY <1>5, <1>6, <1>7, <1>9 DEF MutexInv, NoLostUpdate, Workers
<1>11. (a + 1 + b) % CounterLimit = (Up(a) + b) % CounterLimit
  BY <1>9, UpFacts
<1>12. data'.shared = (Up(a) + b + 0) % CounterLimit
  BY <1>6, <1>8, <1>10, <1>11 DEF Counts, MutexMode
<1> QED BY <1>5, <1>6, <1>7, <1>12 DEF NoLostUpdate, Workers

\* A worker's steps: the checks it makes of itself hold, and it updates the counters in
\* the section only.
LEMMA WorkerStep ==
  ASSUME MutexMode, IInv, MutexInv, NEW w \in Workers, mutexWorker(w)
  PROVE  MutexInv' /\ [Next]_vars /\ (data'.failed => data.failed)
<1>1. w \in Tasks /\ Reporter \in Tasks /\ w # Reporter /\ Reporter \notin Workers
  BY Members DEF Workers, A, B, Reporter
<1>2. data \in DataType /\ data.active \in Workers \cup {NULL}
  BY DEF MutexInv, Typed, DataType
<1>3. testMutex \in Arguments("MUTEX_TAKE") /\ testMutex \in Arguments("MUTEX_GIVE")
      /\ INSIDE_MS \in Arguments("DELAY")
  BY DEF MutexMode, Arguments
<1>4. ASSUME Calls(w, "top", "MUTEX_TAKE", testMutex, "in")
      PROVE  MutexInv' /\ [Next]_vars /\ UNCHANGED data
  BY <1>1, <1>3, <1>4, CallStep DEF StatementsOf, WorkerStatements, CallBefore, Section, Active
<1>5. ASSUME Calls(w, "hold", "DELAY", INSIDE_MS, "held")
      PROVE  MutexInv' /\ [Next]_vars /\ UNCHANGED data
  BY <1>1, <1>3, <1>5, CallStep DEF StatementsOf, WorkerStatements, CallBefore, Section, Active
<1>6. ASSUME Calls(w, "give", "MUTEX_GIVE", testMutex, "gave")
      PROVE  MutexInv' /\ [Next]_vars /\ UNCHANGED data
  BY <1>1, <1>3, <1>6, CallStep DEF StatementsOf, WorkerStatements, CallBefore, Section, Active
\* What is left to show of a statement of the worker's own.
<1>7. ASSUME NEW l, NEW next, Does(w, l, next), data' \in DataType,
             next \in WorkerStatements, CallBefore(next) = "NONE",
             next \in Section <=> l \in Section \cup {"in", "judge"},
             l \notin {"look", "seen", "gaveForeign"},
             data'.rejected = data.rejected, data.failed => data'.failed,
             ActiveInSection', BeforeIsShared', NoLostUpdate'
      PROVE  MutexInv' /\ [Next]_vars
  <2>1. /\ [Next]_vars /\ Alive' /\ Typed' /\ InItsCall' /\ HeldInSection'
        /\ MaskedReporter' /\ Answers' /\ at'[Reporter] = at[Reporter]
    BY <1>1, <1>7, OwnStep DEF StatementsOf
  <2>2. Rejection'
    BY <1>7, <2>1 DEF MutexInv, Rejection
  <2> QED BY <1>7, <2>1, <2>2 DEF MutexInv
<1>8. ASSUME NEW l, NEW next, Does(w, l, next)
      PROVE  /\ pc[w] = "run" /\ at[w] = l /\ at' = [at EXCEPT ![w] = next] /\ at'[w] = next
             /\ \A u \in Workers \ {w} : at'[u] = at[u]
             /\ l \in Section \cup {"in", "judge"} =>
                  \A u \in Workers \ {w} : at[u] \notin Section
  <2>1. pc[w] = "run" /\ at[w] = l /\ at' = [at EXCEPT ![w] = next]
    BY <1>1, <1>8, DoesFacts
  <2>2. at'[w] = next /\ \A u \in Workers \ {w} : at'[u] = at[u]
    BY <1>1, <2>1 DEF MutexInv, Typed
  <2>3. ASSUME l \in Section \cup {"in", "judge"}, NEW u \in Workers \ {w}, at[u] \in Section
        PROVE  FALSE
    <3>1. u \in Tasks /\ Holds(u) /\ Holds(w)
      BY <1>1, <2>1, <2>3, Members DEF Holds
    <3> QED BY <1>1, <2>3, <3>1, OneHolder
  <2> QED BY <2>1, <2>2, <2>3
<1>9. ASSUME NEW l, NEW next, Does(w, l, next), data' = Fails(TRUE), l # "count", next # "count", l \in Active <=> next \in Active,
             next \in {"hold", "held", "write"} => l \in {"hold", "held", "write"},
             next \in WorkerStatements, CallBefore(next) = "NONE",
             next \in Section <=> l \in Section \cup {"in", "judge"},
             l \notin {"look", "seen", "gaveForeign"}
      PROVE  MutexInv' /\ [Next]_vars /\ (data'.failed => data.failed)
  <2>1. /\ data' \in DataType /\ data'.rejected = data.rejected
        /\ data'.failed = data.failed
    BY <1>2, <1>9, FailsFacts DEF DataType
  <2>2. \A u \in Workers :
          /\ at'[u] \in Active <=> at[u] \in Active
          /\ at'[u] \in {"hold", "held", "write"} => at[u] \in {"hold", "held", "write"}
          /\ at'[u] = "count" <=> at[u] = "count"
    <3>1. at[w] = l /\ at'[w] = next /\ \A u \in Workers \ {w} : at'[u] = at[u]
      BY <1>8, <1>9
    <3> QED BY <1>9, <3>1
  <2>3. ActiveInSection' /\ BeforeIsShared' /\ NoLostUpdate'
    BY <1>9, <2>2, FailsKeeps
  <2>4. data.failed => data'.failed
    BY <2>1
  <2>5. MutexInv' /\ [Next]_vars
    BY <1>7, <1>9, <2>1, <2>3, <2>4
  <2> QED BY <1>9, <2>1, <2>5
<1>10. CASE Does(w, "in", "enter") /\ data' = Fails(data.active = NULL)
  <2>1. /\ at[w] \notin Active /\ \A u \in Workers \ {w} : at[u] \notin Active
    BY <1>8, <1>10 DEF Section, Active
  <2>2. data.active = NULL
    BY <1>2, <2>1 DEF MutexInv, ActiveInSection, Active
  <2>3. data' = Fails(TRUE)
    BY <1>10, <2>2
  <2> QED BY <1>9, <1>10, <2>3 DEF WorkerStatements, CallBefore, Section, Active
<1>11. CASE Does(w, "enter", "read") /\ data' = [data EXCEPT !.active = w]
  <2>1. /\ data' \in DataType /\ data'.active = w
        /\ data'.shared = data.shared /\ data'.writes = data.writes /\ data'.before = data.before
        /\ data'.rejected = data.rejected /\ data'.failed = data.failed
    BY <1>2, <1>11 DEF DataType
  <2>2. /\ at[w] = "enter" /\ at'[w] = "read"
        /\ \A u \in Workers \ {w} : at'[u] = at[u] /\ at[u] \notin Section
    BY <1>8, <1>11 DEF Section
  <2>3. ActiveInSection'
    BY <2>1, <2>2 DEF ActiveInSection, Section
  <2>4. BeforeIsShared' /\ NoLostUpdate'
    BY <2>1, <2>2, SameCounts DEF MutexInv, BeforeIsShared
  <2>5. MutexInv' /\ [Next]_vars
    BY <1>7, <1>11, <2>1, <2>3, <2>4 DEF WorkerStatements, CallBefore, Section
  <2> QED BY <2>1, <2>5
<1>12. CASE Does(w, "read", "hold") /\ data' = [data EXCEPT !.before[w] = data.shared]
  <2>1. /\ data' \in DataType /\ data'.active = data.active
        /\ data'.shared = data.shared /\ data'.writes = data.writes
        /\ data'.before[w] = data.shared
        /\ \A u \in Workers \ {w} : data'.before[u] = data.before[u]
        /\ data'.rejected = data.rejected /\ data'.failed = data.failed
    BY <1>2, <1>12 DEF DataType
  <2>2. /\ at[w] = "read" /\ at'[w] = "hold"
        /\ \A u \in Workers \ {w} : at'[u] = at[u]
    BY <1>8, <1>12
  <2>3. ActiveInSection'
    BY <2>1, <2>2 DEF MutexInv, ActiveInSection
  <2>4. BeforeIsShared' /\ NoLostUpdate'
    BY <2>1, <2>2, SameCounts DEF MutexInv, BeforeIsShared
  <2>5. MutexInv' /\ [Next]_vars
    BY <1>7, <1>12, <2>1, <2>3, <2>4 DEF WorkerStatements, CallBefore, Section
  <2> QED BY <2>1, <2>5
<1>13. CASE Does(w, "held", "write") /\ data' = Fails(data.active = w)
  <2>1. data.active = w
    BY <1>8, <1>13 DEF MutexInv, ActiveInSection
  <2>2. data' = Fails(TRUE)
    BY <1>13, <2>1
  <2> QED BY <1>9, <1>13, <2>2 DEF WorkerStatements, CallBefore, Section, Active
<1>14. CASE Does(w, "write", "count") /\ data' = [data EXCEPT !.shared = Up(data.before[w])]
  <2>1. data.before[w] \in Counts /\ Up(data.before[w]) \in Counts
    BY <1>2, UpType DEF DataType
  <2>2. /\ data' \in DataType /\ data'.active = data.active
        /\ data'.before = data.before
        /\ data'.rejected = data.rejected /\ data'.failed = data.failed
    BY <1>2, <1>14, <2>1 DEF DataType
  <2>3. /\ at[w] = "write" /\ at'[w] = "count" /\ at' = [at EXCEPT ![w] = "count"]
        /\ \A u \in Workers \ {w} : at'[u] = at[u] /\ at[u] \notin Section
    BY <1>8, <1>14 DEF Section
  <2>4. ActiveInSection'
    BY <2>2, <2>3 DEF MutexInv, ActiveInSection
  <2>5. BeforeIsShared'
    BY <2>2, <2>3 DEF BeforeIsShared, Section
  <2>6. NoLostUpdate'
    BY <1>14, <2>3, WriteCounts
  <2>7. MutexInv' /\ [Next]_vars
    BY <1>7, <1>14, <2>2, <2>4, <2>5, <2>6 DEF WorkerStatements, CallBefore, Section
  <2> QED BY <2>2, <2>7
<1>15. CASE /\ Does(w, "count", "leave")
            /\ data' = [data EXCEPT !.writes[w] = Up(@), !.moved[w] = TRUE]
  <2>1. data.writes[w] \in Counts /\ Up(data.writes[w]) \in Counts
    BY <1>2, UpType DEF DataType
  <2>2. /\ data' \in DataType /\ data'.active = data.active
        /\ data'.before = data.before /\ data'.shared = data.shared
        /\ data'.rejected = data.rejected /\ data'.failed = data.failed
    BY <1>2, <1>15, <2>1 DEF DataType
  <2>3. /\ at[w] = "count" /\ at'[w] = "leave" /\ at' = [at EXCEPT ![w] = "leave"]
        /\ \A u \in Workers \ {w} : at'[u] = at[u]
    BY <1>8, <1>15
  <2>4. ActiveInSection' /\ BeforeIsShared'
    BY <2>2, <2>3 DEF MutexInv, ActiveInSection, BeforeIsShared
  <2>5. NoLostUpdate'
    BY <1>15, <2>3, CountCounts
  <2>6. MutexInv' /\ [Next]_vars
    BY <1>7, <1>15, <2>2, <2>4, <2>5 DEF WorkerStatements, CallBefore, Section
  <2> QED BY <2>2, <2>6
<1>16. CASE Does(w, "leave", "give") /\ data' = [data EXCEPT !.active = NULL]
  <2>1. /\ data' \in DataType /\ data'.active = NULL
        /\ data'.shared = data.shared /\ data'.writes = data.writes /\ data'.before = data.before
        /\ data'.rejected = data.rejected /\ data'.failed = data.failed
    BY <1>2, <1>16 DEF DataType
  <2>2. /\ at[w] = "leave" /\ at'[w] = "give"
        /\ \A u \in Workers \ {w} : at'[u] = at[u] /\ at[u] \notin Section
    BY <1>8, <1>16 DEF Section
  <2>3. ActiveInSection'
    BY <2>1, <2>2, Members DEF ActiveInSection, Section
  <2>4. BeforeIsShared' /\ NoLostUpdate'
    BY <2>1, <2>2, SameCounts DEF MutexInv, BeforeIsShared
  <2>5. MutexInv' /\ [Next]_vars
    BY <1>7, <1>16, <2>1, <2>3, <2>4 DEF WorkerStatements, CallBefore, Section
  <2> QED BY <2>1, <2>5
<1>17. CASE Does(w, "gave", "top") /\ data' = Fails(gave[w])
  <2>1. gave[w] = TRUE
    BY <1>1, <1>8, <1>17 DEF MutexInv, Answers, Typed
  <2>2. data' = Fails(TRUE)
    BY <1>17, <2>1
  <2> QED BY <1>9, <1>17, <2>2 DEF WorkerStatements, CallBefore, Section, Active
<1> QED
  BY <1>4, <1>5, <1>6, <1>10, <1>11, <1>12, <1>13, <1>14, <1>15, <1>16, <1>17 DEF mutexWorker

\* The reporter's steps: its foreign Give is refused, it judges equal counters, and it
\* counts a failure only when it is late.
LEMMA ReporterStep ==
  ASSUME MutexMode, IInv, MutexInv, mutexReporter(Reporter)
  PROVE  MutexInv' /\ [Next]_vars /\ (data'.failed => data.failed \/ Late)
<1> DEFINE t == Reporter
<1>1. t \in Tasks /\ Workers \subseteq Tasks /\ t \notin Workers
  BY Members DEF Workers, A, B, Reporter
<1>2. data \in DataType /\ data.active \in Workers \cup {NULL}
  BY DEF MutexInv, Typed, DataType
<1>3. /\ testMutex \in Arguments("MUTEX_TAKE") /\ testMutex \in Arguments("MUTEX_GIVE")
      /\ REPORT_MS \in Arguments("DELAY")
  BY DEF MutexMode, Arguments
<1>4. ASSUME Calls(t, "top", "DELAY", REPORT_MS, "begin")
      PROVE  MutexInv' /\ [Next]_vars /\ UNCHANGED data
  BY <1>1, <1>3, <1>4, CallStep DEF StatementsOf, ReporterStatements, CallBefore, Section, Active
<1>5. ASSUME Calls(t, "look", "MUTEX_GIVE", testMutex, "gaveForeign")
      PROVE  MutexInv' /\ [Next]_vars /\ UNCHANGED data
  BY <1>1, <1>3, <1>5, CallStep DEF StatementsOf, ReporterStatements, CallBefore, Section, Active
<1>6. ASSUME Calls(t, "take", "MUTEX_TAKE", testMutex, "judge")
      PROVE  MutexInv' /\ [Next]_vars /\ UNCHANGED data
  BY <1>1, <1>3, <1>6, CallStep DEF StatementsOf, ReporterStatements, CallBefore, Section, Active
<1>7. ASSUME Calls(t, "give", "MUTEX_GIVE", testMutex, "gave")
      PROVE  MutexInv' /\ [Next]_vars /\ UNCHANGED data
  BY <1>1, <1>3, <1>7, CallStep DEF StatementsOf, ReporterStatements, CallBefore, Section, Active
<1>8. ASSUME \/ Masks(t, "poll", "look")
             \/ Unmasks(t, "seen", "take") \/ Unmasks(t, "look", "retry")
             \/ Yields(t, "retry", "poll")
      PROVE  MutexInv' /\ [Next]_vars /\ UNCHANGED data
  BY <1>1, <1>8, ReporterMasks
\* A statement of the reporter's own leaves the workers' variables alone.
<1>9. ASSUME NEW l, NEW next, Does(t, l, next) \/ Prints(t, l, next), data' \in DataType,
             next \in ReporterStatements, CallBefore(next) = "NONE",
             next \in Section <=> l \in Section \cup {"in", "judge"},
             l = "gaveForeign" => next = "seen", l \notin {"look", "seen"},
             data'.shared = data.shared, data'.writes = data.writes,
             data'.before = data.before, data'.active = data.active,
             next \in {"seen", "take", "judge"} => data'.rejected \/ data'.failed
      PROVE  MutexInv' /\ [Next]_vars
  <2>1. /\ [Next]_vars /\ Alive' /\ Typed' /\ InItsCall' /\ HeldInSection'
        /\ MaskedReporter' /\ Answers'
        /\ at'[t] = next /\ \A u \in Tasks \ {t} : at'[u] = at[u]
    BY <1>1, <1>9, OwnStep DEF StatementsOf
  <2>2. \A w \in Workers : at'[w] = at[w]
    BY <1>1, <2>1
  <2>3. ActiveInSection' /\ BeforeIsShared' /\ NoLostUpdate'
    BY <1>9, <2>2, SameCounts DEF MutexInv, ActiveInSection, BeforeIsShared
  <2>4. Rejection'
    BY <1>9, <2>1 DEF Rejection
  <2> QED BY <2>1, <2>3, <2>4 DEF MutexInv
<1>10. ASSUME NEW l, NEW next, Does(t, l, next)
       PROVE  Executes(t) /\ pc[t] = "run" /\ at[t] = l /\ gave[t] \in BOOLEAN
  BY <1>1, <1>10, DoesFacts DEF MutexInv, Typed
<1>11. CASE Does(t, "begin", "poll") /\ data' = [data EXCEPT !.start = osTimeMs]
  <2>1. osTimeMs \in Time
    BY DEF IInv, TypeOK, KernelTypeOK
  <2>2. /\ data' \in DataType /\ data'.active = data.active
        /\ data'.shared = data.shared /\ data'.writes = data.writes /\ data'.before = data.before
        /\ data'.failed = data.failed
    BY <1>2, <1>11, <2>1 DEF DataType
  <2>3. MutexInv' /\ [Next]_vars
    BY <1>9, <1>11, <2>2 DEF ReporterStatements, CallBefore, Section
  <2> QED BY <2>2, <2>3
<1>12. CASE /\ ~(Elapsed(data.start) < POLL_MS) /\ Does(t, "poll", "take")
            /\ data' = [Fails(FALSE) EXCEPT !.rejected = FALSE, !.start = 0]
  <2>1. 0 \in Time
    BY SignBitAssumption DEF Time
  <2>2. /\ data' \in DataType /\ data'.active = data.active
        /\ data'.shared = data.shared /\ data'.writes = data.writes /\ data'.before = data.before
        /\ data'.failed = TRUE
    BY <1>2, <1>12, <2>1 DEF DataType, Fails
  <2>3. Does(t, "poll", "take")
    BY <1>12
  <2>4. MutexInv' /\ [Next]_vars
    BY <1>9, <2>2, <2>3 DEF ReporterStatements, CallBefore, Section
  <2>5. Elapsed(data.start) \in Int
    <3>1. osTimeMs \in Time /\ data.start \in Time
      BY <1>2 DEF IInv, TypeOK, KernelTypeOK, DataType
    <3> QED BY <3>1, SignBitAssumption DEF Elapsed, Subtract, Time
  <2>6. Elapsed(data.start) >= POLL_MS
    <3>1. POLL_MS \in Int /\ ~(Elapsed(data.start) < POLL_MS)
      BY <1>12 DEF MutexMode
    <3> QED BY <2>5, <3>1
  <2>7. Late
    BY <1>10, <2>3, <2>6 DEF Late
  <2> QED BY <2>4, <2>7
<1>13. CASE /\ Does(t, "gaveForeign", "seen")
            /\ data' = [Fails(~gave[t]) EXCEPT !.rejected = ~gave[t], !.start = 0]
  <2>1. gave[t] = FALSE
    BY <1>1, <1>10, <1>13 DEF MutexInv, Answers
  <2>2. 0 \in Time
    BY SignBitAssumption DEF Time
  <2>3. /\ data' \in DataType /\ data'.active = data.active
        /\ data'.shared = data.shared /\ data'.writes = data.writes /\ data'.before = data.before
        /\ data'.rejected /\ (data'.failed => data.failed)
    BY <1>2, <1>13, <2>1, <2>2 DEF DataType, Fails
  <2>4. MutexInv' /\ [Next]_vars
    BY <1>9, <1>13, <2>3 DEF ReporterStatements, CallBefore, Section
  <2> QED BY <2>3, <2>4
<1>14. CASE /\ Does(t, "judge", "give")
            /\ data' = [Fails(Consistent) EXCEPT !.moved = [w \in {A, B} |-> FALSE]]
  <2>1. /\ data' \in DataType /\ data'.active = data.active
        /\ data'.shared = data.shared /\ data'.writes = data.writes /\ data'.before = data.before
        /\ data'.failed = (data.failed \/ ~Consistent)
    BY <1>2, <1>14 DEF DataType, Fails, Workers
  <2>2. MutexInv' /\ [Next]_vars
    BY <1>9, <1>14, <2>1 DEF ReporterStatements, CallBefore, Section
  <2>3. Executes(t) /\ pc[t] = "run" /\ at[t] = "judge"
    BY <1>10, <1>14
  <2>4. \A w \in Workers : at[w] \notin Section
    <3>1. ASSUME NEW w \in Workers, at[w] \in Section
          PROVE  FALSE
      <4>1. Holds(w) /\ Holds(t) /\ w \in Tasks
        BY <1>1, <2>3, <3>1 DEF Holds
      <4> QED BY <1>1, <4>1, OneHolder
    <3> QED BY <3>1
  <2>5. data.active = NULL
    BY <1>2, <2>4 DEF MutexInv, ActiveInSection, Section
  <2>6. data.shared = (data.writes[A] + data.writes[B]) % CounterLimit
    <3>1. {w \in {A, B} : at[w] = "count"} = {}
      BY <2>4 DEF Workers, Section
    <3>2. Cardinality({w \in {A, B} : at[w] = "count"}) = 0
      BY <3>1, FS_EmptySet
    <3>3. data.writes[A] + data.writes[B] + 0 = data.writes[A] + data.writes[B]
      BY <1>2 DEF DataType, Workers, Counts, MutexMode
    <3> QED BY <3>2, <3>3 DEF MutexInv, NoLostUpdate
  <2>7. data.failed \/ data.rejected
    BY <2>3 DEF MutexInv, Rejection
  <2>8. data.failed \/ Late \/ Consistent
    BY <2>3, <2>5, <2>6, <2>7 DEF Consistent, Late
  <2> QED BY <2>1, <2>2, <2>8
<1>15. CASE Does(t, "gave", "print") /\ data' = Fails(gave[t])
  <2>1. gave[t] = TRUE
    BY <1>1, <1>10, <1>15 DEF MutexInv, Answers
  <2>2. data' = Fails(TRUE)
    BY <1>15, <2>1
  <2>3. /\ data' \in DataType /\ data'.active = data.active
        /\ data'.shared = data.shared /\ data'.writes = data.writes /\ data'.before = data.before
        /\ data'.failed = data.failed
    BY <1>2, <2>2, FailsFacts DEF DataType
  <2>4. MutexInv' /\ [Next]_vars
    BY <1>9, <1>15, <2>3 DEF ReporterStatements, CallBefore, Section
  <2> QED BY <2>3, <2>4
<1>16. CASE Prints(t, "print", "top")
  <2>1. UNCHANGED data
    BY <1>16 DEF Prints
  <2>2. MutexInv' /\ [Next]_vars
    BY <1>2, <1>9, <1>16, <2>1 DEF ReporterStatements, CallBefore, Section
  <2> QED BY <2>1, <2>2
<1>17. CASE mutexRejectForeignGive(t)
  BY <1>5, <1>8, <1>11, <1>12, <1>13, <1>17 DEF mutexRejectForeignGive
<1> QED BY <1>4, <1>6, <1>7, <1>14, <1>15, <1>16, <1>17 DEF mutexReporter

\* Every step of the mode is a step of the kernel, keeps the invariant and fails only late.
LEMMA ModeStep ==
  ASSUME MutexMode, IInv, MutexInv, [AppNext]_demoVars
  PROVE  /\ [Next]_vars /\ IInv' /\ MutexInv'
         /\ data'.failed => data.failed \/ Late
<1>1. CASE mutexWorker(A) \/ mutexWorker(B)
  BY <1>1, WorkerStep, KernelStep DEF Workers
<1>2. CASE mutexReporter(Reporter)
  BY <1>2, ReporterStep, KernelStep
<1>3. CASE \E t \in Tasks : InCalls(t)
  BY <1>3, InCallStep, KernelStep
<1>4. CASE \/ (IdleYield \/ Switch) /\ UNCHANGED appVars
           \/ Millisecond \/ EndOfQuantum \/ Start
  BY <1>4, SystemStep, KernelStep
<1>5. CASE UNCHANGED demoVars
  <2>1. UNCHANGED <<vars, at, data, gave>>
    BY <1>5 DEF demoVars, appVars
  <2>2. UNCHANGED <<fault, masks, currentPt, pc, call, arg, held>>
    BY <2>1 DEF vars, portVars, kernelVars, taskVars, historyVars
  <2>3. Alive' /\ Typed' /\ InItsCall' /\ HeldInSection' /\ MaskedReporter' /\ Answers'
    BY <2>1, <2>2 DEF MutexInv, Alive, Typed, InItsCall, HeldInSection, Holds, MaskedReporter,
       Answers
  <2>4. ActiveInSection' /\ BeforeIsShared' /\ NoLostUpdate' /\ Rejection'
    BY <2>1 DEF MutexInv, ActiveInSection, BeforeIsShared, NoLostUpdate, Rejection
  <2> QED BY <2>1, <2>3, <2>4, KernelStep DEF MutexInv
<1> QED BY <1>1, <1>2, <1>3, <1>4, <1>5 DEF AppNext, KernelSteps, appVars

(***************************************************************************)
(* Theorems.                                                               *)
(***************************************************************************)

\* The mode uses the kernel only as its specification allows, so what is proved of
\* TinyKernel holds of the kernel under mode 5.
THEOREM MutexModeIsKernel == MutexMode => (ModeSpec => Spec)
<1> SUFFICES ASSUME MutexMode
             PROVE  ModeSpec => Spec
  OBVIOUS
<1>1. AppInit => Init /\ IInv /\ MutexInv
  BY InitMutexInv, InitIInv DEF AppInit, DemoInit
<1>2. IInv /\ MutexInv /\ [AppNext]_demoVars => [Next]_vars /\ IInv' /\ MutexInv'
  BY ModeStep
<1> QED BY <1>1, <1>2, PTL DEF ModeSpec, Spec

\* mutexWorker sleeps between the read and the write of the shared counter, and osMutex.c
\* keeps the other worker out: at every state the counter is what both have counted.
THEOREM UpdateSafety == MutexMode => (ModeSpec => []NoLostUpdate)
<1> SUFFICES ASSUME MutexMode
             PROVE  ModeSpec => []NoLostUpdate
  OBVIOUS
<1>1. AppInit => IInv /\ MutexInv
  BY InitMutexInv, InitIInv DEF AppInit, DemoInit
<1>2. IInv /\ MutexInv /\ [AppNext]_demoVars => IInv' /\ MutexInv'
  BY ModeStep
<1>3. MutexInv => NoLostUpdate
  BY DEF MutexInv
<1> QED BY <1>1, <1>2, <1>3, PTL DEF ModeSpec

\* No call of a worker or of the reporter is ever refused, mutexRejectForeignGive with
\* its masked probe of the mutex included: whatever the timing, the application never
\* ends in osPortBlockingFault.
THEOREM HaltSafety == MutexMode => (ModeSpec => []Alive)
<1> SUFFICES ASSUME MutexMode
             PROVE  ModeSpec => []Alive
  OBVIOUS
<1>1. AppInit => IInv /\ MutexInv
  BY InitMutexInv, InitIInv DEF AppInit, DemoInit
<1>2. IInv /\ MutexInv /\ [AppNext]_demoVars => IInv' /\ MutexInv'
  BY ModeStep
<1>3. MutexInv => Alive
  BY DEF MutexInv
<1> QED BY <1>1, <1>2, <1>3, PTL DEF ModeSpec

\* Of the checks of mode 5 only those of time can fail: while the reporter is never
\* late, no task counts a failure and the kernel never halts.
THEOREM FailureSafety == MutexMode => (ModeSpec /\ []~Late => []NoFailure)
<1> SUFFICES ASSUME MutexMode
             PROVE  ModeSpec /\ []~Late => []NoFailure
  OBVIOUS
<1> DEFINE Passes == data.failed = FALSE
<1>1. AppInit => IInv /\ MutexInv /\ Passes
  BY InitMutexInv, InitIInv DEF AppInit, DemoInit
<1>2. IInv /\ MutexInv /\ Passes /\ ~Late /\ [AppNext]_demoVars
      => IInv' /\ MutexInv' /\ Passes'
  <2> SUFFICES ASSUME IInv, MutexInv, Passes, ~Late, [AppNext]_demoVars
               PROVE  IInv' /\ MutexInv' /\ Passes'
    OBVIOUS
  <2>1. IInv' /\ MutexInv' /\ (data'.failed => data.failed)
    BY ModeStep
  <2>2. data'.failed \in BOOLEAN
    BY <2>1 DEF MutexInv, Typed, DataType
  <2> QED BY <2>1, <2>2
<1>3. MutexInv /\ Passes => NoFailure
  BY DEF MutexInv, Alive, NoFailure, NoFault
<1> HIDE DEF Passes
<1> QED BY <1>1, <1>2, <1>3, PTL DEF ModeSpec
=============================================================================
