----------------------------- MODULE ThreadStacks -----------------------------
(***************************************************************************)
(* Admission of threads with their stacks (Src/osKernelThread.c), and the  *)
(* painting and measuring of stacks (Src/osStack.c).                       *)
(*                                                                         *)
(* main admits threads before the launch; afterwards the threads write to  *)
(* their stacks.  Addresses count words of four bytes, so the alignment to *)
(* eight bytes is evenness.  The calls run with interrupts masked: a call  *)
(* is one step.                                                            *)
(***************************************************************************)
EXTENDS Integers, Sequences

CONSTANTS
  MAX_THREADS,     \* OS_MAX_THREADS
  WordLimit,       \* words in the address space, (UINTPTR_MAX + 1) / 4
  PoolStart,       \* the address of defaultStacks
  DEFAULT_WORDS, MIN_WORDS, GUARD_WORDS,   \* OS_THREAD_..._WORDS
  CONTEXT_WORDS,   \* INITIAL_CONTEXT_WORDS
  Requests,        \* the storage that callers of osCreateThreadStatic pass
  Values           \* what tasks write into their stacks

\* The conditions on MIN_WORDS and DEFAULT_WORDS are the static assertions of the code;
\* the pool is an object of the program, aligned to eight bytes.
ASSUME StackAssumption ==
  /\ GUARD_WORDS \in Nat \ {0} /\ CONTEXT_WORDS \in Nat \ {0} /\ MIN_WORDS \in Nat
  /\ MIN_WORDS >= GUARD_WORDS + CONTEXT_WORDS
  /\ DEFAULT_WORDS \in Nat /\ DEFAULT_WORDS % 2 = 0 /\ DEFAULT_WORDS >= MIN_WORDS
  /\ MAX_THREADS \in Nat \ {0} /\ WordLimit \in Nat
  /\ PoolStart \in Nat \ {0} /\ PoolStart % 2 = 0
  /\ PoolStart + MAX_THREADS * DEFAULT_WORDS < WordLimit
  /\ Requests \subseteq [start : 0..WordLimit - 1, words : Nat]
  /\ Values \subseteq {"guard", "fill", "data"}

VARIABLES
  stacks,    \* threadStacks and threadStackWords of the slots below thread_count
  nextPt,    \* [slot -> the next slot of the ring]
  current,   \* currentPt
  running,   \* osKernelRunning
  memory,    \* [address -> what the word there holds]
  created,   \* what the last creation returned
  usage,     \* what the last successful osGetThreadStackUsage found
  lowest     \* history: the lowest usable word of each stack written so far

vars == <<stacks, nextPt, current, running, memory, created, usage, lowest>>

Slots == 0..MAX_THREADS - 1
NoSlot == MAX_THREADS
Address == 0..WordLimit - 1
thread_count == Len(stacks)
Slot(i) == stacks[i + 1]   \* the storage of slot i

\* What a word can hold; "data" is any value that is none of the patterns.
Words == {"other", "guard", "fill", "context", "data"}
NoUsage == [slot |-> NoSlot, free |-> 0, used |-> 0, intact |-> FALSE]

TypeOK ==
  /\ stacks \in Seq([start : Address, words : Nat]) /\ Len(stacks) <= MAX_THREADS
  /\ nextPt \in [Slots -> Slots \cup {NoSlot}] /\ current \in Slots \cup {NoSlot}
  /\ running \in BOOLEAN /\ created \in BOOLEAN
  /\ memory \in [Address -> Words]
  /\ usage \in [slot : Slots \cup {NoSlot}, free : Nat, used : Nat, intact : BOOLEAN]
  /\ lowest \in Seq(Nat) /\ Len(lowest) = Len(stacks)

Init ==
  /\ stacks = <<>> /\ lowest = <<>>
  /\ nextPt = [i \in Slots |-> NoSlot] /\ current = NoSlot
  /\ running = FALSE /\ created = FALSE /\ usage = NoUsage
  /\ memory = [a \in Address |-> "other"]

-----------------------------------------------------------------------------
(***************************************************************************)
(* Admission.                                                              *)
(***************************************************************************)

\* Mutant of stackRange: the end may lie beyond the address space.
stackRangeWrapping(s) ==
  /\ s.start # 0 /\ s.start % 2 = 0
  /\ s.words >= MIN_WORDS /\ s.words % 2 = 0

stackRange(s) ==
  /\ s.start # 0 /\ s.start % 2 = 0
  /\ s.words >= MIN_WORDS /\ s.words % 2 = 0
  /\ s.words <= WordLimit - 1 - s.start

\* The exclusive end, in the arithmetic of uintptr_t.
EndOf(s) == (s.start + s.words) % WordLimit

\* Mutant of overlaps: a range enclosed in the other one is not seen.
overlapsAtEnds(s, t) ==
  \/ t.start <= s.start /\ s.start < EndOf(t)
  \/ t.start < EndOf(s) /\ EndOf(s) <= EndOf(t)

overlaps(s, t) == s.start < EndOf(t) /\ t.start < EndOf(s)

PoolStack(i) == [start |-> PoolStart + i * DEFAULT_WORDS, words |-> DEFAULT_WORDS]
DefaultStacks == [start |-> PoolStart, words |-> MAX_THREADS * DEFAULT_WORDS]

\* Mutant of Admissible: only the entries of the pool in use are reserved.
AdmissibleInPool(s, useDefault) ==
  /\ stackRange(s)
  /\ \A i \in 0..thread_count - 1 : stackRange(Slot(i)) /\ ~overlaps(s, Slot(i))

Admissible(s, useDefault) ==
  /\ stackRange(s)
  /\ useDefault \/ ~overlaps(s, DefaultStacks)
  /\ \A i \in 0..thread_count - 1 : stackRange(Slot(i)) /\ ~overlaps(s, Slot(i))

Extent(s) == s.start..s.start + s.words - 1

\* Mutant of Fresh: the guard is one word too long.
FreshLongGuard(s, a) ==
  IF a <= s.start + GUARD_WORDS THEN "guard"
  ELSE IF a < s.start + s.words - CONTEXT_WORDS THEN "fill" ELSE "context"

\* What osStackInitialize and prepareThread put into word a of the storage s.
Fresh(s, a) ==
  IF a < s.start + GUARD_WORDS THEN "guard"
  ELSE IF a < s.start + s.words - CONTEXT_WORDS THEN "fill" ELSE "context"

\* The TCB fields that prepareThread resets are the initial state of the modules
\* Kernel and KernelWait.
prepareThread(s) ==
  /\ memory' = [a \in Address |-> IF a \in Extent(s) THEN Fresh(s, a) ELSE memory[a]]
  /\ stacks' = Append(stacks, s)
  /\ lowest' = Append(lowest, s.words - CONTEXT_WORDS)

\* Mutant of linkThread: the ring is not closed when a thread joins it.
linkThreadOpen(slot) ==
  /\ nextPt' = [i \in Slots |-> IF i = slot - 1 THEN slot
                                ELSE IF i = slot /\ slot = 0 THEN 0 ELSE nextPt[i]]
  /\ current' = IF slot = 0 THEN 0 ELSE current

linkThread(slot) ==
  /\ nextPt' = [i \in Slots |-> IF i = slot THEN 0
                                ELSE IF i = slot - 1 THEN slot ELSE nextPt[i]]
  /\ current' = IF slot = 0 THEN 0 ELSE current

\* Mutant of HasSlot: one thread too many.
HasSlotBeyond == thread_count <= MAX_THREADS

HasSlot == thread_count < MAX_THREADS

\* named: the task is not NULL; inHandler: ipsr is not zero.
createThread(named, inHandler, s, useDefault) ==
  /\ usage' = NoUsage /\ UNCHANGED running
  /\ \/ /\ ~named \/ inHandler \/ running \/ ~HasSlot \/ ~Admissible(s, useDefault)
        /\ created' = FALSE /\ UNCHANGED <<stacks, nextPt, current, memory, lowest>>
     \/ /\ named /\ ~inHandler /\ ~running /\ HasSlot /\ Admissible(s, useDefault)
        /\ prepareThread(s) /\ linkThread(thread_count) /\ created' = TRUE

osCreateThread(named, inHandler) ==
  createThread(named, inHandler, PoolStack(thread_count), TRUE)

osCreateThreadStatic(named, inHandler, s) == createThread(named, inHandler, s, FALSE)

\* osInit has created a thread before main launches the kernel.
osKernelLaunch ==
  /\ ~running /\ thread_count > 0 /\ running' = TRUE
  /\ usage' = NoUsage /\ UNCHANGED <<stacks, nextPt, current, memory, created, lowest>>

-----------------------------------------------------------------------------
(***************************************************************************)
(* Use and diagnosis of a stack.  Words are counted from the lowest one.   *)
(***************************************************************************)
At(i, k) == memory[Slot(i).start + k]

\* Thread i writes a word of its stack: a frame, a local variable, the context of an
\* interrupt, or, with too much of them, a word of its guard.
Write(i, k, x) ==
  /\ running
  /\ memory' = [memory EXCEPT ![Slot(i).start + k] = x]
  /\ lowest' = [lowest EXCEPT ![i + 1] = IF k >= GUARD_WORDS /\ k < @ THEN k ELSE @]
  /\ usage' = NoUsage /\ UNCHANGED <<stacks, nextPt, current, running, created>>

\* Mutant of freeWords: the scan begins at the guard.
freeWordsFromBase(i) ==
  CHOOSE f \in 0..Slot(i).words - GUARD_WORDS :
    /\ \A k \in 0..f - 1 : At(i, k) = "fill"
    /\ f = Slot(i).words - GUARD_WORDS \/ At(i, f) # "fill"

\* The length of the untouched prefix of the usable words.
freeWords(i) ==
  CHOOSE f \in 0..Slot(i).words - GUARD_WORDS :
    /\ \A k \in 0..f - 1 : At(i, GUARD_WORDS + k) = "fill"
    /\ f = Slot(i).words - GUARD_WORDS \/ At(i, GUARD_WORDS + f) # "fill"

osStackMeasure(i) ==
  usage' = [slot |-> i, free |-> freeWords(i),
            used |-> Slot(i).words - GUARD_WORDS - freeWords(i),
            intact |-> \A k \in 0..GUARD_WORDS - 1 : At(i, k) = "guard"]

\* given: the address for the result is not NULL.
osGetThreadStackUsage(i, inHandler, given) ==
  /\ IF given /\ ~inHandler /\ i < thread_count
     THEN osStackMeasure(i)
     ELSE usage' = NoUsage
  /\ UNCHANGED <<stacks, nextPt, current, running, memory, created, lowest>>

Next ==
  \/ \E named, inHandler \in BOOLEAN :
       \/ osCreateThread(named, inHandler)
       \/ \E s \in Requests : osCreateThreadStatic(named, inHandler, s)
  \/ osKernelLaunch
  \/ \E i \in 0..thread_count - 1 : \E k \in 0..Slot(i).words - 1 :
       \E x \in Values : Write(i, k, x)
  \/ \E i \in Slots, inHandler, given \in BOOLEAN :
       osGetThreadStackUsage(i, inHandler, given)

Spec == Init /\ [][Next]_vars

-----------------------------------------------------------------------------
(***************************************************************************)
(* Properties.                                                             *)
(***************************************************************************)

\* Every admitted stack lies in the address space and is large enough, no two of them
\* share a word, and none that a caller passed has a word of the pool, unused entries
\* included.
StacksDisjoint ==
  /\ \A i \in 0..thread_count - 1 :
       /\ Slot(i).words >= GUARD_WORDS + CONTEXT_WORDS
       /\ Extent(Slot(i)) \subseteq Address \ {0}
       /\ Slot(i) = PoolStack(i) \/ Extent(Slot(i)) \cap Extent(DefaultStacks) = {}
  /\ \A i, j \in 0..thread_count - 1 :
       i # j => Extent(Slot(i)) \cap Extent(Slot(j)) = {}

\* The context that a thread was admitted with is intact at the launch: no later
\* creation, admitted or refused, has written to its stack.
ContextsIntact ==
  ~running => \A i \in 0..thread_count - 1 : \A a \in Extent(Slot(i)) :
                memory[a] = Fresh(Slot(i), a)

\* The pool stays usable: while a slot is free, no stack that was admitted can make
\* osCreateThread fail.
PoolStaysUsable ==
  ~running /\ thread_count < MAX_THREADS => Admissible(PoolStack(thread_count), TRUE)

\* The ring that the scheduler follows leads from every admitted thread to the next one
\* created and from the last back to the first, where dispatching begins.
RingClosed ==
  thread_count > 0 =>
    /\ current = 0
    /\ \A i \in 0..thread_count - 1 :
         nextPt[i] = IF i = thread_count - 1 THEN 0 ELSE i + 1

\* A measurement accounts for every word, never reports more words used than have
\* been written, and reports all of them if the deepest word does not hold the pattern.
\* It never reports less than the words above the deepest one that differs from it.
UsageTruthful ==
  LET i == usage.slot IN
  i # NoSlot =>
    /\ GUARD_WORDS + usage.free + usage.used = Slot(i).words
    /\ usage.used <= Slot(i).words - lowest[i + 1]
    /\ At(i, lowest[i + 1]) # "fill" => usage.used = Slot(i).words - lowest[i + 1]
    /\ \A k \in GUARD_WORDS..Slot(i).words - 1 :
         At(i, k) # "fill" => usage.used >= Slot(i).words - k

\* The range of every admitted stack is accepted, overlaps no other one, and is its
\* entry of the pool or overlaps no part of the pool.
Layout ==
  /\ \A i \in 0..thread_count - 1 :
       /\ stackRange(Slot(i))
       /\ Slot(i) = PoolStack(i) \/ ~overlaps(Slot(i), DefaultStacks)
  /\ \A i, j \in 0..thread_count - 1 : i # j => ~overlaps(Slot(i), Slot(j))

\* Between the guard and the lowest word written a stack holds the fill pattern.
Pristine ==
  \A i \in 0..thread_count - 1 :
    /\ lowest[i + 1] \in GUARD_WORDS..Slot(i).words
    /\ \A k \in GUARD_WORDS..lowest[i + 1] - 1 : At(i, k) = "fill"

\* The inductive invariant of the proofs.
IInv == TypeOK /\ Layout /\ Pristine /\ ContextsIntact /\ RingClosed
=============================================================================
