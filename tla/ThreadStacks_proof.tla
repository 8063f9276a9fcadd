-------------------------- MODULE ThreadStacks_proof --------------------------
(***************************************************************************)
(* Proofs about ThreadStacks.  The arithmetic of ranges comes first: the   *)
(* end of an accepted range does not wrap, so ranges that do not overlap   *)
(* share no word.  Then IInv is inductive, because a thread writes only to *)
(* its own stack and a creation only to the stack it admits.               *)
(***************************************************************************)
EXTENDS ThreadStacks, WellFoundedInduction, TLAPS

\* Every nonempty set of naturals has a least element.
LEMMA Least ==
  ASSUME NEW T \in SUBSET Nat, T # {}
  PROVE  \E m \in T : \A k \in T : m <= k
<1>1. \E x \in T : \A y \in T : <<y, x>> \notin OpToRel(<, Nat)
  BY NatLessThanWellFounded, WFMin
<1>2. \A x, y \in Nat : <<y, x>> \notin OpToRel(<, Nat) => x <= y
  BY DEF OpToRel
<1>3. QED
  BY <1>1, <1>2

\* The storage that a request, a slot or the pool can name.
Storage == [start : Address, words : Nat]

\* The remainder of a number below the modulus is the number.
LEMMA SmallRemainder ==
  ASSUME NEW m \in Nat, NEW x \in Nat, x < m
  PROVE  x % m = x
  OBVIOUS

\* The end of a range that fits in the address space is not wrapped.
LEMMA EndFits ==
  ASSUME NEW s \in Storage, s.words <= WordLimit - 1 - s.start
  PROVE  EndOf(s) = s.start + s.words
<1>1. /\ WordLimit \in Nat /\ s.start \in Nat /\ s.words \in Nat
      /\ s.start + s.words < WordLimit
  BY StackAssumption DEF Storage, Address
<1>2. QED
  BY <1>1, SmallRemainder DEF EndOf

\* The pool and its entries, as numbers: the entry of a slot lies in the pool, meets
\* the test of stackRange, and ends before the entry of a later slot.
LEMMA PoolFacts ==
  /\ DefaultStacks \in Storage
  /\ DefaultStacks.start = PoolStart
  /\ EndOf(DefaultStacks) = DefaultStacks.start + DefaultStacks.words
  /\ \A i \in Slots :
       /\ PoolStack(i) \in Storage /\ stackRange(PoolStack(i))
       /\ PoolStack(i).start >= PoolStart
       /\ PoolStack(i).start + PoolStack(i).words
            <= DefaultStacks.start + DefaultStacks.words
       /\ \A j \in Slots :
            i < j => PoolStack(i).start + PoolStack(i).words <= PoolStack(j).start
<1> DEFINE M == MAX_THREADS
           D == DEFAULT_WORDS
<1>1. /\ M \in Nat /\ D \in Nat /\ PoolStart \in Nat \ {0} /\ WordLimit \in Nat
      /\ PoolStart + M * D < WordLimit /\ M * D \in Nat
      /\ D % 2 = 0 /\ PoolStart % 2 = 0 /\ D >= MIN_WORDS
  BY StackAssumption
<1>2. /\ DefaultStacks.start = PoolStart /\ DefaultStacks.words = M * D
      /\ DefaultStacks \in Storage
  BY <1>1 DEF DefaultStacks, Storage, Address
<1>3. EndOf(DefaultStacks) = DefaultStacks.start + DefaultStacks.words
  BY <1>1, <1>2, EndFits
<1>4. ASSUME NEW i \in Slots
      PROVE  /\ i \in Nat /\ i * D \in Nat
             /\ i * D + D <= M * D
             /\ PoolStack(i).start = PoolStart + i * D /\ PoolStack(i).words = D
  <2>1. i \in Nat /\ i + 1 <= M
    BY <1>1 DEF Slots
  <2>2. i * D \in Nat /\ (i + 1) * D = i * D + D
    BY <2>1, <1>1
  <2>3. (i + 1) * D <= M * D
    BY <2>1, <1>1
  <2>4. QED
    BY <2>1, <2>2, <2>3, <1>1 DEF PoolStack
<1>5. ASSUME NEW i \in Slots
      PROVE  PoolStack(i) \in Storage /\ stackRange(PoolStack(i))
  <2> DEFINE e == i * D
  <2>1. e % 2 = 0
    <3>1. PICK d \in Nat : D = 2 * d
      BY <1>1
    <3>2. e = 2 * (i * d) /\ i * d \in Nat
      BY <3>1, <1>4
    <3>3. QED
      BY <3>2
  <2>2. e \in Nat /\ PoolStart + e + D < WordLimit
    BY <1>1, <1>4
  <2>3. PoolStack(i) = [start |-> PoolStart + e, words |-> D]
    BY DEF PoolStack
  <2> HIDE DEF e, D, M
  <2>4. (PoolStart + e) % 2 = 0 /\ PoolStart + e # 0
    BY <2>1, <2>2, <1>1
  <2>5. PoolStart + e \in 0..WordLimit - 1 /\ D <= WordLimit - 1 - (PoolStart + e)
    BY <2>2, <1>1
  <2>6. QED
    BY <2>3, <2>4, <2>5, <1>1 DEF Storage, Address, stackRange
<1>6. ASSUME NEW i \in Slots, NEW j \in Slots, i < j
      PROVE  i * D + D <= j * D
  <2>1. i \in Nat /\ j \in Nat /\ i + 1 <= j
    BY <1>6, <1>4
  <2>2. (i + 1) * D <= j * D /\ (i + 1) * D = i * D + D
    BY <2>1, <1>1
  <2>3. QED
    BY <2>2
<1> HIDE DEF M, D
<1>7. QED
  BY <1>1, <1>2, <1>3, <1>4, <1>5, <1>6

\* Ranges that end where their sizes say do not overlap exactly when one ends before
\* the other begins, and then they share no word.
LEMMA Apart ==
  ASSUME NEW s \in Storage, NEW t \in Storage,
         EndOf(s) = s.start + s.words, EndOf(t) = t.start + t.words
  PROVE  /\ ~overlaps(s, t) <=> \/ s.start + s.words <= t.start
                                \/ t.start + t.words <= s.start
         /\ ~overlaps(s, t) => Extent(s) \cap Extent(t) = {}
<1>1. s.start \in Nat /\ s.words \in Nat /\ t.start \in Nat /\ t.words \in Nat
  BY StackAssumption DEF Storage, Address
<1>2. QED
  BY <1>1 DEF overlaps, Extent

\* What the invariant says of the storage of a slot.
LEMMA SlotFacts ==
  ASSUME TypeOK, Layout, NEW i \in 0..thread_count - 1
  PROVE  /\ thread_count \in Nat /\ i \in Slots
         /\ Slot(i) \in Storage
         /\ EndOf(Slot(i)) = Slot(i).start + Slot(i).words
         /\ Slot(i).start > 0 /\ Slot(i).words >= GUARD_WORDS + CONTEXT_WORDS
         /\ Slot(i).start + Slot(i).words < WordLimit
         /\ lowest[i + 1] \in Nat
<1>1. /\ stacks \in Seq(Storage) /\ lowest \in Seq(Nat) /\ Len(lowest) = Len(stacks)
      /\ Len(stacks) <= MAX_THREADS /\ MAX_THREADS \in Nat /\ WordLimit \in Nat
  BY StackAssumption DEF TypeOK, Storage
<1>2. /\ thread_count \in Nat /\ i \in Slots /\ i + 1 \in 1..Len(stacks)
  BY <1>1 DEF thread_count, Slots
<1>3. Slot(i) \in Storage /\ lowest[i + 1] \in Nat
  BY <1>1, <1>2 DEF Slot
<1>4. stackRange(Slot(i))
  BY DEF Layout
<1>5. Slot(i).start \in Nat /\ Slot(i).words \in Nat
  BY <1>1, <1>3 DEF Storage, Address
<1>6. /\ Slot(i).start # 0 /\ Slot(i).words >= MIN_WORDS
      /\ Slot(i).words <= WordLimit - 1 - Slot(i).start
  BY <1>4 DEF stackRange
<1>7. EndOf(Slot(i)) = Slot(i).start + Slot(i).words
  BY <1>3, <1>6, EndFits
<1>8. /\ Slot(i).start > 0 /\ Slot(i).words >= GUARD_WORDS + CONTEXT_WORDS
      /\ Slot(i).start + Slot(i).words < WordLimit
  BY <1>1, <1>5, <1>6, StackAssumption
<1>9. QED
  BY <1>2, <1>3, <1>7, <1>8

\* The reading of Layout: no two stacks share a word.
LEMMA SlotsApart ==
  ASSUME TypeOK, Layout, NEW i \in 0..thread_count - 1, NEW j \in 0..thread_count - 1,
         i # j
  PROVE  Extent(Slot(i)) \cap Extent(Slot(j)) = {}
<1>1. ~overlaps(Slot(i), Slot(j))
  BY DEF Layout
<1>2. QED
  BY <1>1, SlotFacts, Apart

\* A creation that is admitted extends a good layout to a good layout.
LEMMA AdmitLayout ==
  ASSUME TypeOK, Layout, NEW s \in Storage, NEW useDefault \in BOOLEAN,
         useDefault => s = PoolStack(thread_count),
         HasSlot, Admissible(s, useDefault), stacks' = Append(stacks, s)
  PROVE  Layout'
<1> DEFINE n == thread_count
           t == stacks'
<1>1. /\ stacks \in Seq(Storage) /\ n = Len(stacks) /\ n \in Nat /\ n \in Slots
      /\ t = Append(stacks, s)
  BY StackAssumption DEF TypeOK, Storage, thread_count, HasSlot, Slots
<1>2. /\ Len(t) = n + 1 /\ t[n + 1] = s
      /\ \A i \in 0..n - 1 : t[i + 1] = stacks[i + 1]
  BY <1>1
<1>3. /\ stackRange(s) /\ (useDefault \/ ~overlaps(s, DefaultStacks))
      /\ \A i \in 0..n - 1 : ~overlaps(s, stacks[i + 1]) /\ ~overlaps(stacks[i + 1], s)
  BY DEF Admissible, overlaps, Slot
<1>4. /\ \A i \in 0..n - 1 :
           /\ stackRange(stacks[i + 1])
           /\ stacks[i + 1] = PoolStack(i) \/ ~overlaps(stacks[i + 1], DefaultStacks)
      /\ \A i, j \in 0..n - 1 : i # j => ~overlaps(stacks[i + 1], stacks[j + 1])
  BY DEF Layout, Slot
<1>5. useDefault => s = PoolStack(n)
  OBVIOUS
<1> HIDE DEF n, t
<1>6. ASSUME NEW i \in 0..n
      PROVE  /\ stackRange(t[i + 1])
             /\ t[i + 1] = PoolStack(i) \/ ~overlaps(t[i + 1], DefaultStacks)
  <2>1. CASE i = n
    BY <2>1, <1>2, <1>3, <1>5
  <2>2. CASE i # n
    <3>1. i \in 0..n - 1
      BY <2>2, <1>1
    <3>2. QED
      BY <3>1, <1>2, <1>4
  <2>3. QED
    BY <2>1, <2>2
<1>7. ASSUME NEW i \in 0..n, NEW j \in 0..n, i # j
      PROVE  ~overlaps(t[i + 1], t[j + 1])
  <2>1. CASE i = n
    <3>1. j \in 0..n - 1
      BY <2>1, <1>1, <1>7
    <3>2. QED
      BY <2>1, <3>1, <1>2, <1>3
  <2>2. CASE j = n
    <3>1. i \in 0..n - 1
      BY <2>2, <1>1, <1>7
    <3>2. QED
      BY <2>2, <3>1, <1>2, <1>3
  <2>3. CASE i # n /\ j # n
    <3>1. i \in 0..n - 1 /\ j \in 0..n - 1
      BY <2>3, <1>1
    <3>2. QED
      BY <3>1, <1>2, <1>4, <1>7
  <2>4. QED
    BY <2>1, <2>2, <2>3
<1>8. Len(t) - 1 = n
  BY <1>1, <1>2
<1>9. /\ \A i \in 0..Len(t) - 1 :
           /\ stackRange(t[i + 1])
           /\ t[i + 1] = PoolStack(i) \/ ~overlaps(t[i + 1], DefaultStacks)
      /\ \A i, j \in 0..Len(t) - 1 : i # j => ~overlaps(t[i + 1], t[j + 1])
  BY <1>6, <1>7, <1>8
<1>10. QED
  BY <1>9 DEF t, Layout, Slot, thread_count, stackRange, overlaps, EndOf, PoolStack,
              DefaultStacks

\* The words of an accepted range, by their place in it.
LEMMA AcceptedRange ==
  ASSUME NEW s \in Storage, stackRange(s)
  PROVE  /\ s.start \in Nat /\ s.words \in Nat /\ s.start > 0
         /\ s.words >= GUARD_WORDS + CONTEXT_WORDS
         /\ EndOf(s) = s.start + s.words
         /\ Extent(s) \subseteq Address \ {0}
         /\ s.words - CONTEXT_WORDS \in GUARD_WORDS..s.words
         /\ \A k \in 0..s.words - 1 : s.start + k \in Extent(s)
<1>1. /\ s.start \in Nat /\ s.words \in Nat /\ WordLimit \in Nat
      /\ GUARD_WORDS \in Nat /\ CONTEXT_WORDS \in Nat /\ MIN_WORDS \in Nat
      /\ MIN_WORDS >= GUARD_WORDS + CONTEXT_WORDS
  BY StackAssumption DEF Storage, Address
<1>2. /\ s.start # 0 /\ s.words >= MIN_WORDS
      /\ s.words <= WordLimit - 1 - s.start
  BY DEF stackRange
<1>3. EndOf(s) = s.start + s.words
  BY <1>2, EndFits
<1>4. QED
  BY <1>1, <1>2, <1>3 DEF Extent, Address

\* A creation that is admitted paints its own stack and no other one, so that the
\* painted prefixes and the contexts of the others are as they were.
LEMMA AdmitMemory ==
  ASSUME TypeOK, Layout, Pristine, NEW s \in Storage, NEW useDefault \in BOOLEAN,
         Admissible(s, useDefault), prepareThread(s)
  PROVE  /\ Pristine'
         /\ ~running /\ ContextsIntact =>
              \A i \in 0..thread_count' - 1 : \A a \in Extent(Slot(i)') :
                memory'[a] = Fresh(Slot(i)', a)
<1> DEFINE n == thread_count
           t == stacks'
           low == lowest'
<1>1. /\ stacks \in Seq(Storage) /\ n = Len(stacks) /\ n \in Nat
      /\ lowest \in Seq(Nat) /\ Len(lowest) = n
  BY DEF TypeOK, Storage, thread_count
<1>2. /\ t = Append(stacks, s) /\ low = Append(lowest, s.words - CONTEXT_WORDS)
      /\ memory' = [a \in Address |-> IF a \in Extent(s) THEN Fresh(s, a) ELSE memory[a]]
  BY DEF prepareThread
<1>3. /\ Len(t) = n + 1 /\ t[n + 1] = s
      /\ low[n + 1] = s.words - CONTEXT_WORDS
      /\ \A i \in 0..n - 1 : t[i + 1] = stacks[i + 1] /\ low[i + 1] = lowest[i + 1]
  <2>1. Len(t) = n + 1 /\ t[n + 1] = s /\ \A i \in 0..n - 1 : t[i + 1] = stacks[i + 1]
    BY <1>1, <1>2
  <2>2. /\ low[n + 1] = s.words - CONTEXT_WORDS
        /\ \A i \in 0..n - 1 : low[i + 1] = lowest[i + 1]
    BY <1>1, <1>2
  <2>3. QED
    BY <2>1, <2>2
<1>4. stackRange(s) /\ \A i \in 0..n - 1 : ~overlaps(s, Slot(i))
  BY DEF Admissible
<1>5. ASSUME NEW i \in 0..n - 1
      PROVE  /\ stacks[i + 1] \in Storage
             /\ stackRange(stacks[i + 1])
             /\ \A a \in Extent(stacks[i + 1]) : memory'[a] = memory[a]
  <2>1. /\ Slot(i) \in Storage /\ stackRange(Slot(i))
        /\ EndOf(Slot(i)) = Slot(i).start + Slot(i).words
    BY SlotFacts DEF Layout
  <2>2. Extent(s) \cap Extent(Slot(i)) = {}
    BY <1>4, <2>1, AcceptedRange, Apart
  <2>3. Extent(Slot(i)) \subseteq Address
    BY <2>1, AcceptedRange
  <2>4. QED
    BY <1>2, <2>1, <2>2, <2>3 DEF Slot
<1>6. /\ \A i \in 0..n - 1 :
           /\ lowest[i + 1] \in GUARD_WORDS..stacks[i + 1].words
           /\ \A k \in GUARD_WORDS..lowest[i + 1] - 1 :
                memory[stacks[i + 1].start + k] = "fill"
  BY DEF Pristine, At, Slot
<1>7. \A a \in Extent(s) : memory'[a] = Fresh(s, a)
  BY <1>2, <1>4, AcceptedRange
<1> HIDE DEF n, t, low
<1>8. ASSUME NEW i \in 0..n
      PROVE  /\ low[i + 1] \in GUARD_WORDS..t[i + 1].words
             /\ \A k \in GUARD_WORDS..low[i + 1] - 1 :
                  memory'[t[i + 1].start + k] = "fill"
  <2>1. CASE i = n
    <3>1. low[i + 1] = s.words - CONTEXT_WORDS /\ t[i + 1] = s
      BY <2>1, <1>3
    <3>2. ASSUME NEW k \in GUARD_WORDS..s.words - CONTEXT_WORDS - 1
          PROVE  memory'[s.start + k] = "fill"
      <4>1. /\ s.start + k \in Extent(s)
            /\ ~(s.start + k < s.start + GUARD_WORDS)
            /\ s.start + k < s.start + s.words - CONTEXT_WORDS
        BY <1>4, AcceptedRange, StackAssumption
      <4>2. QED
        BY <4>1, <1>7 DEF Fresh
    <3>3. QED
      BY <3>1, <3>2, <1>4, AcceptedRange
  <2>2. CASE i # n
    <3>1. i \in 0..n - 1
      BY <2>2, <1>1
    <3>2. t[i + 1] = stacks[i + 1] /\ low[i + 1] = lowest[i + 1]
      BY <3>1, <1>3
    <3>3. ASSUME NEW k \in GUARD_WORDS..lowest[i + 1] - 1
          PROVE  memory'[stacks[i + 1].start + k] = "fill"
      <4>1. k \in 0..stacks[i + 1].words - 1
        BY <3>1, <1>5, <1>6, AcceptedRange, StackAssumption
      <4>2. stacks[i + 1].start + k \in Extent(stacks[i + 1])
        BY <3>1, <4>1, <1>5, AcceptedRange
      <4>3. QED
        BY <3>1, <4>2, <1>5, <1>6
    <3>4. QED
      BY <3>1, <3>2, <3>3, <1>6
  <2>3. QED
    BY <2>1, <2>2
<1>9. Len(t) - 1 = n
  BY <1>1, <1>3
<1>10. Pristine'
  <2>1. \A i \in 0..Len(t) - 1 :
          /\ low[i + 1] \in GUARD_WORDS..t[i + 1].words
          /\ \A k \in GUARD_WORDS..low[i + 1] - 1 :
               memory'[t[i + 1].start + k] = "fill"
    BY <1>8, <1>9
  <2>2. QED
    BY <2>1 DEF Pristine, At, Slot, thread_count, t, low
<1>11. ASSUME ~running, ContextsIntact, NEW i \in 0..n, NEW a \in Extent(t[i + 1])
       PROVE  memory'[a] = Fresh(t[i + 1], a)
  <2>1. CASE i = n
    BY <2>1, <1>3, <1>7, <1>11
  <2>2. CASE i # n
    <3>1. i \in 0..n - 1
      BY <2>2, <1>1
    <3>2. memory[a] = Fresh(stacks[i + 1], a)
      BY <3>1, <1>3, <1>11 DEF ContextsIntact, Slot, n
    <3>3. QED
      BY <3>1, <3>2, <1>3, <1>5, <1>11
  <2>3. QED
    BY <2>1, <2>2
<1>12. ASSUME ~running, ContextsIntact
       PROVE  \A i \in 0..thread_count' - 1 : \A a \in Extent(Slot(i)') :
                memory'[a] = Fresh(Slot(i)', a)
  <2>1. \A i \in 0..Len(t) - 1 : \A a \in Extent(t[i + 1]) :
          memory'[a] = Fresh(t[i + 1], a)
    BY <1>9, <1>11, <1>12
  <2>2. QED
    BY <2>1 DEF t, Slot, thread_count, Extent, Fresh
<1>13. QED
  BY <1>10, <1>12

\* A creation preserves the invariant, admitted or not.
LEMMA CreateStep ==
  ASSUME IInv, NEW named \in BOOLEAN, NEW inHandler \in BOOLEAN, NEW s,
         NEW useDefault \in BOOLEAN, useDefault => s = PoolStack(thread_count),
         ~useDefault => s \in Requests,
         createThread(named, inHandler, s, useDefault)
  PROVE  IInv'
<1>1. /\ TypeOK /\ Layout /\ Pristine /\ ContextsIntact /\ RingClosed
      /\ stacks \in Seq(Storage) /\ Len(stacks) <= MAX_THREADS /\ MAX_THREADS \in Nat
      /\ nextPt \in [Slots -> Slots \cup {NoSlot}] /\ current \in Slots \cup {NoSlot}
      /\ memory \in [Address -> Words] /\ running \in BOOLEAN
      /\ lowest \in Seq(Nat) /\ Len(lowest) = Len(stacks)
  BY StackAssumption DEF IInv, TypeOK, Storage
<1>2. /\ running' = running /\ usage' = NoUsage
      /\ usage' \in [slot : Slots \cup {NoSlot}, free : Nat, used : Nat, intact : BOOLEAN]
  BY DEF createThread, NoUsage
<1>3. CASE created' = FALSE /\ UNCHANGED <<stacks, nextPt, current, memory, lowest>>
  <2>1. TypeOK'
    BY <1>1, <1>2, <1>3 DEF TypeOK
  <2>2. Layout' /\ Pristine' /\ ContextsIntact' /\ RingClosed'
    BY <1>1, <1>2, <1>3 DEF Layout, Pristine, ContextsIntact, RingClosed, Slot, At,
         thread_count, stackRange, overlaps, EndOf, PoolStack, DefaultStacks, Extent, Fresh
  <2>3. QED
    BY <2>1, <2>2 DEF IInv
<1>4. CASE /\ ~running /\ HasSlot /\ Admissible(s, useDefault)
           /\ prepareThread(s) /\ linkThread(thread_count) /\ created' = TRUE
  <2>1. thread_count \in Slots /\ thread_count = Len(stacks) /\ thread_count < MAX_THREADS
    BY <1>1, <1>4 DEF HasSlot, thread_count, Slots
  <2>2. s \in Storage
    BY <2>1, PoolFacts, StackAssumption DEF Storage, Address
  <2>3. stackRange(s)
    BY <1>4 DEF Admissible
  <2>4. /\ stacks' = Append(stacks, s) /\ lowest' = Append(lowest, s.words - CONTEXT_WORDS)
        /\ memory' = [a \in Address |-> IF a \in Extent(s) THEN Fresh(s, a) ELSE memory[a]]
    BY <1>4 DEF prepareThread
  <2>5. Layout'
    BY <1>1, <1>4, <2>2, <2>4, AdmitLayout
  <2>6. Pristine' /\ ContextsIntact'
    BY <1>1, <1>2, <1>4, <2>2, AdmitMemory DEF ContextsIntact
  <2>7. /\ stacks' \in Seq(Storage) /\ Len(stacks') = thread_count + 1
        /\ lowest' \in Seq(Nat) /\ Len(lowest') = thread_count + 1
    <3>1. s.words - CONTEXT_WORDS \in Nat
      BY <2>2, <2>3, AcceptedRange, StackAssumption
    <3>2. QED
      BY <1>1, <2>1, <2>2, <2>4, <3>1
  <2>8. memory' \in [Address -> Words]
    BY <1>1, <2>4 DEF Fresh, Words
  <2>9. /\ nextPt' = [i \in Slots |-> IF i = thread_count THEN 0
                       ELSE IF i = thread_count - 1 THEN thread_count ELSE nextPt[i]]
        /\ current' = IF thread_count = 0 THEN 0 ELSE current
        /\ 0 \in Slots
    BY <1>4, <2>1, StackAssumption DEF linkThread, Slots
  <2>10. TypeOK'
    BY <1>1, <1>2, <1>4, <2>1, <2>7, <2>8, <2>9 DEF TypeOK, Storage
  <2>11. RingClosed'
    <3> DEFINE n == thread_count
    <3>1. n \in Nat /\ \A i \in 0..n - 1 : i \in Slots
      BY <1>1, <2>1 DEF Slots
    <3>2. current' = 0
      BY <1>1, <2>9, <3>1 DEF RingClosed
    <3>3. ASSUME NEW i \in 0..n
          PROVE  nextPt'[i] = IF i = n THEN 0 ELSE i + 1
      <4>1. CASE i = n
        BY <2>1, <2>9, <4>1
      <4>2. CASE i # n
        <5>1. i \in 0..n - 1 /\ i \in Slots /\ n > 0
          BY <3>1, <4>2
        <5>2. nextPt[i] = IF i = n - 1 THEN 0 ELSE i + 1
          BY <1>1, <5>1 DEF RingClosed
        <5>3. nextPt'[i] = IF i = n - 1 THEN n ELSE nextPt[i]
          BY <2>9, <4>2, <5>1
        <5>4. QED
          BY <3>1, <4>2, <5>1, <5>2, <5>3
      <4>3. QED
        BY <4>1, <4>2
    <3>4. thread_count' = n + 1
      BY <2>7 DEF thread_count
    <3> HIDE DEF n
    <3>5. (n + 1) - 1 = n
      BY <3>1
    <3>6. QED
      BY <3>2, <3>3, <3>4, <3>5 DEF RingClosed
  <2>12. QED
    BY <2>5, <2>6, <2>10, <2>11 DEF IInv
<1>5. QED
  BY <1>3, <1>4 DEF createThread

\* A thread that writes to its stack disturbs no other one, and keeps the pattern below
\* the lowest word written.
LEMMA WriteStep ==
  ASSUME IInv, NEW i \in 0..thread_count - 1, NEW k \in 0..Slot(i).words - 1,
         NEW x \in Values, Write(i, k, x)
  PROVE  IInv'
<1> DEFINE a0 == Slot(i).start + k
<1>1. /\ TypeOK /\ Layout /\ Pristine /\ RingClosed
      /\ thread_count = Len(stacks) /\ thread_count \in Nat
      /\ memory \in [Address -> Words]
      /\ lowest \in Seq(Nat) /\ Len(lowest) = Len(stacks)
  BY SlotFacts DEF IInv, TypeOK, thread_count
<1>2. /\ running /\ running' = running /\ usage' = NoUsage
      /\ stacks' = stacks /\ nextPt' = nextPt /\ current' = current /\ created' = created
      /\ memory' = [memory EXCEPT ![a0] = x]
      /\ lowest' = [lowest EXCEPT ![i + 1] = IF k >= GUARD_WORDS /\ k < @ THEN k ELSE @]
  BY DEF Write
<1>3. /\ Slot(i) \in Storage /\ stackRange(Slot(i))
      /\ a0 \in Extent(Slot(i)) /\ a0 \in Address
      /\ i + 1 \in 1..Len(lowest) /\ lowest[i + 1] \in Nat /\ k \in Nat
  <2>1. Slot(i) \in Storage /\ stackRange(Slot(i)) /\ lowest[i + 1] \in Nat
    BY <1>1, SlotFacts DEF Layout
  <2>2. a0 \in Extent(Slot(i)) /\ a0 \in Address
    BY <2>1, AcceptedRange
  <2>3. QED
    BY <1>1, <2>1, <2>2
<1> HIDE DEF a0
<1>4. TypeOK'
  <2>1. lowest' \in Seq(Nat) /\ Len(lowest') = Len(stacks)
    BY <1>1, <1>2, <1>3
  <2>2. x \in Words
    BY StackAssumption DEF Words
  <2>3. memory' \in [Address -> Words]
    BY <1>1, <1>2, <1>3, <2>2
  <2>4. usage' \in [slot : Slots \cup {NoSlot}, free : Nat, used : Nat, intact : BOOLEAN]
    BY <1>2 DEF NoUsage
  <2>5. QED
    BY <1>1, <1>2, <2>1, <2>3, <2>4 DEF TypeOK
<1>5. Layout' /\ RingClosed' /\ ContextsIntact'
  BY <1>1, <1>2 DEF Layout, RingClosed, ContextsIntact, Slot, thread_count, stackRange,
       overlaps, EndOf, PoolStack, DefaultStacks
<1>6. ASSUME NEW j \in 0..thread_count - 1
      PROVE  /\ lowest'[j + 1] \in GUARD_WORDS..Slot(j).words
             /\ \A h \in GUARD_WORDS..lowest'[j + 1] - 1 :
                  memory'[Slot(j).start + h] = "fill"
  <2>1. /\ lowest[j + 1] \in GUARD_WORDS..Slot(j).words
        /\ \A h \in GUARD_WORDS..lowest[j + 1] - 1 : memory[Slot(j).start + h] = "fill"
    BY <1>1 DEF Pristine, At
  <2>2. Slot(j) \in Storage /\ stackRange(Slot(j)) /\ j + 1 \in 1..Len(lowest)
    BY <1>1, SlotFacts DEF Layout
  <2>3. GUARD_WORDS \in Nat /\ Slot(j).words \in Nat /\ Slot(j).start \in Nat
    BY <2>2, AcceptedRange, StackAssumption
  <2>4. /\ lowest'[j + 1] \in GUARD_WORDS..lowest[j + 1]
        /\ j = i => lowest'[j + 1] <= k \/ k < GUARD_WORDS
    <3>1. CASE j = i
      BY <3>1, <1>2, <1>3, <2>1, <2>3
    <3>2. CASE j # i
      <4>1. lowest'[j + 1] = lowest[j + 1]
        BY <3>2, <1>1, <1>2, <2>2
      <4>2. QED
        BY <3>2, <4>1, <2>1
    <3>3. QED
      BY <3>1, <3>2
  <2>5. ASSUME NEW h \in GUARD_WORDS..lowest'[j + 1] - 1
        PROVE  memory'[Slot(j).start + h] = "fill"
    <3>1. h \in GUARD_WORDS..lowest[j + 1] - 1 /\ h \in 0..Slot(j).words - 1
      BY <2>1, <2>3, <2>4
    <3>2. Slot(j).start + h \in Extent(Slot(j)) /\ Slot(j).start + h \in Address
      BY <3>1, <2>2, AcceptedRange
    <3>3. Slot(j).start + h # a0
      <4>1. CASE j = i
        <5>1. h # k
          BY <4>1, <2>3, <2>4
        <5>2. QED
          BY <4>1, <5>1, <1>3, <2>3, <3>1 DEF a0
      <4>2. CASE j # i
        BY <4>2, <3>2, <1>1, <1>3, SlotsApart
      <4>3. QED
        BY <4>1, <4>2
    <3>4. QED
      BY <1>1, <1>2, <2>1, <3>1, <3>2, <3>3
  <2>6. QED
    BY <2>1, <2>3, <2>4, <2>5
<1>7. Pristine'
  BY <1>2, <1>6 DEF Pristine, At, Slot, thread_count
<1>8. QED
  BY <1>4, <1>5, <1>7 DEF IInv

\* The scan ends: it stops at the first word that does not hold the pattern, or at the
\* top of the stack.
LEMMA FreeWordsFacts ==
  ASSUME TypeOK, Layout, NEW i \in 0..thread_count - 1
  PROVE  /\ freeWords(i) \in 0..Slot(i).words - GUARD_WORDS
         /\ \A k \in 0..freeWords(i) - 1 : At(i, GUARD_WORDS + k) = "fill"
         /\ \/ freeWords(i) = Slot(i).words - GUARD_WORDS
            \/ At(i, GUARD_WORDS + freeWords(i)) # "fill"
<1> DEFINE u == Slot(i).words - GUARD_WORDS
           Ends(f) == f = u \/ At(i, GUARD_WORDS + f) # "fill"
           Ending == {f \in 0..u : Ends(f)}
<1>1. u \in Nat
  <2>1. stackRange(Slot(i)) /\ Slot(i) \in Storage
    BY SlotFacts DEF Layout
  <2>2. QED
    BY <2>1, AcceptedRange, StackAssumption
<1>2. Ending \in SUBSET Nat /\ u \in Ending
  BY <1>1
<1>3. PICK m \in Ending : \A f \in Ending : m <= f
  <2> HIDE DEF Ending
  <2> QED BY <1>2, Least
<1>4. m \in 0..u /\ Ends(m)
  BY <1>3
<1>5. ASSUME NEW k \in 0..m - 1
      PROVE  At(i, GUARD_WORDS + k) = "fill"
  BY <1>1, <1>3, <1>4
<1>6. \E f \in 0..u : (\A k \in 0..f - 1 : At(i, GUARD_WORDS + k) = "fill") /\ Ends(f)
  BY <1>4, <1>5
<1>7. QED
  BY <1>6 DEF freeWords

\* A measurement of a stack in the invariant is truthful.
LEMMA MeasureStep ==
  ASSUME IInv, NEW i \in 0..thread_count - 1, osStackMeasure(i),
         UNCHANGED <<stacks, nextPt, current, running, memory, created, lowest>>
  PROVE  /\ UsageTruthful'
         /\ usage' \in [slot : Slots \cup {NoSlot}, free : Nat, used : Nat,
                        intact : BOOLEAN]
<1> DEFINE f == freeWords(i)
           w == Slot(i).words
           g == GUARD_WORDS
           low == lowest[i + 1]
<1>1. /\ f \in 0..w - g
      /\ \A k \in 0..f - 1 : At(i, g + k) = "fill"
      /\ f = w - g \/ At(i, g + f) # "fill"
  BY FreeWordsFacts DEF IInv
<1>2. /\ low \in g..w
      /\ \A k \in g..low - 1 : At(i, k) = "fill"
  BY DEF IInv, Pristine
<1>3. g \in Nat /\ w \in Nat /\ i \in Slots /\ i # NoSlot
  <2>1. i \in Slots /\ Slot(i) \in Storage
    BY SlotFacts DEF IInv
  <2>2. QED
    BY <2>1, StackAssumption DEF Storage, Slots, NoSlot
<1>4. /\ usage'.slot = i /\ usage'.free = f /\ usage'.used = w - g - f
      /\ usage' \in [slot : Slots \cup {NoSlot}, free : Nat, used : Nat, intact : BOOLEAN]
  <2>1. f \in Nat /\ w - g - f \in Nat
    BY <1>1, <1>3
  <2>2. /\ usage' = [slot |-> i, free |-> f, used |-> w - g - f,
                     intact |-> \A k \in 0..g - 1 : At(i, k) = "guard"]
        /\ (\A k \in 0..g - 1 : At(i, k) = "guard") \in BOOLEAN
    BY DEF osStackMeasure
  <2> HIDE DEF f, w, g
  <2>3. QED
    BY <1>3, <2>1, <2>2
<1> HIDE DEF f, w, g, low
<1>5. /\ g + usage'.free + usage'.used = w
      /\ usage'.used = w - g - f
  BY <1>1, <1>3, <1>4
<1>6. low <= g + f
  <2>1. SUFFICES ASSUME g + f < low
                 PROVE  FALSE
    BY <1>1, <1>2, <1>3
  <2>2. f # w - g /\ g + f \in g..low - 1
    BY <2>1, <1>1, <1>2, <1>3
  <2>3. QED
    BY <2>2, <1>1, <1>2
<1>7. ASSUME NEW k \in g..w - 1, At(i, k) # "fill"
      PROVE  g + f <= k
  <2>1. SUFFICES ASSUME k < g + f
                 PROVE  FALSE
    BY <1>1, <1>3
  <2>2. k - g \in 0..f - 1 /\ g + (k - g) = k
    BY <2>1, <1>1, <1>3
  <2>3. QED
    BY <2>2, <1>1, <1>7
<1>8. ASSUME At(i, low) # "fill"
      PROVE  g + f <= low
  <2>1. CASE low = w
    BY <2>1, <1>1, <1>3
  <2>2. CASE low # w
    BY <2>2, <1>2, <1>3, <1>7, <1>8
  <2>3. QED
    BY <2>1, <2>2
<1>9. /\ usage'.used <= w - low
      /\ At(i, low) # "fill" => usage'.used = w - low
      /\ \A k \in g..w - 1 : At(i, k) # "fill" => usage'.used >= w - k
  BY <1>1, <1>2, <1>3, <1>5, <1>6, <1>7, <1>8
<1>10. UsageTruthful'
  <2>1. /\ GUARD_WORDS + usage'.free + usage'.used = Slot(usage'.slot).words
        /\ usage'.used <= Slot(usage'.slot).words - lowest[usage'.slot + 1]
        /\ At(usage'.slot, lowest[usage'.slot + 1]) # "fill" =>
             usage'.used = Slot(usage'.slot).words - lowest[usage'.slot + 1]
        /\ \A k \in GUARD_WORDS..Slot(usage'.slot).words - 1 :
             At(usage'.slot, k) # "fill" => usage'.used >= Slot(usage'.slot).words - k
    BY <1>4, <1>5, <1>9 DEF w, g, low
  <2>2. QED
    BY <2>1 DEF UsageTruthful, At, Slot
<1>11. QED
  BY <1>4, <1>10

\* Every step preserves the invariant, and leaves a truthful measurement or none.
LEMMA NextStep ==
  ASSUME IInv, UsageTruthful, [Next]_vars
  PROVE  IInv' /\ UsageTruthful'
<1>1. ASSUME usage' = NoUsage
      PROVE  UsageTruthful'
  <2>1. usage'.slot = NoSlot
    BY <1>1 DEF NoUsage
  <2>2. QED
    BY <2>1 DEF UsageTruthful, NoSlot
<1>2. ASSUME NEW named \in BOOLEAN, NEW inHandler \in BOOLEAN,
             osCreateThread(named, inHandler)
      PROVE  IInv' /\ UsageTruthful'
  BY <1>1, <1>2, CreateStep DEF osCreateThread, createThread
<1>3. ASSUME NEW named \in BOOLEAN, NEW inHandler \in BOOLEAN, NEW s \in Requests,
             osCreateThreadStatic(named, inHandler, s)
      PROVE  IInv' /\ UsageTruthful'
  BY <1>1, <1>3, CreateStep DEF osCreateThreadStatic, createThread
<1>4. ASSUME UNCHANGED <<stacks, nextPt, current, memory, lowest>>,
             running' \in BOOLEAN, created' \in BOOLEAN, running => running',
             usage' \in [slot : Slots \cup {NoSlot}, free : Nat, used : Nat,
                         intact : BOOLEAN]
      PROVE  IInv'
  <2>1. TypeOK'
    BY <1>4 DEF IInv, TypeOK
  <2>2. Layout' /\ Pristine' /\ ContextsIntact' /\ RingClosed'
    BY <1>4 DEF IInv, Layout, Pristine, ContextsIntact, RingClosed, Slot, At, thread_count,
         stackRange, overlaps, EndOf, PoolStack, DefaultStacks, Extent, Fresh
  <2>3. QED
    BY <2>1, <2>2 DEF IInv
<1>5. NoUsage \in [slot : Slots \cup {NoSlot}, free : Nat, used : Nat, intact : BOOLEAN]
  BY DEF NoUsage
<1>6. running \in BOOLEAN /\ created \in BOOLEAN
  BY DEF IInv, TypeOK
<1>7. ASSUME osKernelLaunch
      PROVE  IInv' /\ UsageTruthful'
  BY <1>1, <1>4, <1>5, <1>6, <1>7 DEF osKernelLaunch
<1>8. ASSUME NEW i \in 0..thread_count - 1, NEW k \in 0..Slot(i).words - 1,
             NEW x \in Values, Write(i, k, x)
      PROVE  IInv' /\ UsageTruthful'
  BY <1>1, <1>8, WriteStep DEF Write
<1>9. ASSUME NEW i \in Slots, NEW inHandler \in BOOLEAN, NEW given \in BOOLEAN,
             osGetThreadStackUsage(i, inHandler, given)
      PROVE  IInv' /\ UsageTruthful'
  <2>1. UNCHANGED <<stacks, nextPt, current, running, memory, created, lowest>>
    BY <1>9 DEF osGetThreadStackUsage
  <2>2. CASE given /\ ~inHandler /\ i < thread_count
    <3>1. osStackMeasure(i)
      BY <1>9, <2>2 DEF osGetThreadStackUsage
    <3>2. thread_count \in Nat /\ MAX_THREADS \in Nat
      BY StackAssumption DEF IInv, TypeOK, thread_count
    <3>3. i \in 0..thread_count - 1
      BY <2>2, <3>2 DEF Slots
    <3>4. QED
      BY <1>4, <1>6, <2>1, <3>1, <3>3, MeasureStep
  <2>3. CASE ~(given /\ ~inHandler /\ i < thread_count)
    <3>1. usage' = NoUsage
      BY <1>9, <2>3 DEF osGetThreadStackUsage
    <3>2. QED
      BY <1>1, <1>4, <1>5, <1>6, <2>1, <3>1
  <2>4. QED
    BY <2>2, <2>3
<1>10. ASSUME UNCHANGED vars
       PROVE  IInv' /\ UsageTruthful'
  <2>1. IInv'
    BY <1>4, <1>6, <1>10 DEF vars, IInv, TypeOK
  <2>2. UsageTruthful'
    BY <1>10 DEF vars, UsageTruthful, At, Slot
  <2>3. QED
    BY <2>1, <2>2
<1>11. QED
  BY <1>2, <1>3, <1>7, <1>8, <1>9, <1>10 DEF Next

\* The invariant holds before the first creation.
LEMMA InitHolds ==
  ASSUME Init
  PROVE  IInv /\ UsageTruthful
<1>1. /\ stacks = <<>> /\ lowest = <<>> /\ thread_count = 0
  BY DEF Init, thread_count
<1>2. NoUsage \in [slot : Slots \cup {NoSlot}, free : Nat, used : Nat, intact : BOOLEAN]
  BY DEF NoUsage
<1>3. TypeOK
  <2>1. MAX_THREADS \in Nat /\ Len(<<>>) = 0
    BY StackAssumption
  <2>2. <<>> \in Seq([start : Address, words : Nat]) /\ <<>> \in Seq(Nat)
    OBVIOUS
  <2>3. memory \in [Address -> Words] /\ nextPt \in [Slots -> Slots \cup {NoSlot}]
    BY DEF Init, Words
  <2>4. current \in Slots \cup {NoSlot} /\ running \in BOOLEAN /\ created \in BOOLEAN
    BY DEF Init
  <2>5. usage = NoUsage
    BY DEF Init
  <2>6. QED
    BY <1>1, <1>2, <2>1, <2>2, <2>3, <2>4, <2>5 DEF TypeOK
<1>4. Layout /\ Pristine /\ ContextsIntact /\ RingClosed
  BY <1>1 DEF Layout, Pristine, ContextsIntact, RingClosed
<1>5. UsageTruthful
  BY DEF Init, UsageTruthful, NoUsage
<1>6. QED
  BY <1>3, <1>4, <1>5 DEF IInv

\* Every admitted stack keeps the layout, the pattern and the ring of IInv, and what
\* osGetThreadStackUsage reports is truthful, for any number of threads, any sizes, any
\* pool and any requests.
THEOREM Invariance == Spec => [](IInv /\ UsageTruthful)
<1>1. Init => IInv /\ UsageTruthful
  BY InitHolds
<1>2. (IInv /\ UsageTruthful) /\ [Next]_vars => (IInv /\ UsageTruthful)'
  BY NextStep
<1>3. QED
  BY <1>1, <1>2, PTL DEF Spec

\* The variables of admission and of the diagnosis keep their types.
THEOREM TypeSafety == Spec => []TypeOK
<1>1. IInv => TypeOK
  BY DEF IInv
<1>2. QED
  BY <1>1, Invariance, PTL

\* createThread never admits a stack that shares a word with another one, leaves the
\* address space, or, passed by a caller, touches the pool.
THEOREM DisjointSafety == Spec => []StacksDisjoint
<1>1. IInv => StacksDisjoint
  <2>1. SUFFICES ASSUME IInv
                 PROVE  StacksDisjoint
    OBVIOUS
  <2>2. ASSUME NEW i \in 0..thread_count - 1
        PROVE  /\ Slot(i).words >= GUARD_WORDS + CONTEXT_WORDS
               /\ Extent(Slot(i)) \subseteq Address \ {0}
               /\ Slot(i) = PoolStack(i) \/ Extent(Slot(i)) \cap Extent(DefaultStacks) = {}
    <3>1. /\ Slot(i) \in Storage /\ stackRange(Slot(i))
          /\ EndOf(Slot(i)) = Slot(i).start + Slot(i).words
          /\ Slot(i) = PoolStack(i) \/ ~overlaps(Slot(i), DefaultStacks)
      BY <2>1, SlotFacts DEF IInv, Layout
    <3>2. QED
      BY <3>1, AcceptedRange, PoolFacts, Apart
  <2>3. QED
    BY <2>1, <2>2, SlotsApart DEF IInv, StacksDisjoint
<1>2. QED
  BY <1>1, Invariance, PTL

\* No creation, admitted or refused, writes to the stack of a thread created before.
THEOREM ContextSafety == Spec => []ContextsIntact
<1>1. IInv => ContextsIntact
  BY DEF IInv
<1>2. QED
  BY <1>1, Invariance, PTL

\* The ring that osScheduler follows passes through all created threads in their order.
THEOREM RingSafety == Spec => []RingClosed
<1>1. IInv => RingClosed
  BY DEF IInv
<1>2. QED
  BY <1>1, Invariance, PTL

\* osCreateThread succeeds whenever a slot is free, whatever storage was passed before.
THEOREM PoolSafety == Spec => []PoolStaysUsable
<1>1. IInv => PoolStaysUsable
  <2>1. SUFFICES ASSUME IInv, thread_count < MAX_THREADS
                 PROVE  Admissible(PoolStack(thread_count), TRUE)
    BY DEF PoolStaysUsable
  <2> DEFINE n == thread_count
             p == PoolStack(n)
  <2>2. n \in Slots /\ n \in Nat
    BY <2>1, StackAssumption DEF IInv, TypeOK, thread_count, Slots
  <2>3. /\ p \in Storage /\ stackRange(p) /\ p.start >= PoolStart
        /\ p.start + p.words <= DefaultStacks.start + DefaultStacks.words
    BY <2>2, PoolFacts
  <2>4. EndOf(p) = p.start + p.words
    BY <2>3, AcceptedRange
  <2>5. ASSUME NEW i \in 0..n - 1
        PROVE  stackRange(Slot(i)) /\ ~overlaps(p, Slot(i))
    <3>1. /\ Slot(i) \in Storage /\ stackRange(Slot(i)) /\ i \in Slots
          /\ EndOf(Slot(i)) = Slot(i).start + Slot(i).words
      BY <2>1, SlotFacts DEF IInv, Layout
    <3>2. CASE Slot(i) = PoolStack(i)
      <4>1. Slot(i).start + Slot(i).words <= p.start
        BY <2>2, <3>1, <3>2, PoolFacts
      <4>2. QED
        BY <4>1, <2>3, <2>4, <3>1, Apart
    <3>3. CASE ~overlaps(Slot(i), DefaultStacks)
      <4>1. \/ Slot(i).start + Slot(i).words <= DefaultStacks.start
            \/ DefaultStacks.start + DefaultStacks.words <= Slot(i).start
        BY <3>1, <3>3, PoolFacts, Apart
      <4>2. /\ DefaultStacks.start = PoolStart /\ DefaultStacks.words \in Nat
            /\ Slot(i).start \in Nat /\ Slot(i).words \in Nat
            /\ p.start \in Nat /\ p.words \in Nat /\ PoolStart \in Nat
        BY <2>3, <3>1, PoolFacts, StackAssumption DEF Storage, Address
      <4>3. \/ Slot(i).start + Slot(i).words <= p.start
            \/ p.start + p.words <= Slot(i).start
        BY <4>1, <4>2, <2>3
      <4>4. QED
        BY <4>3, <2>3, <2>4, <3>1, Apart
    <3>4. QED
      BY <2>1, <3>1, <3>2, <3>3 DEF IInv, Layout
  <2>6. QED
    BY <2>3, <2>5 DEF Admissible
<1>2. QED
  BY <1>1, Invariance, PTL

\* What osGetThreadStackUsage reports is bounded by what the thread has written, from
\* above always and from below by every word that differs from the fill pattern.
THEOREM UsageSafety == Spec => []UsageTruthful
<1>1. QED
  BY Invariance, PTL
=============================================================================
