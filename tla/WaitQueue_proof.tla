-------------------------- MODULE WaitQueue_proof --------------------------
(***************************************************************************)
(* Proofs about WaitQueue.  The walk of osWaitQueueValidate is tied to the *)
(* reference definition of a list first; then linkNode and unlinkNode are  *)
(* shown to edit one list and keep the others, which gives the invariants  *)
(* and, with the answers of the calls, the refinement of WaitLine.         *)
(***************************************************************************)
EXTENDS WaitQueue, WellFoundedInduction, SequenceTheorems, TLAPS

\* Every nonempty set of naturals has a least element: the induction of the
\* two lemmas about the walk, as a fact about sets.
LEMMA Least ==
  ASSUME NEW T \in SUBSET Nat, T # {}
  PROVE  \E m \in T : \A k \in T : m <= k
<1>1. \E x \in T : \A y \in T : <<y, x>> \notin OpToRel(<, Nat)
  BY NatLessThanWellFounded, WFMin
<1>2. \A x, y \in Nat : <<y, x>> \notin OpToRel(<, Nat) => x <= y
  BY DEF OpToRel
<1>3. QED
  BY <1>1, <1>2

\* The node after n on the walk.
Step(n) == IF n = NULL THEN NULL ELSE next[n]

\* The equation that defines the walk.
WalkOf(q, w) ==
  w = [k \in 0..MaxNodes |-> IF k = 0 THEN head[q]
        ELSE IF w[k - 1] = NULL THEN NULL ELSE next[w[k - 1]]]

\* The equation of the walk has one solution: two of them would differ first
\* at some step, and agree on the one before.
LEMMA WalkOfUnique ==
  ASSUME NEW q, NEW v, NEW w, WalkOf(q, v), WalkOf(q, w)
  PROVE  v = w
<1> DEFINE Differ == {k \in 0..MaxNodes : v[k] # w[k]}
<1>1. Differ \in SUBSET Nat /\ MaxNodes \in Nat
  BY WaitQueueAssumption
<1>2. CASE Differ = {}
  <2>1. v = [k \in 0..MaxNodes |-> v[k]] /\ w = [k \in 0..MaxNodes |-> w[k]]
    BY DEF WalkOf
  <2>2. \A k \in 0..MaxNodes : v[k] = w[k]
    BY <1>2
  <2>3. QED
    BY <2>1, <2>2, Zenon
<1>3. CASE Differ # {}
  <2>1. PICK m \in Differ : \A k \in Differ : m <= k
    <3> HIDE DEF Differ
    <3> QED BY <1>1, <1>3, Least
  <2>2. m # 0
    BY <2>1, <1>1 DEF WalkOf
  <2>3. m - 1 \in 0..MaxNodes /\ v[m - 1] = w[m - 1]
    BY <2>1, <2>2, <1>1
  <2>4. v[m] = w[m]
    BY <2>1, <2>2, <2>3, <1>1 DEF WalkOf
  <2>5. QED
    BY <2>1, <2>4
<1>4. QED
  BY <1>2, <1>3

\* The equation of the walk has a solution: a walk of j - 1 steps can be
\* continued by one.
LEMMA WalkExists ==
  ASSUME TypeOK, NEW q \in Queues
  PROVE  \E w \in [0..MaxNodes -> Link] : WalkOf(q, w)
<1> DEFINE Begins(j, w) == /\ w[0] = head[q]
                           /\ \A k \in 1..j : w[k] = Step(w[k - 1])
           Stuck == {j \in 0..MaxNodes : ~ \E w \in [0..j -> Link] : Begins(j, w)}
<1>1. Stuck \in SUBSET Nat /\ MaxNodes \in Nat
  BY WaitQueueAssumption
<1>2. ASSUME Stuck # {}
      PROVE  FALSE
  <2>1. PICK m \in Stuck : \A k \in Stuck : m <= k
    <3> HIDE DEF Stuck
    <3> QED BY <1>1, <1>2, Least
  <2>2. m # 0
    <3>1. [k \in 0..0 |-> head[q]] \in [0..0 -> Link]
      BY DEF TypeOK
    <3>2. Begins(0, [k \in 0..0 |-> head[q]])
      OBVIOUS
    <3>3. 0 \notin Stuck
      BY <3>1, <3>2
    <3> QED BY <3>3, <2>1
  <2>3. m - 1 \in 0..MaxNodes /\ m - 1 \notin Stuck
    BY <2>1, <2>2, <1>1
  <2>4. PICK w \in [0..m - 1 -> Link] : Begins(m - 1, w)
    BY <2>3
  <2> DEFINE longer == [k \in 0..m |-> IF k = m THEN Step(w[m - 1]) ELSE w[k]]
  <2>5. longer \in [0..m -> Link]
    <3>1. w[m - 1] \in Link
      BY <2>3, <2>4
    <3>2. Step(w[m - 1]) \in Link
      BY <3>1 DEF Step, Link, TypeOK
    <3>3. \A k \in 0..m : k # m => k \in 0..m - 1
      BY <2>1, <1>1
    <3> QED BY <3>2, <3>3, <2>4
  <2>6. Begins(m, longer)
    <3>1. longer[0] = head[q]
      BY <2>1, <2>2, <2>4, <1>1
    <3>2. ASSUME NEW k \in 1..m PROVE longer[k] = Step(longer[k - 1])
      BY <3>2, <2>1, <2>2, <2>4, <1>1
    <3> QED BY <3>1, <3>2
  <2>7. QED
    BY <2>1, <2>5, <2>6
<1>3. PICK w \in [0..MaxNodes -> Link] : Begins(MaxNodes, w)
  <2>1. MaxNodes \in 0..MaxNodes /\ Stuck = {}
    BY <1>1, <1>2
  <2>2. QED
    BY <2>1
<1>4. WalkOf(q, w)
  <2>1. \A k \in 0..MaxNodes : w[k] = IF k = 0 THEN head[q]
          ELSE IF w[k - 1] = NULL THEN NULL ELSE next[w[k - 1]]
    BY <1>1, <1>3 DEF Step
  <2>2. QED
    BY <2>1 DEF WalkOf
<1>5. QED
  BY <1>4

\* Walk(q) is the walk of osWaitQueueValidate along next from head[q].
LEMMA WalkIsWalk ==
  ASSUME TypeOK, NEW q \in Queues
  PROVE  Walk(q) \in [0..MaxNodes -> Link] /\ WalkOf(q, Walk(q))
<1>1. Walk(q) = CHOOSE w : WalkOf(q, w)
  BY DEF Walk, WalkOf
<1>2. PICK w \in [0..MaxNodes -> Link] : WalkOf(q, w)
  BY WalkExists
<1>3. WalkOf(q, Walk(q))
  BY <1>1, <1>2
<1>4. QED
  BY <1>2, <1>3, WalkOfUnique

\* The walk along a list visits the members of the list in order, then NULL.
LEMMA ListWalk ==
  ASSUME TypeOK, NEW q \in Queues, NEW s \in Orders, IsList(q, s)
  PROVE  /\ Walk(q) = [k \in 0..MaxNodes |-> IF k < Len(s) THEN s[k + 1] ELSE NULL]
         /\ Listed(q) = s
<1> DEFINE g == [k \in 0..MaxNodes |-> IF k < Len(s) THEN s[k + 1] ELSE NULL]
<1>1. /\ MaxNodes \in Nat /\ Len(s) \in 0..MaxNodes /\ s \in Seq(Nodes)
      /\ s \in [1..Len(s) -> Nodes]
  BY WaitQueueAssumption DEF Orders
<1>2. NULL \notin Nodes
  BY WaitQueueAssumption
<1>3. WalkOf(q, g)
  <2>1. \A k \in 0..MaxNodes : g[k] = IF k < Len(s) THEN s[k + 1] ELSE NULL
    OBVIOUS
  <2>2. g[0] = head[q]
    <3>1. head[q] = IF s = <<>> THEN NULL ELSE s[1]
      BY DEF IsList
    <3>2. s = <<>> <=> Len(s) = 0
      BY <1>1
    <3>3. g[0] = IF 0 < Len(s) THEN s[1] ELSE NULL
      BY <2>1, <1>1
    <3>4. QED
      BY <3>1, <3>2, <3>3, <1>1
  <2>3. ASSUME NEW k \in 1..MaxNodes
        PROVE  g[k] = IF g[k - 1] = NULL THEN NULL ELSE next[g[k - 1]]
    <3> HIDE DEF g
    <3>1. k - 1 \in 0..MaxNodes /\ k \in 0..MaxNodes /\ (k - 1) + 1 = k
      BY <1>1
    <3>2. CASE k - 1 < Len(s)
      <4>1. k \in 1..Len(s) /\ g[k - 1] = s[k] /\ s[k] # NULL
        BY <3>1, <3>2, <2>1, <1>1, <1>2
      <4>2. next[s[k]] = IF k = Len(s) THEN NULL ELSE s[k + 1]
        BY <4>1 DEF IsList
      <4>3. g[k] = IF k < Len(s) THEN s[k + 1] ELSE NULL
        BY <3>1, <2>1
      <4>4. k < Len(s) <=> k # Len(s)
        <5>1. k \in 1..Len(s) /\ Len(s) \in Nat
          BY <4>1, <1>1
        <5>2. QED
          BY <5>1
      <4>5. QED
        BY <4>1, <4>2, <4>3, <4>4
    <3>3. CASE ~(k - 1 < Len(s))
      BY <3>1, <3>3, <2>1, <1>1
    <3>4. QED
      BY <3>2, <3>3
  <2>4. \A k \in 0..MaxNodes : g[k] = IF k = 0 THEN head[q]
          ELSE IF g[k - 1] = NULL THEN NULL ELSE next[g[k - 1]]
    <3> HIDE DEF g
    <3>1. QED
      BY <2>2, <2>3, <1>1
  <2>5. QED
    BY <2>4 DEF WalkOf
<1>4. Walk(q) = g
  BY <1>3, WalkIsWalk, WalkOfUnique
<1>5. Listed(q) = s
  <2>1. count[q] = Len(s)
    BY DEF IsList
  <2>2. \A i \in 1..Len(s) : Walk(q)[i - 1] = s[i]
    BY <1>4, <1>1
  <2> QED BY <2>1, <2>2, <1>1 DEF Listed
<1>6. QED
  BY <1>4, <1>5

\* osWaitQueueValidate accepts every list.
LEMMA ListAccepted ==
  ASSUME TypeOK, NEW q \in Queues, NEW s \in Orders, IsList(q, s)
  PROVE  Accepts(q)
<1>1. /\ MaxNodes \in Nat /\ Len(s) \in 0..MaxNodes /\ s \in [1..Len(s) -> Nodes]
      /\ s \in Seq(Nodes) /\ NULL \notin Nodes
  BY WaitQueueAssumption DEF Orders
<1>2. \A k \in 0..MaxNodes : Walk(q)[k] = IF k < Len(s) THEN s[k + 1] ELSE NULL
  BY ListWalk
<1>3. count[q] = Len(s)
  BY DEF IsList
<1>4. CASE Len(s) = 0
  <2>1. s = <<>>
    BY <1>1, <1>4
  <2>2. head[q] = NULL /\ tail[q] = NULL
    BY <2>1 DEF IsList
  <2>3. QED
    BY <2>2, <1>1, <1>3, <1>4 DEF Accepts
<1>5. CASE Len(s) > 0
  <2>1. s # <<>> /\ 1 \in 1..Len(s) /\ Len(s) \in 1..Len(s)
    BY <1>1, <1>5
  <2>2. head[q] = s[1] /\ tail[q] = s[Len(s)]
    BY <2>1 DEF IsList
  <2>3. \A i \in 1..Len(s) :
          /\ container[s[i]] = q
          /\ previous[s[i]] = IF i = 1 THEN NULL ELSE s[i - 1]
          /\ next[s[i]] = IF i = Len(s) THEN NULL ELSE s[i + 1]
    BY DEF IsList
  <2>4. \A i, j \in 1..Len(s) : s[i] = s[j] => i = j
    BY <1>1 DEF IsList, IsInjective
  <2>5. ASSUME NEW k \in 0..count[q] - 1
        PROVE  /\ Walk(q)[k] # NULL
               /\ Passes(q, Walk(q)[k], IF k = 0 THEN NULL ELSE Walk(q)[k - 1])
    <3>1. k + 1 \in 1..Len(s) /\ k \in 0..MaxNodes /\ (k + 1) - 1 = k
      BY <1>1, <1>3
    <3>2. Walk(q)[k] = s[k + 1] /\ s[k + 1] \in Nodes
      BY <1>1, <1>2, <1>3, <3>1
    <3>3. container[s[k + 1]] = q
      BY <2>3, <3>1
    <3>4. previous[s[k + 1]] = IF k = 0 THEN NULL ELSE Walk(q)[k - 1]
      <4>1. CASE k = 0
        BY <2>3, <3>1, <4>1
      <4>2. CASE k # 0
        <5>1. k \in 1..Len(s) /\ k + 1 # 1 /\ k - 1 \in 0..MaxNodes /\ k - 1 < Len(s)
          BY <4>2, <3>1, <1>1
        <5>2. previous[s[k + 1]] = s[k]
          BY <5>1, <2>3, <3>1
        <5>3. Walk(q)[k - 1] = s[k]
          BY <5>1, <1>2
        <5>4. QED
          BY <5>2, <5>3, <4>2
      <4>3. QED
        BY <4>1, <4>2
    <3>5. previous[s[k + 1]] # s[k + 1]
      <4>1. CASE k = 0
        BY <4>1, <3>2, <3>4, <1>1
      <4>2. CASE k # 0
        <5>1. k \in 1..Len(s) /\ k # k + 1 /\ k + 1 # 1
          BY <4>2, <3>1, <1>1
        <5>2. s[k] # s[k + 1]
          BY <5>1, <3>1, <2>4
        <5>3. QED
          BY <5>1, <5>2, <3>1, <2>3
      <4>3. QED
        BY <4>1, <4>2
    <3>6. next[s[k + 1]] # s[k + 1]
      <4>1. CASE k + 1 = Len(s)
        BY <4>1, <3>1, <3>2, <2>3, <1>1
      <4>2. CASE k + 1 # Len(s)
        <5>1. k + 2 \in 1..Len(s) /\ k + 2 # k + 1 /\ (k + 1) + 1 = k + 2
          <6>1. k \in Nat /\ Len(s) \in Nat /\ k + 1 \in 1..Len(s)
            BY <3>1, <1>1
          <6>2. QED
            BY <6>1, <4>2
        <5>2. s[k + 2] # s[k + 1]
          BY <5>1, <3>1, <2>4
        <5>3. QED
          BY <5>1, <5>2, <4>2, <3>1, <2>3
      <4>3. QED
        BY <4>1, <4>2
    <3>7. QED
      BY <3>2, <3>3, <3>4, <3>5, <3>6, <1>1 DEF Passes
  <2>6. Walk(q)[count[q]] = NULL
    BY <1>1, <1>2, <1>3
  <2>7. Walk(q)[count[q] - 1] = tail[q]
    <3>1. Len(s) - 1 \in 0..MaxNodes /\ Len(s) - 1 < Len(s) /\ (Len(s) - 1) + 1 = Len(s)
      BY <1>1, <1>5
    <3>2. Walk(q)[Len(s) - 1] = s[Len(s)]
      BY <3>1, <1>2
    <3>3. QED
      BY <3>2, <2>2, <1>3
  <2>8. previous[head[q]] = NULL /\ next[tail[q]] = NULL
    BY <2>1, <2>2, <2>3
  <2>9. head[q] # NULL /\ tail[q] # NULL
    BY <2>1, <2>2, <1>1
  <2>10. QED
    BY <2>5, <2>6, <2>7, <2>8, <2>9, <1>1, <1>3, <1>5 DEF Accepts
<1>6. QED
  BY <1>1, <1>4, <1>5

\* What osWaitQueueValidate accepts is a list: two visits of one node would
\* have the same previous link, so the first of them would not be the first.
LEMMA AcceptedList ==
  ASSUME TypeOK, NEW q \in Queues, Accepts(q)
  PROVE  Listed(q) \in Orders /\ IsList(q, Listed(q))
<1> DEFINE w == Walk(q)
           s == [i \in 1..count[q] |-> w[i - 1]]
<1>1. /\ MaxNodes \in Nat /\ count[q] \in 0..MaxNodes /\ NULL \notin Nodes
      /\ w \in [0..MaxNodes -> Link] /\ w[0] = head[q]
      /\ \A k \in 1..MaxNodes : w[k - 1] # NULL => w[k] = next[w[k - 1]]
  <2>1. w \in [0..MaxNodes -> Link] /\ WalkOf(q, w)
    BY WalkIsWalk
  <2>2. MaxNodes \in Nat /\ NULL \notin Nodes /\ count[q] \in 0..MaxNodes
    BY WaitQueueAssumption DEF Accepts, TypeOK
  <2> HIDE DEF w
  <2>3. \A k \in 0..MaxNodes : w[k] = IF k = 0 THEN head[q]
          ELSE IF w[k - 1] = NULL THEN NULL ELSE next[w[k - 1]]
    BY <2>1 DEF WalkOf
  <2>4. QED
    BY <2>1, <2>2, <2>3
<1>2. Listed(q) = s
  BY DEF Listed
<1>3. CASE count[q] = 0
  <2>1. head[q] = NULL /\ tail[q] = NULL
    BY <1>3 DEF Accepts
  <2>2. s = <<>> /\ Len(s) = 0 /\ s \in Orders
    BY <1>1, <1>3 DEF Orders
  <2>3. IsList(q, s)
    <3> HIDE DEF s
    <3>1. QED
      BY <2>1, <2>2, <1>3 DEF IsList, IsInjective
  <2>4. QED
    BY <1>2, <2>2, <2>3
<1>4. CASE count[q] > 0
  <2> HIDE DEF w
  <2>1. /\ previous[head[q]] = NULL /\ w[count[q]] = NULL /\ w[count[q] - 1] = tail[q]
        /\ \A k \in 0..count[q] - 1 :
             w[k] # NULL /\ Passes(q, w[k], IF k = 0 THEN NULL ELSE w[k - 1])
    BY <1>4, <1>1 DEF Accepts, w
  <2>2. \A k \in 0..count[q] - 1 :
          /\ w[k] \in Nodes /\ container[w[k]] = q
          /\ previous[w[k]] = IF k = 0 THEN NULL ELSE w[k - 1]
    BY <2>1, <1>1 DEF Passes, Link
  <2>3. \A k \in 0..count[q] - 1 : next[w[k]] = w[k + 1]
    <3>1. TAKE k \in 0..count[q] - 1
    <3>2. k + 1 \in 1..MaxNodes /\ (k + 1) - 1 = k
      BY <1>1
    <3>3. QED
      BY <3>2, <2>1, <1>1
  <2>4. \A j, k \in 0..count[q] - 1 : w[j] = w[k] => j = k
    <3> DEFINE Twice == {k \in 0..count[q] - 1 :
                            \E j \in 0..count[q] - 1 : j # k /\ w[j] = w[k]}
    <3>1. ASSUME Twice # {}
          PROVE  FALSE
      <4>1. Twice \in SUBSET Nat
        BY <1>1
      <4>2. PICK m \in Twice : \A k \in Twice : m <= k
        <5> HIDE DEF Twice
        <5>1. QED
          BY <3>1, <4>1, Least
      <4>3. PICK j \in 0..count[q] - 1 : j # m /\ w[j] = w[m]
        BY <4>2
      <4>4. j \in Twice
        BY <4>2, <4>3
      <4>5. m < j /\ m \in 0..count[q] - 1 /\ j - 1 \in 0..count[q] - 1 /\ j # 0
        BY <4>2, <4>3, <4>4, <1>1
      <4>6. previous[w[m]] = w[j - 1]
        BY <2>2, <4>3, <4>5
      <4>7. CASE m = 0
        BY <4>6, <4>7, <2>1, <2>2, <4>5
      <4>8. CASE m # 0
        <5>1. m - 1 \in 0..count[q] - 1 /\ m - 1 # j - 1 /\ ~(m <= m - 1)
          BY <4>5, <4>8, <1>1
        <5>2. w[m - 1] = w[j - 1]
          BY <2>2, <4>5, <4>6, <4>8
        <5>3. m - 1 \in Twice
          BY <5>1, <5>2, <4>5
        <5>4. QED
          BY <5>1, <5>3, <4>2
      <4>9. QED
        BY <4>7, <4>8
    <3>2. QED
      BY <3>1
  <2>5. s \in [1..count[q] -> Nodes] /\ Len(s) = count[q] /\ s \in Orders
    <3>1. \A i \in 1..count[q] : i - 1 \in 0..count[q] - 1
      BY <1>1
    <3>2. s \in [1..count[q] -> Nodes]
      BY <3>1, <2>2
    <3> HIDE DEF s
    <3>3. QED
      BY <3>2, <1>1 DEF Orders
  <2>6. \A i \in 1..count[q] : s[i] = w[i - 1]
    OBVIOUS
  <2> HIDE DEF s
  <2>7. IsInjective(s)
    <3>1. ASSUME NEW i \in 1..count[q], NEW j \in 1..count[q], s[i] = s[j]
          PROVE  i = j
      <4>1. i - 1 \in 0..count[q] - 1 /\ j - 1 \in 0..count[q] - 1
        BY <1>1
      <4>2. i - 1 = j - 1
        BY <4>1, <3>1, <2>4, <2>6
      <4>3. QED
        BY <4>2, <1>1
    <3>2. QED
      BY <3>1, <2>5 DEF IsInjective
  <2>8. s # <<>> /\ head[q] = s[1] /\ tail[q] = s[Len(s)]
    <3>1. 1 \in 1..count[q] /\ count[q] \in 1..count[q]
      BY <1>1, <1>4
    <3>2. s # <<>>
      BY <2>5, <1>4
    <3>3. QED
      BY <3>1, <3>2, <2>1, <2>5, <2>6, <1>1
  <2>9. ASSUME NEW i \in 1..Len(s)
        PROVE  /\ container[s[i]] = q
               /\ previous[s[i]] = IF i = 1 THEN NULL ELSE s[i - 1]
               /\ next[s[i]] = IF i = Len(s) THEN NULL ELSE s[i + 1]
    <3>1. i \in 1..count[q] /\ i - 1 \in 0..count[q] - 1 /\ (i - 1) + 1 = i
      BY <2>5, <1>1
    <3>2. container[s[i]] = q /\ next[s[i]] = w[i]
      BY <3>1, <2>2, <2>3, <2>6
    <3>3. previous[s[i]] = IF i = 1 THEN NULL ELSE s[i - 1]
      <4>1. previous[s[i]] = IF i - 1 = 0 THEN NULL ELSE w[(i - 1) - 1]
        BY <3>1, <2>2, <2>6
      <4>2. i # 1 => i - 1 \in 1..count[q]
        BY <3>1, <1>1
      <4>3. i # 1 => s[i - 1] = w[(i - 1) - 1]
        BY <4>2, <2>6
      <4>4. i - 1 = 0 <=> i = 1
        BY <3>1, <1>1
      <4>5. QED
        BY <4>1, <4>3, <4>4
    <3>4. w[i] = IF i = Len(s) THEN NULL ELSE s[i + 1]
      <4>1. CASE i = Len(s)
        BY <4>1, <2>5, <2>1
      <4>2. CASE i # Len(s)
        <5>1. i + 1 \in 1..count[q] /\ (i + 1) - 1 = i
          BY <4>2, <3>1, <2>5, <1>1
        <5>2. QED
          BY <5>1, <4>2, <2>6
      <4>3. QED
        BY <4>1, <4>2
    <3>5. QED
      BY <3>2, <3>3, <3>4
  <2>10. IsList(q, s)
    BY <2>5, <2>7, <2>8, <2>9 DEF IsList
  <2>11. QED
    BY <1>2, <2>5, <2>10
<1>5. QED
  BY <1>1, <1>3, <1>4

-----------------------------------------------------------------------------
\* Validation accepts the lists, and the members it sees are those of the list.
AcceptsLists ==
  \A q \in Queues :
    /\ Accepts(q) => Listed(q) \in Orders
    /\ \A s \in Orders : IsList(q, s) <=> Accepts(q) /\ Listed(q) = s

\* Validation and the reference definition agree, in every state of the types.
LEMMA ListsAccepted == TypeOK => AcceptsLists
BY ListWalk, ListAccepted, AcceptedList DEF AcceptsLists

\* The same of the state after a step.
LEMMA ListsAcceptedNext == TypeOK' => AcceptsLists'
BY ListsAccepted, PTL

\* What is used of the sequences that are lists.
LEMMA OrderFacts ==
  ASSUME NEW s \in Orders
  PROVE  /\ s \in Seq(Nodes) /\ Len(s) \in Nat /\ Len(s) <= MaxNodes /\ MaxNodes \in Nat
         /\ s \in [1..Len(s) -> Nodes] /\ DOMAIN s = 1..Len(s)
         /\ s = <<>> <=> Len(s) = 0
BY WaitQueueAssumption DEF Orders

\* Sequences of nodes that are short enough are orders.
LEMMA SeqIsOrder ==
  ASSUME NEW t \in Seq(Nodes), Len(t) <= MaxNodes
  PROVE  t \in Orders
<1>1. Len(t) \in Nat /\ t \in [1..Len(t) -> Nodes] /\ MaxNodes \in Nat
  BY LenProperties, WaitQueueAssumption
<1>2. Len(t) \in 0..MaxNodes
  BY <1>1
<1>3. QED
  BY <1>1, <1>2 DEF Orders

\* A member added at the end.
LEMMA AppendOrder ==
  ASSUME NEW s \in Orders, NEW n \in Nodes, Len(s) < MaxNodes
  PROVE  /\ Append(s, n) \in Orders /\ Len(Append(s, n)) = Len(s) + 1
         /\ \A i \in 1..Len(s) : Append(s, n)[i] = s[i]
         /\ Append(s, n)[Len(s) + 1] = n
<1>1. s \in Seq(Nodes) /\ Len(s) \in Nat /\ MaxNodes \in Nat
  BY OrderFacts
<1>2. /\ Append(s, n) \in Seq(Nodes) /\ Len(Append(s, n)) = Len(s) + 1
      /\ \A i \in 1..Len(s) : Append(s, n)[i] = s[i]
      /\ Append(s, n)[Len(s) + 1] = n
  BY <1>1
<1>3. Len(s) + 1 <= MaxNodes
  BY <1>1
<1>4. QED
  BY <1>2, <1>3, SeqIsOrder

\* A member taken out: those behind it move up.
LEMMA RemoveAtOrder ==
  ASSUME NEW s \in Orders, NEW i \in 1..Len(s)
  PROVE  /\ RemoveAt(s, i) \in Orders /\ Len(RemoveAt(s, i)) = Len(s) - 1
         /\ \A j \in 1..Len(s) - 1 :
              RemoveAt(s, i)[j] = IF j < i THEN s[j] ELSE s[j + 1]
<1>1. s \in Seq(Nodes) /\ Len(s) \in Nat /\ MaxNodes \in Nat /\ Len(s) <= MaxNodes
  BY OrderFacts
<1> DEFINE a == SubSeq(s, 1, i - 1)
           b == SubSeq(s, i + 1, Len(s))
<1>2. /\ a \in Seq(Nodes) /\ Len(a) = i - 1
      /\ \A j \in 1..i - 1 : a[j] = s[j]
  BY <1>1
<1>3. /\ b \in Seq(Nodes) /\ Len(b) = Len(s) - i
      /\ \A j \in 1..Len(s) - i : b[j] = s[i + j]
  BY <1>1
<1>4. RemoveAt(s, i) = a \o b
  BY DEF RemoveAt
<1> HIDE DEF a, b
<1>5. /\ a \o b \in Seq(Nodes) /\ Len(a \o b) = Len(s) - 1
      /\ \A j \in 1..Len(s) - 1 : (a \o b)[j] = IF j < i THEN a[j] ELSE b[j - (i - 1)]
  <2>1. /\ a \o b \in Seq(Nodes) /\ Len(a \o b) = Len(a) + Len(b)
        /\ \A j \in 1..Len(a) + Len(b) :
             (a \o b)[j] = IF j <= Len(a) THEN a[j] ELSE b[j - Len(a)]
    BY <1>2, <1>3, ConcatProperties
  <2>2. Len(a) + Len(b) = Len(s) - 1
    BY <1>1, <1>2, <1>3
  <2>3. \A j \in 1..Len(s) - 1 : j <= Len(a) <=> j < i
    BY <1>1, <1>2
  <2>4. QED
    BY <2>1, <2>2, <2>3, <1>2
<1>6. ASSUME NEW j \in 1..Len(s) - 1
      PROVE  (a \o b)[j] = IF j < i THEN s[j] ELSE s[j + 1]
  <2>1. CASE j < i
    BY <2>1, <1>1, <1>2, <1>5
  <2>2. CASE ~(j < i)
    <3>1. j - (i - 1) \in 1..Len(s) - i /\ i + (j - (i - 1)) = j + 1
      BY <2>2, <1>1
    <3>2. QED
      BY <3>1, <2>2, <1>3, <1>5
  <2>3. QED
    BY <2>1, <2>2
<1>7. Len(s) - 1 <= MaxNodes
  BY <1>1
<1>8. QED
  BY <1>4, <1>5, <1>6, <1>7, SeqIsOrder

\* A list whose fields do not change is still the list.
LEMMA Untouched ==
  ASSUME NEW q, NEW s \in Orders, IsList(q, s),
         head'[q] = head[q], tail'[q] = tail[q], count'[q] = count[q],
         \A i \in 1..Len(s) : /\ container'[s[i]] = container[s[i]]
                               /\ previous'[s[i]] = previous[s[i]]
                               /\ next'[s[i]] = next[s[i]]
  PROVE  IsList(q, s)'
BY DEF IsList

\* The fields around the i-th member of a list.
LEMMA ListLinks ==
  ASSUME NEW q, NEW s \in Orders, IsList(q, s), NEW i \in 1..Len(s)
  PROVE  /\ s[i] \in Nodes /\ container[s[i]] = q
         /\ previous[s[i]] = IF i = 1 THEN NULL ELSE s[i - 1]
         /\ next[s[i]] = IF i = Len(s) THEN NULL ELSE s[i + 1]
         /\ \A j \in 1..Len(s) : s[i] = s[j] => i = j
         /\ count[q] = Len(s) /\ head[q] = s[1] /\ tail[q] = s[Len(s)]
<1>1. Len(s) \in Nat /\ DOMAIN s = 1..Len(s) /\ s # <<>> /\ s[i] \in Nodes
  BY OrderFacts
<1>2. IsInjective(s) /\ count[q] = Len(s) /\ head[q] = s[1] /\ tail[q] = s[Len(s)]
  BY <1>1 DEF IsList
<1>3. \A j \in 1..Len(s) : s[i] = s[j] => i = j
  BY <1>1, <1>2 DEF IsInjective
<1>4. QED
  BY <1>1, <1>2, <1>3 DEF IsList

\* linkNode appends to the list it is called on and spoils no other one.
LEMMA LinkStep ==
  ASSUME TypeOK, NEW q \in Queues, NEW n \in Nodes, NEW s \in Orders, IsList(q, s),
         container[n] = NULL, next[n] = NULL, Len(s) < MaxNodes, linkNode(q, n)
  PROVE  /\ IsList(q, Append(s, n))'
         /\ \A p \in Queues \ {q} : \A t \in Orders : IsList(p, t) => IsList(p, t)'
<1>1. /\ s \in Seq(Nodes) /\ Len(s) \in Nat /\ NULL \notin Nodes /\ NULL \notin Queues
      /\ DOMAIN s = 1..Len(s) /\ s = <<>> <=> Len(s) = 0
  BY OrderFacts, WaitQueueAssumption
<1>2. /\ previous' = [previous EXCEPT ![n] = tail[q]]
      /\ container' = [container EXCEPT ![n] = q]
      /\ next' = [m \in Nodes |-> IF m = tail[q] THEN n ELSE next[m]]
      /\ head' = IF tail[q] # NULL THEN head ELSE [head EXCEPT ![q] = n]
      /\ tail' = [tail EXCEPT ![q] = n]
      /\ count' = [count EXCEPT ![q] = @ + 1]
  BY DEF linkNode
<1>3. /\ head \in [Queues -> Link] /\ tail \in [Queues -> Link]
      /\ count \in [Queues -> 0..MaxNodes + 1] /\ next \in [Nodes -> Link]
      /\ previous \in [Nodes -> Link] /\ container \in [Nodes -> Queues \cup {NULL}]
  BY DEF TypeOK
<1>4. tail[q] = IF s = <<>> THEN NULL ELSE s[Len(s)]
  BY DEF IsList
<1>5. n # tail[q]
  BY <1>1, <1>4, ListLinks
<1>6. ASSUME NEW p \in Queues \ {q}, NEW t \in Orders, IsList(p, t)
      PROVE  IsList(p, t)'
  <2>1. head'[p] = head[p] /\ tail'[p] = tail[p] /\ count'[p] = count[p]
    BY <1>2, <1>3
  <2>2. ASSUME NEW i \in 1..Len(t)
        PROVE  /\ container'[t[i]] = container[t[i]]
               /\ previous'[t[i]] = previous[t[i]]
               /\ next'[t[i]] = next[t[i]]
    <3>1. t[i] \in Nodes /\ container[t[i]] = p
      BY <1>6, ListLinks
    <3>2. t[i] # n
      BY <3>1, <1>1
    <3>3. t[i] # tail[q]
      BY <3>1, <1>1, <1>4, ListLinks
    <3>4. QED
      BY <3>1, <3>2, <3>3, <1>2, <1>3
  <2>3. QED
    BY <1>6, <2>1, <2>2, Untouched
<1>7. IsList(q, Append(s, n))'
  <2> DEFINE t == Append(s, n)
             l == Len(s)
  <2>1. /\ t \in Orders /\ Len(t) = l + 1 /\ t[l + 1] = n /\ DOMAIN t = 1..l + 1
        /\ \A i \in 1..l : t[i] = s[i]
    BY AppendOrder, OrderFacts
  <2>2. /\ \A i \in 1..l : s[i] \in Nodes /\ s[i] # n
        /\ \A i, j \in 1..l : s[i] = s[j] => i = j
    BY ListLinks, <1>1
  <2> HIDE DEF t
  <2>3. IsInjective(t)
    <3>1. ASSUME NEW i \in 1..l + 1, NEW j \in 1..l + 1, t[i] = t[j]
          PROVE  i = j
      BY <3>1, <2>1, <2>2, <1>1
    <3>2. QED
      BY <3>1, <2>1 DEF IsInjective
  <2>4. count'[q] = l + 1
    BY <1>2, <1>3 DEF IsList
  <2>5. head'[q] = t[1] /\ tail'[q] = t[l + 1] /\ t # <<>>
    <3>1. CASE l = 0
      <4>1. tail[q] = NULL
        BY <3>1, <1>1, <1>4
      <4>2. head'[q] = n /\ tail'[q] = n
        BY <4>1, <1>2, <1>3
      <4>3. t # <<>>
        BY <2>1, <1>1, OrderFacts
      <4>4. QED
        BY <3>1, <4>2, <4>3, <2>1
    <3>2. CASE l # 0
      <4>1. 1 \in 1..l /\ l \in 1..l
        BY <3>2, <1>1
      <4>2. head[q] = s[1] /\ tail[q] = s[l] /\ s[l] \in Nodes
        BY <4>1, ListLinks
      <4>3. t # <<>>
        BY <2>1, <1>1, OrderFacts
      <4>4. QED
        BY <4>1, <4>2, <4>3, <2>1, <1>1, <1>2, <1>3
    <3>3. QED
      BY <3>1, <3>2
  <2>6. ASSUME NEW i \in 1..l + 1
        PROVE  /\ container'[t[i]] = q
               /\ previous'[t[i]] = IF i = 1 THEN NULL ELSE t[i - 1]
               /\ next'[t[i]] = IF i = l + 1 THEN NULL ELSE t[i + 1]
    <3>1. CASE i = l + 1
      <4>1. t[i] = n /\ container'[n] = q /\ previous'[n] = tail[q] /\ next'[n] = NULL
        BY <3>1, <2>1, <1>2, <1>3, <1>5
      <4>2. tail[q] = IF i = 1 THEN NULL ELSE t[i - 1]
        BY <3>1, <1>1, <1>4, <2>1
      <4>3. QED
        BY <3>1, <4>1, <4>2
    <3>2. CASE i \in 1..l
      <4>1. /\ t[i] = s[i] /\ s[i] \in Nodes /\ container[s[i]] = q /\ s[i] # n
            /\ previous[s[i]] = IF i = 1 THEN NULL ELSE s[i - 1]
            /\ next[s[i]] = IF i = l THEN NULL ELSE s[i + 1]
            /\ tail[q] = s[l]
        BY <3>2, <2>1, <2>2, ListLinks
      <4>2. container'[s[i]] = q /\ previous'[s[i]] = previous[s[i]]
        BY <4>1, <1>2, <1>3
      <4>3. i # 1 => i - 1 \in 1..l
        BY <3>2, <1>1
      <4>4. previous'[t[i]] = IF i = 1 THEN NULL ELSE t[i - 1]
        BY <4>1, <4>2, <4>3, <2>1
      <4>5. next'[t[i]] = t[i + 1]
        <5>1. CASE i = l
          BY <5>1, <4>1, <1>2, <2>1
        <5>2. CASE i # l
          <6>1. i + 1 \in 1..l /\ l \in 1..l
            BY <3>2, <5>2, <1>1
          <6>2. s[i] # s[l]
            BY <3>2, <5>2, <6>1, <2>2
          <6>3. QED
            BY <5>2, <6>1, <6>2, <4>1, <1>2, <2>1
        <5>3. QED
          BY <5>1, <5>2
      <4>6. i # l + 1
        BY <3>2, <1>1
      <4>7. QED
        BY <4>1, <4>2, <4>4, <4>5, <4>6
    <3>3. QED
      BY <3>1, <3>2, <1>1
  <2>7. IsList(q, t)'
    BY <2>1, <2>3, <2>4, <2>5, <2>6 DEF IsList
  <2>8. QED
    BY <2>7 DEF t
<1>8. QED
  BY <1>6, <1>7

\* unlinkNode takes its node out of the list, wherever it stands, and spoils
\* no other one.
LEMMA UnlinkStep ==
  ASSUME TypeOK, NEW q \in Queues, NEW s \in Orders, IsList(q, s),
         NEW i \in 1..Len(s), unlinkNode(q, s[i])
  PROVE  /\ IsList(q, RemoveAt(s, i))'
         /\ \A p \in Queues \ {q} : \A t \in Orders : IsList(p, t) => IsList(p, t)'
<1> DEFINE n == s[i]
           l == Len(s)
<1>1. /\ s \in Seq(Nodes) /\ l \in Nat /\ NULL \notin Nodes /\ NULL \notin Queues
      /\ DOMAIN s = 1..l /\ s # <<>> /\ i \in 1..l
  BY OrderFacts, WaitQueueAssumption
<1>2. /\ next' = [m \in Nodes |-> IF m = n THEN NULL
                                  ELSE IF m = previous[n] THEN next[n] ELSE next[m]]
      /\ previous' = [m \in Nodes |-> IF m = n THEN NULL
                                      ELSE IF m = next[n] THEN previous[n] ELSE previous[m]]
      /\ head' = IF previous[n] # NULL THEN head ELSE [head EXCEPT ![q] = next[n]]
      /\ tail' = IF next[n] # NULL THEN tail ELSE [tail EXCEPT ![q] = previous[n]]
      /\ count' = [count EXCEPT ![q] = @ - 1]
      /\ container' = [container EXCEPT ![n] = NULL]
  BY DEF unlinkNode
<1>3. /\ head \in [Queues -> Link] /\ tail \in [Queues -> Link]
      /\ count \in [Queues -> 0..MaxNodes + 1] /\ next \in [Nodes -> Link]
      /\ previous \in [Nodes -> Link] /\ container \in [Nodes -> Queues \cup {NULL}]
  BY DEF TypeOK
<1>4. /\ \A j \in 1..l :
           /\ s[j] \in Nodes /\ container[s[j]] = q
           /\ previous[s[j]] = IF j = 1 THEN NULL ELSE s[j - 1]
           /\ next[s[j]] = IF j = l THEN NULL ELSE s[j + 1]
      /\ \A j, k \in 1..l : s[j] = s[k] => j = k
      /\ count[q] = l /\ head[q] = s[1] /\ tail[q] = s[l]
  BY ListLinks
<1>5. /\ n \in Nodes /\ container[n] = q
      /\ previous[n] = IF i = 1 THEN NULL ELSE s[i - 1]
      /\ next[n] = IF i = l THEN NULL ELSE s[i + 1]
      /\ i # 1 => i - 1 \in 1..l
      /\ i # l => i + 1 \in 1..l
  <2>1. n = s[i] /\ i \in 1..l /\ l \in Nat
    BY <1>1
  <2> HIDE DEF n, l
  <2>2. (i # 1 => i - 1 \in 1..l) /\ (i # l => i + 1 \in 1..l)
    BY <2>1
  <2>3. QED
    BY <2>1, <2>2, <1>4
<1> HIDE DEF n, l
<1>6. ASSUME NEW p \in Queues \ {q}, NEW t \in Orders, IsList(p, t)
      PROVE  IsList(p, t)'
  <2>1. head'[p] = head[p] /\ tail'[p] = tail[p] /\ count'[p] = count[p]
    BY <1>2, <1>3
  <2>2. ASSUME NEW j \in 1..Len(t)
        PROVE  /\ container'[t[j]] = container[t[j]]
               /\ previous'[t[j]] = previous[t[j]]
               /\ next'[t[j]] = next[t[j]]
    <3>1. t[j] \in Nodes /\ container[t[j]] = p
      BY <1>6, ListLinks
    <3>2. t[j] # n
      BY <3>1, <1>5
    <3>3. t[j] # previous[n] /\ t[j] # next[n]
      BY <3>1, <1>1, <1>4, <1>5
    <3>4. QED
      BY <3>1, <3>2, <3>3, <1>2, <1>3
  <2>3. QED
    BY <1>6, <2>1, <2>2, Untouched
<1>7. IsList(q, RemoveAt(s, i))'
  <2> DEFINE t == RemoveAt(s, i)
             from(j) == IF j < i THEN j ELSE j + 1
  <2>1. t \in Orders /\ Len(t) = l - 1
    BY RemoveAtOrder DEF l
  <2>2. \A j \in 1..l - 1 : t[j] = IF j < i THEN s[j] ELSE s[j + 1]
    BY RemoveAtOrder DEF l
  <2>3. ASSUME NEW j \in 1..l - 1
        PROVE  /\ t[j] = s[from(j)] /\ from(j) \in 1..l /\ from(j) # i
               /\ j < i => from(j) = j
               /\ ~(j < i) => from(j) = j + 1
    BY <2>2, <1>1
  <2>4. DOMAIN t = 1..l - 1 /\ (t = <<>> <=> l = 1)
    BY <2>1, <1>1, OrderFacts DEF l
  <2> HIDE DEF t
  <2>5. IsInjective(t)
    <3>1. ASSUME NEW j \in 1..l - 1, NEW k \in 1..l - 1, t[j] = t[k]
          PROVE  j = k
      <4>1. /\ t[j] = s[from(j)] /\ from(j) \in 1..l
            /\ t[k] = s[from(k)] /\ from(k) \in 1..l
        BY <2>3
      <4> DEFINE f == from(j)
                 g == from(k)
      <4> HIDE DEF f, g
      <4>2. s[f] = s[g] /\ f \in 1..l /\ g \in 1..l
        BY <4>1, <3>1 DEF f, g
      <4>3. f = g
        BY <4>2, <1>4
      <4>4. QED
        BY <4>3, <1>1 DEF f, g
    <3>2. QED
      BY <3>1, <2>4 DEF IsInjective
  <2>6. count'[q] = l - 1
    BY <1>2, <1>3, <1>4
  <2>7. head'[q] = IF t = <<>> THEN NULL ELSE t[1]
    <3>1. CASE i = 1
      <4>1. head'[q] = IF l = 1 THEN NULL ELSE s[2]
        BY <3>1, <1>2, <1>3, <1>5
      <4>2. l # 1 => t[1] = s[2]
        BY <3>1, <2>2, <1>1
      <4>3. QED
        BY <4>1, <4>2, <2>4
    <3>2. CASE i # 1
      <4>1. head'[q] = s[1]
        BY <3>2, <1>1, <1>2, <1>4, <1>5
      <4>2. 1 \in 1..l - 1 /\ 1 < i /\ l # 1
        BY <3>2, <1>1
      <4>3. QED
        BY <4>1, <4>2, <2>2, <2>4
    <3>3. QED
      BY <3>1, <3>2
  <2>8. tail'[q] = IF t = <<>> THEN NULL ELSE t[Len(t)]
    <3>1. CASE i = l
      <4>1. tail'[q] = IF i = 1 THEN NULL ELSE s[i - 1]
        BY <3>1, <1>2, <1>3, <1>5
      <4>2. l # 1 => l - 1 \in 1..l - 1 /\ l - 1 < i
        BY <3>1, <1>1
      <4>3. QED
        BY <3>1, <4>1, <4>2, <2>1, <2>2, <2>4
    <3>2. CASE i # l
      <4>1. tail'[q] = s[l]
        BY <3>2, <1>1, <1>2, <1>4, <1>5
      <4>2. l - 1 \in 1..l - 1 /\ ~(l - 1 < i) /\ (l - 1) + 1 = l /\ l # 1
        BY <3>2, <1>1
      <4>3. QED
        BY <4>1, <4>2, <2>1, <2>2, <2>4
    <3>3. QED
      BY <3>1, <3>2
  <2>9. ASSUME NEW j \in 1..l - 1
        PROVE  /\ container'[t[j]] = q
               /\ previous'[t[j]] = IF j = 1 THEN NULL ELSE t[j - 1]
               /\ next'[t[j]] = IF j = l - 1 THEN NULL ELSE t[j + 1]
    <3> DEFINE f == from(j)
    <3>a. /\ t[j] = s[f] /\ f \in 1..l /\ f # i
          /\ j < i => f = j
          /\ ~(j < i) => f = j + 1
      BY <2>3
    <3> HIDE DEF f
    <3>b. s[f] \in Nodes /\ s[f] # s[i]
      BY <3>a, <1>1, <1>4
    <3>1. /\ t[j] = s[f] /\ f \in 1..l /\ f # i /\ s[f] \in Nodes /\ s[f] # n
          /\ j < i => f = j
          /\ ~(j < i) => f = j + 1
      BY <3>a, <3>b DEF n
    <3>2. container'[s[f]] = q
      BY <3>1, <1>2, <1>3, <1>4
    <3>3. previous'[s[f]] = IF j = 1 THEN NULL ELSE t[j - 1]
      <4>1. CASE f = i + 1
        <5>1. next[n] = s[f] /\ j = i
          BY <3>1, <4>1, <1>1, <1>5
        <5>2. previous'[s[f]] = previous[n]
          BY <5>1, <3>1, <1>2
        <5>3. j # 1 => j - 1 \in 1..l - 1 /\ j - 1 < i
          BY <5>1, <1>1
        <5>4. QED
          BY <5>1, <5>2, <5>3, <1>5, <2>2
      <4>2. CASE f # i + 1
        <5>1. s[f] # next[n]
          BY <3>1, <4>2, <1>1, <1>4, <1>5
        <5>2. previous'[s[f]] = IF f = 1 THEN NULL ELSE s[f - 1]
          BY <5>1, <3>1, <1>2, <1>4
        <5>3. CASE j < i
          <6>1. j # 1 => j - 1 \in 1..l - 1 /\ j - 1 < i
            BY <5>3, <1>1
          <6>2. QED
            BY <5>2, <5>3, <6>1, <3>1, <2>2
        <5>4. CASE ~(j < i)
          <6>1. f = j + 1 /\ f # 1 /\ f - 1 = j /\ j # 1
            BY <5>4, <4>2, <3>1, <1>1
          <6>2. j - 1 \in 1..l - 1 /\ ~(j - 1 < i) /\ (j - 1) + 1 = j
            BY <5>4, <6>1, <4>2, <1>1
          <6>3. QED
            BY <5>2, <6>1, <6>2, <2>2
        <5>5. QED
          BY <5>3, <5>4
      <4>3. QED
        BY <4>1, <4>2
    <3>4. next'[s[f]] = IF j = l - 1 THEN NULL ELSE t[j + 1]
      <4>1. CASE f = i - 1
        <5>1. previous[n] = s[f] /\ j = i - 1 /\ i # 1
          BY <3>1, <4>1, <1>1, <1>5
        <5>2. next'[s[f]] = next[n]
          BY <5>1, <3>1, <1>2
        <5>3. /\ j = l - 1 <=> i = l
              /\ j # l - 1 => j + 1 \in 1..l - 1 /\ ~(j + 1 < i) /\ (j + 1) + 1 = i + 1
          BY <5>1, <1>1
        <5>4. QED
          BY <5>1, <5>2, <5>3, <1>5, <2>2
      <4>2. CASE f # i - 1
        <5>1. s[f] # previous[n]
          BY <3>1, <4>2, <1>1, <1>4, <1>5
        <5>2. next'[s[f]] = IF f = l THEN NULL ELSE s[f + 1]
          BY <5>1, <3>1, <1>2, <1>4
        <5>3. CASE j < i
          <6>1. f = j /\ f # l /\ j # l - 1 /\ j + 1 \in 1..l - 1 /\ j + 1 < i
            BY <5>3, <4>2, <3>1, <1>1
          <6>2. QED
            BY <5>2, <6>1, <2>2
        <5>4. CASE ~(j < i)
          <6>1. f = j + 1 /\ (f = l <=> j = l - 1)
            BY <5>4, <3>1, <1>1
          <6>2. j # l - 1 => j + 1 \in 1..l - 1 /\ ~(j + 1 < i)
            BY <5>4, <1>1
          <6>3. QED
            BY <5>2, <6>1, <6>2, <2>2
        <5>5. QED
          BY <5>3, <5>4
      <4>3. QED
        BY <4>1, <4>2
    <3>5. QED
      BY <3>1, <3>2, <3>3, <3>4
  <2>10. IsList(q, t)'
    BY <2>1, <2>5, <2>6, <2>7, <2>8, <2>9 DEF IsList
  <2>11. QED
    BY <2>10 DEF t
<1>8. QED
  BY <1>6, <1>7

-----------------------------------------------------------------------------
\* The five effects a call can have on the fields.
Pushed(q, n) ==
  /\ Accepts(q) /\ count[q] < MaxNodes
  /\ container[n] = NULL /\ next[n] = NULL /\ previous[n] = NULL
  /\ linkNode(q, n)

Unlinked(q, i) == Accepts(q) /\ i \in 1..count[q] /\ unlinkNode(q, Listed(q)[i])

QueueReset(q) ==
  /\ count[q] = 0
  /\ head' = [head EXCEPT ![q] = NULL] /\ tail' = [tail EXCEPT ![q] = NULL]
  /\ count' = [count EXCEPT ![q] = 0]
  /\ UNCHANGED <<next, previous, container>>

NodeReset(n) ==
  /\ container[n] = NULL
  /\ next' = [next EXCEPT ![n] = NULL] /\ previous' = [previous EXCEPT ![n] = NULL]
  /\ container' = [container EXCEPT ![n] = NULL]
  /\ UNCHANGED <<head, tail, count>>

Effect ==
  \/ UNCHANGED listVars
  \/ \E q \in Queues : \E n \in Nodes : Pushed(q, n)
  \/ \E q \in Queues : \E i \in Nat : Unlinked(q, i)
  \/ \E q \in Queues : QueueReset(q)
  \/ \E n \in Nodes : NodeReset(n)

\* A call that only answers changes no field.
LEMMA AnswerEffect ==
  ASSUME NEW r, Answer(r)
  PROVE  damaged' = damaged /\ Effect /\ result' = r /\ out' = NULL
BY DEF Answer, Effect, listVars

\* The traversal of osWaitQueueRemove finds members, and only them.
LEMMA WalkMember ==
  ASSUME TypeOK, NEW q \in Queues, Accepts(q), NEW n \in Nodes, n \in Range(Walk(q))
  PROVE  \E i \in 1..count[q] : Listed(q)[i] = n
<1> DEFINE s == Listed(q)
<1>1. s \in Orders /\ IsList(q, s) /\ count[q] = Len(s)
  BY AcceptedList DEF IsList
<1>2. Walk(q) = [k \in 0..MaxNodes |-> IF k < Len(s) THEN s[k + 1] ELSE NULL]
  BY <1>1, ListWalk
<1> HIDE DEF s
<1>3. PICK k \in 0..MaxNodes : n = IF k < Len(s) THEN s[k + 1] ELSE NULL
  BY <1>2 DEF Range
<1>4. k < Len(s) /\ n = s[k + 1]
  BY <1>3, WaitQueueAssumption
<1>5. k + 1 \in 1..count[q]
  BY <1>1, <1>4, OrderFacts
<1>6. QED
  BY <1>4, <1>5 DEF s

\* The node osWaitQueuePop takes is the first member.
LEMMA HeadMember ==
  ASSUME TypeOK, NEW q \in Queues, Accepts(q), head[q] # NULL
  PROVE  1 \in 1..count[q] /\ Listed(q)[1] = head[q]
<1> DEFINE s == Listed(q)
<1>1. s \in Orders /\ IsList(q, s) /\ count[q] = Len(s)
  BY AcceptedList DEF IsList
<1> HIDE DEF s
<1>2. s # <<>> /\ head[q] = s[1]
  BY <1>1 DEF IsList
<1>3. 1 \in 1..Len(s)
  BY <1>1, <1>2, OrderFacts
<1>4. QED
  BY <1>1, <1>2, <1>3 DEF s

\* What osWaitQueuePush does once its tests passed.
LEMMA PushEffect ==
  ASSUME TypeOK, NEW q \in Queues \cup {NULL}, NEW n \in Link, osWaitQueuePush(q, n)
  PROVE  /\ damaged' = damaged /\ Effect
         /\ PushResult(q, n) # "OK" => Answer(PushResult(q, n))
         /\ PushResult(q, n) = "OK" => /\ q \in Queues /\ n \in Nodes /\ Pushed(q, n)
                                      /\ result' = "OK" /\ out' = NULL
<1>1. CASE PushResult(q, n) # "OK"
  BY <1>1, AnswerEffect DEF osWaitQueuePush
<1>2. CASE PushResult(q, n) = "OK"
  <2>1. /\ q # NULL /\ n # NULL /\ Accepts(q) /\ container[n] = NULL
        /\ next[n] = NULL /\ previous[n] = NULL /\ count[q] # MaxNodes
    BY <1>2 DEF PushResult
  <2>2. q \in Queues /\ n \in Nodes
    BY <2>1 DEF Link
  <2>3. count[q] < MaxNodes
    BY <2>1, <2>2, WaitQueueAssumption DEF Accepts, TypeOK
  <2>4. linkNode(q, n) /\ result' = "OK" /\ out' = NULL /\ damaged' = damaged
    BY <1>2 DEF osWaitQueuePush
  <2>5. Pushed(q, n)
    BY <2>1, <2>3, <2>4 DEF Pushed
  <2>6. QED
    BY <2>2, <2>4, <2>5, <1>2 DEF Effect
<1>3. QED
  BY <1>1, <1>2

\* What osWaitQueuePop does once its tests passed.
LEMMA PopEffect ==
  ASSUME TypeOK, NEW q \in Queues \cup {NULL}, NEW wanted \in BOOLEAN,
         osWaitQueuePop(q, wanted)
  PROVE  /\ damaged' = damaged /\ Effect
         /\ PopResult(q, wanted) # "OK" => Answer(PopResult(q, wanted))
         /\ PopResult(q, wanted) = "OK" => /\ q \in Queues /\ Unlinked(q, 1)
                                          /\ result' = "OK" /\ out' = head[q]
                                          /\ head[q] = Listed(q)[1]
<1>1. CASE PopResult(q, wanted) # "OK"
  BY <1>1, AnswerEffect DEF osWaitQueuePop
<1>2. CASE PopResult(q, wanted) = "OK"
  <2>1. q # NULL /\ Accepts(q) /\ head[q] # NULL
    BY <1>2 DEF PopResult
  <2>2. q \in Queues
    BY <2>1
  <2>3. unlinkNode(q, head[q]) /\ result' = "OK" /\ out' = head[q] /\ damaged' = damaged
    BY <1>2 DEF osWaitQueuePop
  <2>4. 1 \in 1..count[q] /\ Listed(q)[1] = head[q]
    BY <2>1, <2>2, HeadMember
  <2>5. Unlinked(q, 1)
    BY <2>1, <2>3, <2>4 DEF Unlinked
  <2>6. QED
    BY <2>2, <2>3, <2>4, <2>5, <1>2 DEF Effect
<1>3. QED
  BY <1>1, <1>2

\* What osWaitQueueRemove does once its tests passed.
LEMMA RemoveEffect ==
  ASSUME TypeOK, NEW q \in Queues \cup {NULL}, NEW n \in Link, osWaitQueueRemove(q, n)
  PROVE  /\ damaged' = damaged /\ Effect
         /\ RemoveResult(q, n) # "OK" => Answer(RemoveResult(q, n))
         /\ RemoveResult(q, n) = "OK" =>
              /\ q \in Queues /\ n \in Nodes /\ result' = "OK" /\ out' = NULL
              /\ \E i \in Nat : Unlinked(q, i) /\ Listed(q)[i] = n
<1>1. CASE RemoveResult(q, n) # "OK"
  BY <1>1, AnswerEffect DEF osWaitQueueRemove
<1>2. CASE RemoveResult(q, n) = "OK"
  <2>1. q # NULL /\ n # NULL /\ Accepts(q) /\ n \in Range(Walk(q))
    BY <1>2 DEF RemoveResult
  <2>2. q \in Queues /\ n \in Nodes
    BY <2>1 DEF Link
  <2>3. unlinkNode(q, n) /\ result' = "OK" /\ out' = NULL /\ damaged' = damaged
    BY <1>2 DEF osWaitQueueRemove
  <2>4. PICK i \in 1..count[q] : Listed(q)[i] = n
    BY <2>1, <2>2, WalkMember
  <2>5. Unlinked(q, i) /\ i \in Nat
    BY <2>1, <2>2, <2>3, <2>4 DEF Unlinked, TypeOK
  <2>6. QED
    BY <2>2, <2>3, <2>4, <2>5, <1>2 DEF Effect
<1>3. QED
  BY <1>1, <1>2

\* Every call has one of the five effects on the fields.
LEMMA CallEffect ==
  ASSUME TypeOK, Call
  PROVE  damaged' = damaged /\ Effect
<1>1. ASSUME NEW q \in Queues \cup {NULL}, Answer(osWaitQueueValidate(q))
      PROVE  damaged' = damaged /\ Effect
  BY <1>1, AnswerEffect
<1>2. ASSUME NEW q \in Queues \cup {NULL}, osWaitQueueInit(q)
      PROVE  damaged' = damaged /\ Effect
  <2>1. CASE q = NULL /\ Answer("INVALID_ARGUMENT")
    BY <2>1, AnswerEffect
  <2>2. CASE q # NULL /\ QueueReset(q) /\ damaged' = damaged
    BY <2>2 DEF Effect
  <2>3. QED
    BY <1>2, <2>1, <2>2 DEF osWaitQueueInit, QueueReset
<1>3. ASSUME NEW n \in Link, osWaitNodeInit(n)
      PROVE  damaged' = damaged /\ Effect
  <2>1. CASE n = NULL /\ Answer("INVALID_ARGUMENT")
    BY <2>1, AnswerEffect
  <2>2. CASE n # NULL /\ NodeReset(n) /\ damaged' = damaged
    BY <2>2 DEF Effect, Link
  <2>3. QED
    BY <1>3, <2>1, <2>2 DEF osWaitNodeInit, NodeReset
<1>4. QED
  BY <1>1, <1>2, <1>3, PushEffect, PopEffect, RemoveEffect DEF Call

-----------------------------------------------------------------------------
\* The conjuncts of TypeOK about fields.
ListTypeOK ==
  /\ head \in [Queues -> Link] /\ tail \in [Queues -> Link]
  /\ count \in [Queues -> 0..MaxNodes + 1]
  /\ next \in [Nodes -> Link] /\ previous \in [Nodes -> Link]
  /\ container \in [Nodes -> Queues \cup {NULL}]

\* No queue is longer than it may be.
CountOK == \A q \in Queues : count[q] <= MaxNodes

\* Calls preserve the types of the fields, and fill no queue beyond its size.
LEMMA EffectType ==
  ASSUME TypeOK, Effect
  PROVE  ListTypeOK' /\ (CountOK => CountOK')
<1>1. /\ ListTypeOK /\ MaxNodes \in Nat /\ NULL \in Link /\ Nodes \subseteq Link
  BY WaitQueueAssumption DEF TypeOK, ListTypeOK, Link
<1>2. CASE UNCHANGED listVars
  BY <1>1, <1>2 DEF listVars, ListTypeOK, CountOK
<1>3. ASSUME NEW q \in Queues, NEW n \in Nodes, Pushed(q, n)
      PROVE  ListTypeOK' /\ (CountOK => CountOK')
  <2>1. count[q] + 1 \in 0..MaxNodes /\ tail[q] \in Link
    BY <1>1, <1>3 DEF Pushed, ListTypeOK
  <2>2. QED
    BY <1>1, <1>3, <2>1 DEF Pushed, linkNode, ListTypeOK, CountOK
<1>4. ASSUME NEW q \in Queues, NEW i \in Nat, Unlinked(q, i)
      PROVE  ListTypeOK' /\ (CountOK => CountOK')
  <2>1. Listed(q) \in Orders /\ Len(Listed(q)) = count[q]
    BY <1>4, AcceptedList DEF Unlinked, IsList
  <2>2. Listed(q)[i] \in Nodes /\ count[q] - 1 \in 0..MaxNodes /\ count[q] - 1 <= count[q]
    BY <1>1, <1>4, <2>1, OrderFacts DEF Unlinked, ListTypeOK
  <2>3. previous[Listed(q)[i]] \in Link /\ next[Listed(q)[i]] \in Link
    BY <1>1, <2>2 DEF ListTypeOK
  <2>4. QED
    BY <1>1, <1>4, <2>2, <2>3 DEF Unlinked, unlinkNode, ListTypeOK, CountOK
<1>5. ASSUME NEW q \in Queues, QueueReset(q)
      PROVE  ListTypeOK' /\ (CountOK => CountOK')
  BY <1>1, <1>5 DEF QueueReset, ListTypeOK, CountOK
<1>6. ASSUME NEW n \in Nodes, NodeReset(n)
      PROVE  ListTypeOK' /\ (CountOK => CountOK')
  BY <1>1, <1>6 DEF NodeReset, ListTypeOK, CountOK
<1>7. QED
  BY <1>2, <1>3, <1>4, <1>5, <1>6 DEF Effect

\* Calls return what they may return.
LEMMA CallAnswer ==
  ASSUME TypeOK, Call
  PROVE  result' \in Results /\ out' \in Link
<1>1. NULL \in Link
  BY DEF Link
<1>2. ASSUME NEW q \in Queues \cup {NULL}, NEW n \in Link,
             osWaitQueuePush(q, n) \/ osWaitQueueRemove(q, n)
      PROVE  result' \in Results /\ out' \in Link
  BY <1>1, <1>2 DEF osWaitQueuePush, osWaitQueueRemove, PushResult, RemoveResult,
                    Answer, Results
<1>3. ASSUME NEW q \in Queues \cup {NULL}, NEW wanted \in BOOLEAN, osWaitQueuePop(q, wanted)
      PROVE  result' \in Results /\ out' \in Link
  <2>1. CASE PopResult(q, wanted) # "OK"
    BY <1>1, <1>3, <2>1 DEF osWaitQueuePop, PopResult, Answer, Results
  <2>2. CASE PopResult(q, wanted) = "OK"
    BY <1>3, <2>2, PopEffect DEF TypeOK, Results
  <2>3. QED
    BY <2>1, <2>2
<1>4. QED
  BY <1>1, <1>2, <1>3 DEF Call, Answer, osWaitQueueValidate, osWaitQueueInit,
                          osWaitNodeInit, Results

\* Calls and damage preserve the types.
LEMMA TypeStep == TypeOK /\ [DamagedNext]_vars => TypeOK'
<1> SUFFICES ASSUME TypeOK, [DamagedNext]_vars
             PROVE  TypeOK'
  OBVIOUS
<1>1. TypeOK <=> /\ ListTypeOK /\ result \in Results /\ out \in Link
                 /\ damaged \in 0..Damages /\ (damaged = 0 => CountOK)
  BY DEF TypeOK, ListTypeOK, CountOK
<1>2. TypeOK' <=> /\ ListTypeOK' /\ result' \in Results /\ out' \in Link
                  /\ damaged' \in 0..Damages /\ (damaged' = 0 => CountOK')
  BY DEF TypeOK, ListTypeOK, CountOK
<1>3. CASE Call
  BY <1>1, <1>2, <1>3, CallEffect, CallAnswer, EffectType
<1>4. CASE Damage
  <2>1. damaged' = damaged + 1 /\ damaged < Damages /\ result' = result /\ out' = out
    BY <1>4 DEF Damage
  <2>2. damaged' \in 0..Damages /\ damaged' # 0
    BY <1>1, <2>1, WaitQueueAssumption
  <2>3. ListTypeOK'
    BY <1>1, <1>4, WaitQueueAssumption DEF Damage, ListTypeOK
  <2>4. QED
    BY <1>1, <1>2, <2>1, <2>2, <2>3
<1>5. CASE UNCHANGED vars
  BY <1>1, <1>5 DEF vars, TypeOK, ListTypeOK, CountOK
<1>6. QED
  BY <1>3, <1>4, <1>5 DEF DamagedNext

\* The initial state is of the types.
LEMMA InitType == Init => TypeOK
BY WaitQueueAssumption DEF Init, TypeOK, Results, Link

\* TypeOK holds whatever is overwritten: every call of osWaitQueue.c keeps the
\* fields in their types, and count at most OS_WAIT_QUEUE_MAX_NODES without damage.
THEOREM TypeSafety == DamagedSpec => []TypeOK
BY InitType, TypeStep, PTL DEF DamagedSpec

\* Behaviours without damage are behaviours with damage.
LEMMA CallsAreSteps == Spec => DamagedSpec
<1>1. [Call]_vars => [DamagedNext]_vars
  BY DEF DamagedNext
<1>2. QED
  BY <1>1, PTL DEF Spec, DamagedSpec

\* TypeOK, of the calls alone.
THEOREM CallTypeSafety == Spec => []TypeOK
BY TypeSafety, CallsAreSteps, PTL

\* osWaitQueueValidate accepts a queue exactly if its links are those of a list,
\* for every number of nodes and every way its fields were overwritten.
THEOREM ValidationSafety == DamagedSpec => []ValidateExact
<1>1. TypeOK => ValidateExact
  BY ListsAccepted, AcceptedList DEF AcceptsLists, ValidateExact
<1>2. QED
  BY <1>1, TypeSafety, PTL

-----------------------------------------------------------------------------
\* A list after a step is accepted after the step.
LEMMA Keeps ==
  ASSUME TypeOK', NEW q \in Queues, NEW s \in Orders, IsList(q, s)'
  PROVE  Accepts(q)' /\ Listed(q)' = s
BY ListsAcceptedNext DEF AcceptsLists

\* The effects that change no list.
Quiet ==
  \/ UNCHANGED listVars
  \/ \E q \in Queues : QueueReset(q)
  \/ \E n \in Nodes : NodeReset(n)

\* Answers and initializations change no accepted list.
LEMMA QuietLists ==
  ASSUME TypeOK, TypeOK', Quiet, NEW q \in Queues, Accepts(q)
  PROVE  Accepts(q)' /\ Listed(q)' = Listed(q)
<1>1. PICK s \in Orders : s = Listed(q) /\ IsList(q, s)
  BY AcceptedList
<1>2. /\ head \in [Queues -> Link] /\ tail \in [Queues -> Link]
      /\ count \in [Queues -> 0..MaxNodes + 1] /\ next \in [Nodes -> Link]
      /\ previous \in [Nodes -> Link] /\ container \in [Nodes -> Queues \cup {NULL}]
      /\ NULL \notin Queues
  BY WaitQueueAssumption DEF TypeOK
<1>3. count[q] = 0 => head[q] = NULL /\ tail[q] = NULL
  BY DEF Accepts
<1>4. head'[q] = head[q] /\ tail'[q] = tail[q] /\ count'[q] = count[q]
  BY <1>2, <1>3 DEF Quiet, listVars, QueueReset, NodeReset
<1>5. ASSUME NEW i \in 1..Len(s)
      PROVE  /\ container'[s[i]] = container[s[i]]
             /\ previous'[s[i]] = previous[s[i]]
             /\ next'[s[i]] = next[s[i]]
  <2>1. s[i] \in Nodes /\ container[s[i]] # NULL
    <3>1. s[i] \in Nodes /\ container[s[i]] = q
      BY <1>1, ListLinks
    <3>2. QED
      BY <3>1, <1>2
  <2>2. QED
    BY <2>1, <1>2 DEF Quiet, listVars, QueueReset, NodeReset
<1>6. IsList(q, s)'
  BY <1>1, <1>4, <1>5, Untouched
<1>7. QED
  BY <1>1, <1>6, Keeps

\* Push appends to one accepted list and keeps the others.
LEMMA PushedLists ==
  ASSUME TypeOK, TypeOK', NEW p \in Queues, NEW n \in Nodes, Pushed(p, n),
         NEW q \in Queues, Accepts(q)
  PROVE  Accepts(q)' /\ Listed(q)' = IF q = p THEN Append(Listed(q), n) ELSE Listed(q)
<1>1. PICK s \in Orders : s = Listed(p) /\ IsList(p, s)
  BY AcceptedList DEF Pushed
<1>2. Len(s) < MaxNodes
  BY <1>1 DEF Pushed, IsList
<1>3. /\ IsList(p, Append(s, n))'
      /\ \A r \in Queues \ {p} : \A t \in Orders : IsList(r, t) => IsList(r, t)'
  BY <1>1, <1>2, LinkStep DEF Pushed
<1>4. Append(s, n) \in Orders
  BY <1>1, <1>2, AppendOrder
<1>5. CASE q = p
  <2>1. Accepts(p)' /\ Listed(p)' = Append(s, n)
    BY <1>3, <1>4, Keeps
  <2>2. QED
    BY <2>1, <1>1, <1>5
<1>6. CASE q # p
  <2>1. PICK t \in Orders : t = Listed(q) /\ IsList(q, t)
    BY AcceptedList
  <2>2. IsList(q, t)'
    BY <2>1, <1>3, <1>6
  <2>3. QED
    BY <2>1, <2>2, <1>6, Keeps
<1>7. QED
  BY <1>5, <1>6

\* Pop and remove shorten one accepted list and keep the others.
LEMMA UnlinkedLists ==
  ASSUME TypeOK, TypeOK', NEW p \in Queues, NEW i \in Nat, Unlinked(p, i),
         NEW q \in Queues, Accepts(q)
  PROVE  Accepts(q)' /\ Listed(q)' = IF q = p THEN RemoveAt(Listed(q), i) ELSE Listed(q)
<1>1. PICK s \in Orders : /\ s = Listed(p) /\ IsList(p, s)
                         /\ i \in 1..Len(s) /\ unlinkNode(p, s[i])
  BY AcceptedList DEF Unlinked, IsList
<1>2. /\ IsList(p, RemoveAt(s, i))'
      /\ \A r \in Queues \ {p} : \A t \in Orders : IsList(r, t) => IsList(r, t)'
  BY <1>1, UnlinkStep
<1>3. RemoveAt(s, i) \in Orders
  BY <1>1, RemoveAtOrder
<1>4. CASE q = p
  <2>1. Accepts(p)' /\ Listed(p)' = RemoveAt(s, i)
    BY <1>2, <1>3, Keeps
  <2>2. QED
    BY <2>1, <1>1, <1>4
<1>5. CASE q # p
  <2>1. PICK t \in Orders : t = Listed(q) /\ IsList(q, t)
    BY AcceptedList
  <2>2. IsList(q, t)'
    BY <2>1, <1>2, <1>5
  <2>3. QED
    BY <2>1, <2>2, <1>5, Keeps
<1>6. QED
  BY <1>4, <1>5

\* A call keeps accepted queues accepted and serves one of them at most.
LEMMA IntactStep ==
  ASSUME TypeOK, TypeOK', Call, NEW q \in Queues, Accepts(q)
  PROVE  /\ Accepts(q)'
         /\ \/ Listed(q)' = Listed(q)
            \/ /\ Served(q)
               /\ \A p \in Queues \ {q} : Accepts(p) => Listed(p)' = Listed(p)
<1>1. CASE Quiet
  BY <1>1, QuietLists
<1>2. ASSUME NEW p \in Queues, NEW n \in Nodes, Pushed(p, n)
      PROVE  /\ Accepts(q)'
             /\ \/ Listed(q)' = Listed(q)
                \/ /\ Served(q)
                   /\ \A r \in Queues \ {q} : Accepts(r) => Listed(r)' = Listed(r)
  BY <1>2, PushedLists DEF Served
<1>3. ASSUME NEW p \in Queues, NEW i \in Nat, Unlinked(p, i)
      PROVE  /\ Accepts(q)'
             /\ \/ Listed(q)' = Listed(q)
                \/ /\ Served(q)
                   /\ \A r \in Queues \ {q} : Accepts(r) => Listed(r)' = Listed(r)
  <2>1. i \in 1..count[p]
    BY <1>3 DEF Unlinked
  <2>2. QED
    BY <2>1, <1>3, UnlinkedLists DEF Served
<1>4. QED
  BY <1>1, <1>2, <1>3, CallEffect DEF Effect, Quiet

\* IntactStaysIntact: no call of osWaitQueue.c spoils a queue that validation
\* accepts, however other queues and nodes were overwritten.
THEOREM IntactSafety == DamagedSpec => IntactStaysIntact
<1> DEFINE A == damaged' = damaged =>
                  \A q \in Queues : Accepts(q) =>
                    /\ Accepts(q)'
                    /\ \/ Listed(q)' = Listed(q)
                       \/ /\ Served(q)
                          /\ \A p \in Queues \ {q} : Accepts(p) => Listed(p)' = Listed(p)
<1>1. TypeOK /\ TypeOK' /\ [DamagedNext]_vars => [A]_vars
  <2>1. TypeOK /\ TypeOK' /\ Call => A
    BY IntactStep
  <2>2. TypeOK /\ Damage => damaged' # damaged
    BY WaitQueueAssumption DEF TypeOK, Damage
  <2> HIDE DEF A
  <2>3. damaged' # damaged => A
    BY DEF A
  <2>4. QED
    BY <2>1, <2>2, <2>3 DEF DamagedNext
<1>2. [][A]_vars => IntactStaysIntact
  BY DEF IntactStaysIntact
<1> HIDE DEF A
<1>3. QED
  BY <1>1, <1>2, TypeSafety, PTL DEF DamagedSpec

-----------------------------------------------------------------------------
\* The two parts of Shape, the first by way of validation.
ShapeLists == \A q \in Queues : Accepts(q) /\ Range(Listed(q)) = Members(q)

Tidy == \A n \in Nodes : container[n] = NULL => next[n] = NULL /\ previous[n] = NULL

\* Shape, in terms of what validation accepts.
LEMMA ShapeInLists == TypeOK => (Shape <=> ShapeLists /\ Tidy)
<1>1. SUFFICES ASSUME TypeOK
               PROVE  (\A q \in Queues : \E s \in Orders :
                          IsList(q, s) /\ Range(s) = Members(q)) <=> ShapeLists
  BY DEF Shape, Tidy
<1>2. AcceptsLists
  BY <1>1, ListsAccepted
<1>3. QED
  BY <1>2 DEF AcceptsLists, ShapeLists

\* The members of an order.
LEMMA RangeOfOrder ==
  ASSUME NEW s \in Orders
  PROVE  Range(s) = {s[i] : i \in 1..Len(s)}
BY OrderFacts DEF Range

\* Push preserves the shape: its node joins list and members together.
LEMMA PushedShape ==
  ASSUME TypeOK, TypeOK', ShapeLists, Tidy, NEW p \in Queues, NEW n \in Nodes, Pushed(p, n)
  PROVE  ShapeLists' /\ Tidy'
<1>1. /\ next' = [m \in Nodes |-> IF m = tail[p] THEN n ELSE next[m]]
      /\ previous' = [previous EXCEPT ![n] = tail[p]]
      /\ container' = [container EXCEPT ![n] = p] /\ container[n] = NULL
      /\ container \in [Nodes -> Queues \cup {NULL}] /\ NULL \notin Queues
      /\ previous \in [Nodes -> Link] /\ NULL \notin Nodes
  BY WaitQueueAssumption DEF Pushed, linkNode, TypeOK
<1>2. \A q \in Queues : Members(q)' = IF q = p THEN Members(q) \cup {n} ELSE Members(q)
  BY <1>1 DEF Members
<1>3. PICK s \in Orders : s = Listed(p) /\ IsList(p, s) /\ Len(s) < MaxNodes
  BY AcceptedList DEF Pushed, IsList
<1>4. Range(Append(s, n)) = Range(s) \cup {n}
  <2>1. /\ Append(s, n) \in Orders /\ Len(Append(s, n)) = Len(s) + 1 /\ Len(s) \in Nat
        /\ \A i \in 1..Len(s) : Append(s, n)[i] = s[i]
        /\ Append(s, n)[Len(s) + 1] = n
    BY <1>3, AppendOrder, OrderFacts
  <2>2. Range(Append(s, n)) = {Append(s, n)[i] : i \in 1..Len(s) + 1}
    BY <2>1, RangeOfOrder
  <2>3. 1..Len(s) + 1 = (1..Len(s)) \cup {Len(s) + 1}
    BY <2>1
  <2> DEFINE t == Append(s, n)
  <2> HIDE DEF t
  <2>4. {t[i] : i \in 1..Len(s) + 1} = {t[i] : i \in 1..Len(s)} \cup {t[Len(s) + 1]}
    BY <2>3
  <2>5. {t[i] : i \in 1..Len(s)} = {s[i] : i \in 1..Len(s)}
    BY <2>1 DEF t
  <2>6. QED
    BY <2>1, <2>2, <2>4, <2>5, RangeOfOrder DEF t
<1>5. ASSUME NEW q \in Queues
      PROVE  Accepts(q)' /\ Range(Listed(q))' = Members(q)'
  <2>1. Accepts(q) /\ Range(Listed(q)) = Members(q)
    BY DEF ShapeLists
  <2>2. Accepts(q)' /\ Listed(q)' = IF q = p THEN Append(Listed(q), n) ELSE Listed(q)
    BY <2>1, PushedLists
  <2>3. QED
    BY <2>1, <2>2, <1>2, <1>3, <1>4 DEF Range
<1>6. tail[p] = NULL \/ (tail[p] \in Nodes /\ container[tail[p]] = p)
  <2>1. CASE Len(s) = 0
    BY <1>3, <2>1, OrderFacts DEF IsList
  <2>2. CASE Len(s) # 0
    <3>1. Len(s) \in 1..Len(s)
      BY <2>2, OrderFacts
    <3>2. QED
      BY <3>1, <1>3, ListLinks
  <2>3. QED
    BY <2>1, <2>2
<1>7. Tidy'
  <2>1. ASSUME NEW m \in Nodes, container'[m] = NULL
        PROVE  next'[m] = NULL /\ previous'[m] = NULL
    <3>1. m # n /\ container[m] = NULL
      BY <2>1, <1>1
    <3>2. m # tail[p]
      BY <3>1, <1>1, <1>6
    <3>3. QED
      BY <3>1, <3>2, <1>1 DEF Tidy
  <2>2. QED
    BY <2>1 DEF Tidy
<1>8. QED
  BY <1>5, <1>7 DEF ShapeLists

\* Pop and remove preserve the shape: the node leaves list and members.
LEMMA UnlinkedShape ==
  ASSUME TypeOK, TypeOK', ShapeLists, Tidy, NEW p \in Queues, NEW i \in Nat, Unlinked(p, i)
  PROVE  ShapeLists' /\ Tidy'
<1>1. PICK s \in Orders : s = Listed(p) /\ IsList(p, s) /\ i \in 1..Len(s)
  BY AcceptedList DEF Unlinked, IsList
<1> DEFINE n == s[i]
<1>2. /\ n \in Nodes /\ container[n] = p /\ Len(s) \in Nat
      /\ previous[n] = IF i = 1 THEN NULL ELSE s[i - 1]
      /\ next[n] = IF i = Len(s) THEN NULL ELSE s[i + 1]
      /\ \A j \in 1..Len(s) : s[j] \in Nodes /\ container[s[j]] = p /\ (s[j] = n => j = i)
  BY <1>1, ListLinks, OrderFacts
<1>3. /\ next' = [m \in Nodes |-> IF m = n THEN NULL
                                  ELSE IF m = previous[n] THEN next[n] ELSE next[m]]
      /\ previous' = [m \in Nodes |-> IF m = n THEN NULL
                                      ELSE IF m = next[n] THEN previous[n] ELSE previous[m]]
      /\ container' = [container EXCEPT ![n] = NULL]
      /\ container \in [Nodes -> Queues \cup {NULL}]
      /\ NULL \notin Queues /\ NULL \notin Nodes
  BY <1>1, WaitQueueAssumption DEF Unlinked, unlinkNode, TypeOK
<1> HIDE DEF n
<1>4. \A q \in Queues : Members(q)' = IF q = p THEN Members(q) \ {n} ELSE Members(q)
  BY <1>2, <1>3 DEF Members
<1>5. Range(RemoveAt(s, i)) = Range(s) \ {n}
  <2> DEFINE t == RemoveAt(s, i)
             l == Len(s)
  <2>1. /\ t \in Orders /\ Len(t) = l - 1
        /\ \A j \in 1..l - 1 : t[j] = IF j < i THEN s[j] ELSE s[j + 1]
    BY <1>1, RemoveAtOrder
  <2>2. l \in Nat /\ i \in 1..l
    BY <1>1, <1>2
  <2> HIDE DEF t, l
  <2>3. ASSUME NEW j \in 1..l - 1
        PROVE  t[j] \in {s[k] : k \in 1..l} \ {n}
    <3>1. j \in 1..l /\ j + 1 \in 1..l
      BY <2>2
    <3>2. CASE j < i
      <4>1. t[j] = s[j] /\ j # i
        BY <3>2, <2>1, <2>2
      <4>2. QED
        BY <4>1, <3>1, <1>2 DEF l
    <3>3. CASE ~(j < i)
      <4>1. t[j] = s[j + 1] /\ j + 1 # i
        BY <3>3, <2>1, <2>2
      <4>2. QED
        BY <4>1, <3>1, <1>2 DEF l
    <3>4. QED
      BY <3>2, <3>3
  <2>4. ASSUME NEW k \in 1..l, s[k] # n
        PROVE  s[k] \in {t[j] : j \in 1..l - 1}
    <3>1. k # i
      BY <2>4 DEF n
    <3>2. CASE k < i
      <4>1. k \in 1..l - 1 /\ t[k] = s[k]
        BY <3>2, <2>1, <2>2
      <4>2. QED
        BY <4>1
    <3>3. CASE i < k
      <4>1. k - 1 \in 1..l - 1 /\ ~(k - 1 < i) /\ (k - 1) + 1 = k
        BY <3>3, <2>2
      <4>2. t[k - 1] = s[k]
        BY <4>1, <2>1
      <4>3. QED
        BY <4>1, <4>2
    <3>4. QED
      BY <3>1, <3>2, <3>3, <2>2
  <2>5. Range(t) = {t[j] : j \in 1..l - 1} /\ Range(s) = {s[k] : k \in 1..l}
    BY <2>1, RangeOfOrder DEF l
  <2>6. QED
    BY <2>3, <2>4, <2>5 DEF t
<1>6. ASSUME NEW q \in Queues
      PROVE  Accepts(q)' /\ Range(Listed(q))' = Members(q)'
  <2>1. Accepts(q) /\ Range(Listed(q)) = Members(q)
    BY DEF ShapeLists
  <2>2. Accepts(q)' /\ Listed(q)' = IF q = p THEN RemoveAt(Listed(q), i) ELSE Listed(q)
    BY <2>1, UnlinkedLists
  <2>3. CASE q = p
    <3>1. /\ Listed(q)' = RemoveAt(s, i)
          /\ Range(s) = Members(q) /\ Members(q)' = Members(q) \ {n}
      BY <2>1, <2>2, <2>3, <1>1, <1>4
    <3>2. Range(Listed(q))' = Range(RemoveAt(s, i))
      BY <3>1 DEF Range
    <3>3. QED
      BY <2>2, <3>1, <3>2, <1>5
  <2>4. CASE q # p
    BY <2>1, <2>2, <2>4, <1>4 DEF Range
  <2>5. QED
    BY <2>3, <2>4
<1>7. Tidy'
  <2>1. ASSUME NEW m \in Nodes, container'[m] = NULL
        PROVE  next'[m] = NULL /\ previous'[m] = NULL
    <3>1. CASE m = n
      BY <3>1, <1>3
    <3>2. CASE m # n
      <4>1. container[m] = NULL
        BY <3>2, <2>1, <1>2, <1>3
      <4>2. m # previous[n] /\ m # next[n]
        <5>1. i # 1 => i - 1 \in 1..Len(s)
          BY <1>1, <1>2
        <5>2. i # Len(s) => i + 1 \in 1..Len(s)
          BY <1>1, <1>2
        <5>3. QED
          BY <5>1, <5>2, <4>1, <1>2, <1>3
      <4>3. QED
        BY <4>1, <4>2, <3>2, <1>3 DEF Tidy
    <3>3. QED
      BY <3>1, <3>2
  <2>2. QED
    BY <2>1 DEF Tidy
<1>8. QED
  BY <1>6, <1>7 DEF ShapeLists

\* Answers and initializations preserve the shape.
LEMMA QuietShape ==
  ASSUME TypeOK, TypeOK', ShapeLists, Tidy, Quiet
  PROVE  ShapeLists' /\ Tidy'
<1>1. container' = container
  BY DEF Quiet, listVars, QueueReset, NodeReset, TypeOK
<1>2. \A q \in Queues : Members(q)' = Members(q)
  BY <1>1 DEF Members
<1>3. ASSUME NEW q \in Queues
      PROVE  Accepts(q)' /\ Range(Listed(q))' = Members(q)'
  <2>1. Accepts(q) /\ Range(Listed(q)) = Members(q)
    BY DEF ShapeLists
  <2>2. Accepts(q)' /\ Listed(q)' = Listed(q)
    BY <2>1, QuietLists
  <2>3. QED
    BY <2>1, <2>2, <1>2 DEF Range
<1>4. Tidy'
  BY <1>1 DEF Tidy, Quiet, listVars, QueueReset, NodeReset, TypeOK
<1>5. QED
  BY <1>3, <1>4 DEF ShapeLists

\* Calls preserve the shape.
LEMMA ShapeStep == TypeOK /\ TypeOK' /\ Shape /\ [Call]_vars => Shape'
<1> SUFFICES ASSUME TypeOK, TypeOK', Shape, [Call]_vars
             PROVE  Shape'
  OBVIOUS
<1>1. ShapeLists /\ Tidy
  BY ShapeInLists
<1>2. (ShapeLists /\ Tidy)' => Shape'
  <2>1. (TypeOK => (Shape <=> ShapeLists /\ Tidy))'
    BY ShapeInLists, PTL
  <2>2. QED
    BY <2>1
<1>3. CASE Call
  BY <1>1, <1>2, <1>3, CallEffect, QuietShape, PushedShape, UnlinkedShape DEF Effect, Quiet
<1>4. CASE UNCHANGED vars
  BY <1>1, <1>2, <1>4, QuietShape DEF Quiet, listVars, vars
<1>5. QED
  BY <1>3, <1>4

\* Empty queues and unlinked nodes have the shape.
LEMMA InitShape == Init => Shape
<1>1. SUFFICES ASSUME Init
               PROVE  Shape
  OBVIOUS
<1>2. <<>> \in Orders /\ Range(<<>>) = {}
  <2>1. <<>> \in Seq(Nodes) /\ Len(<<>>) = 0 /\ 0 <= MaxNodes
    BY WaitQueueAssumption
  <2>2. <<>> \in Orders
    BY <2>1, SeqIsOrder
  <2>3. QED
    BY <2>1, <2>2, RangeOfOrder
<1>3. \A q \in Queues : IsList(q, <<>>) /\ Members(q) = {}
  BY WaitQueueAssumption, <1>1 DEF Init, IsList, IsInjective, Members
<1>4. QED
  BY <1>1, <1>2, <1>3 DEF Shape, Init

\* Shape is inductive: without damage every queue stays the list of exactly the
\* nodes whose container it is, through push, pop, remove and initialization.
THEOREM ShapeSafety == Spec => []Shape
BY InitShape, ShapeStep, CallTypeSafety, PTL DEF Spec

-----------------------------------------------------------------------------
\* The refinement mapping.
line == [q \in Queues |-> Listed(q)]

\* A step that changes no list is a stutter of the lines.
LEMMA LineSame ==
  ASSUME TypeOK, TypeOK', ShapeLists, Quiet
  PROVE  line' = line
BY QuietLists DEF line, ShapeLists

\* How the fields show in the lines.
LEMMA LineFacts ==
  ASSUME TypeOK, ShapeLists
  PROVE  /\ \A q \in Queues : /\ Len(line[q]) = count[q] /\ count[q] \in Nat
                              /\ line[q] \in Orders /\ line[q] = Listed(q)
                              /\ line[q] = <<>> <=> head[q] = NULL
         /\ \A n \in Nodes : Line!Standing(n) <=> container[n] # NULL
         /\ \A q \in Queues, n \in Nodes : n \in Range(line[q]) <=> container[n] = q
<1>1. ASSUME NEW q \in Queues
      PROVE  /\ Len(line[q]) = count[q] /\ count[q] \in Nat
             /\ line[q] \in Orders /\ line[q] = Listed(q)
             /\ line[q] = <<>> <=> head[q] = NULL
  <2>1. Listed(q) \in Orders /\ IsList(q, Listed(q)) /\ line[q] = Listed(q)
    BY AcceptedList DEF ShapeLists, line
  <2>2. PICK s \in Orders : s = line[q] /\ IsList(q, s)
    BY <2>1
  <2>3. Len(s) = count[q] /\ (s = <<>> => head[q] = NULL)
    BY <2>2 DEF IsList
  <2>4. s # <<>> => head[q] # NULL
    <3>1. s # <<>> => 1 \in 1..Len(s)
      BY OrderFacts
    <3>2. QED
      BY <3>1, <2>2, ListLinks, WaitQueueAssumption
  <2>5. QED
    BY <2>1, <2>2, <2>3, <2>4, OrderFacts
<1>2. \A q \in Queues, n \in Nodes : n \in Range(line[q]) <=> container[n] = q
  BY <1>1 DEF ShapeLists, Members
<1>3. \A n \in Nodes : Line!Standing(n) <=> container[n] # NULL
  <2>1. ASSUME NEW n \in Nodes
        PROVE  Line!Standing(n) <=> \E q \in Queues : n \in Range(line[q])
    BY DEF Line!Standing, Line!Range, Range, line
  <2>2. \A n \in Nodes : container[n] \in Queues \cup {NULL} /\ NULL \notin Queues
    BY WaitQueueAssumption DEF TypeOK
  <2>3. QED
    BY <2>1, <2>2, <1>2
<1>4. QED
  BY <1>1, <1>2, <1>3

\* An answer leaves the lines alone.
LEMMA AnswerIsRefusal ==
  ASSUME TypeOK, TypeOK', ShapeLists, NEW r, Answer(r)
  PROVE  line' = line /\ result' = r /\ out' = NULL
BY LineSame DEF Answer, Quiet, listVars

\* osWaitQueuePush is Join, or an invalid argument.
LEMMA PushIsJoin ==
  ASSUME TypeOK, TypeOK', ShapeLists, Tidy,
         NEW q \in Queues \cup {NULL}, NEW n \in Link, osWaitQueuePush(q, n)
  PROVE  Line!Next
<1>1. CASE q = NULL \/ n = NULL
  <2>1. Answer("INVALID_ARGUMENT")
    BY <1>1 DEF osWaitQueuePush, PushResult
  <2>2. QED
    BY <2>1, AnswerIsRefusal DEF Line!Next, Line!Invalid, Line!Refuse, line
<1>2. CASE q # NULL /\ n # NULL
  <2>1. q \in Queues /\ n \in Nodes
    BY <1>2 DEF Link
  <2>2. /\ Accepts(q) /\ (container[n] = NULL => next[n] = NULL /\ previous[n] = NULL)
        /\ Len(line[q]) = count[q] /\ line[q] = Listed(q) /\ line \in [Queues -> Orders]
        /\ Line!Standing(n) <=> container[n] # NULL
    BY <2>1, LineFacts DEF ShapeLists, Tidy, line
  <2>3. CASE PushResult(q, n) # "OK"
    <3>1. Answer(PushResult(q, n))
      BY <2>3 DEF osWaitQueuePush
    <3>2. line' = line /\ result' = PushResult(q, n) /\ out' = NULL
      BY <3>1, AnswerIsRefusal
    <3>3. \/ container[n] # NULL /\ PushResult(q, n) = "ALREADY_LINKED"
          \/ container[n] = NULL /\ count[q] = MaxNodes /\ PushResult(q, n) = "FULL"
      BY <1>2, <2>2, <2>3 DEF PushResult
    <3>4. Line!Join(q, n)
      BY <3>2, <3>3, <2>2 DEF Line!Join, Line!Refuse, line
    <3>5. QED
      BY <3>4, <2>1 DEF Line!Next
  <2>4. CASE PushResult(q, n) = "OK"
    <3>1. Pushed(q, n) /\ result' = "OK" /\ out' = NULL
      BY <2>4, PushEffect
    <3>2. line' = [line EXCEPT ![q] = Append(line[q], n)]
      <4>1. \A p \in Queues : Listed(p)' = IF p = q THEN Append(Listed(p), n) ELSE Listed(p)
        BY <2>1, <3>1, PushedLists DEF ShapeLists
      <4>2. QED
        BY <4>1 DEF line
    <3>3. ~Line!Standing(n) /\ Len(line[q]) < MaxNodes
      BY <3>1, <2>2 DEF Pushed
    <3>4. Line!Join(q, n)
      BY <3>1, <3>2, <3>3 DEF Line!Join, Line!Joins, line
    <3>5. QED
      BY <3>4, <2>1 DEF Line!Next
  <2>5. QED
    BY <2>3, <2>4
<1>3. QED
  BY <1>1, <1>2

\* osWaitQueuePop is Serve, or an invalid argument.
LEMMA PopIsServe ==
  ASSUME TypeOK, TypeOK', ShapeLists, NEW q \in Queues \cup {NULL}, NEW wanted \in BOOLEAN,
         osWaitQueuePop(q, wanted)
  PROVE  Line!Next
<1>1. CASE ~wanted \/ q = NULL
  <2>1. Answer("INVALID_ARGUMENT")
    BY <1>1 DEF osWaitQueuePop, PopResult
  <2>2. QED
    BY <2>1, AnswerIsRefusal DEF Line!Next, Line!Invalid, Line!Refuse, line
<1>2. CASE wanted /\ q # NULL
  <2>1. /\ q \in Queues /\ Accepts(q)
        /\ line[q] = Listed(q) /\ (line[q] = <<>> <=> head[q] = NULL)
    BY <1>2, LineFacts DEF ShapeLists
  <2>2. CASE PopResult(q, wanted) # "OK"
    <3>1. Answer("EMPTY") /\ head[q] = NULL
      BY <1>2, <2>1, <2>2 DEF osWaitQueuePop, PopResult
    <3>2. line' = line /\ result' = "EMPTY" /\ out' = NULL
      BY <3>1, AnswerIsRefusal
    <3>3. Line!Serve(q)
      BY <3>1, <3>2, <2>1 DEF Line!Serve, Line!Refuse, line
    <3>4. QED
      BY <3>3, <2>1 DEF Line!Next
  <2>3. CASE PopResult(q, wanted) = "OK"
    <3>1. Unlinked(q, 1) /\ result' = "OK" /\ out' = head[q] /\ head[q] = Listed(q)[1]
      BY <2>3, PopEffect
    <3>2. head[q] # NULL
      BY <2>3 DEF PopResult
    <3>3. RemoveAt(Listed(q), 1) = Tail(Listed(q)) /\ Listed(q)[1] = Head(Listed(q))
      <4>1. PICK s \in Orders : s = Listed(q) /\ s # <<>>
        BY <2>1, <3>2, LineFacts
      <4>2. s \in Seq(Nodes) /\ 1 \in 1..Len(s) /\ Len(s) \in Nat
        BY <4>1, OrderFacts
      <4>3. /\ RemoveAt(s, 1) \in Seq(Nodes) /\ Len(RemoveAt(s, 1)) = Len(s) - 1
            /\ \A j \in 1..Len(s) - 1 : RemoveAt(s, 1)[j] = s[j + 1]
        BY <4>2, RemoveAtOrder, OrderFacts
      <4>4. /\ Tail(s) \in Seq(Nodes) /\ Len(Tail(s)) = Len(s) - 1
            /\ \A j \in 1..Len(s) - 1 : Tail(s)[j] = s[j + 1]
        BY <4>1, <4>2, HeadTailProperties
      <4>5. RemoveAt(s, 1) = Tail(s)
        BY <4>3, <4>4, SeqEqual
      <4>6. QED
        BY <4>1, <4>2, <4>5
    <3>4. line' = [line EXCEPT ![q] = Tail(line[q])]
      <4>1. \A p \in Queues :
              Listed(p)' = IF p = q THEN RemoveAt(Listed(p), 1) ELSE Listed(p)
        BY <2>1, <3>1, UnlinkedLists DEF ShapeLists
      <4>2. QED
        BY <4>1, <3>3 DEF line
    <3>5. Line!Serve(q)
      BY <3>1, <3>2, <3>3, <3>4, <2>1 DEF Line!Serve, Line!Served, line
    <3>6. QED
      BY <3>5, <2>1 DEF Line!Next
  <2>4. QED
    BY <2>2, <2>3
<1>3. QED
  BY <1>1, <1>2

\* osWaitQueueRemove is Withdraw, or an invalid argument.
LEMMA RemoveIsWithdraw ==
  ASSUME TypeOK, TypeOK', ShapeLists,
         NEW q \in Queues \cup {NULL}, NEW n \in Link, osWaitQueueRemove(q, n)
  PROVE  Line!Next
<1>1. CASE q = NULL \/ n = NULL
  <2>1. Answer("INVALID_ARGUMENT")
    BY <1>1 DEF osWaitQueueRemove, RemoveResult
  <2>2. QED
    BY <2>1, AnswerIsRefusal DEF Line!Next, Line!Invalid, Line!Refuse, line
<1>2. CASE q # NULL /\ n # NULL
  <2>1. q \in Queues /\ n \in Nodes
    BY <1>2 DEF Link
  <2>2. /\ Accepts(q) /\ line[q] = Listed(q) /\ Len(line[q]) = count[q]
        /\ n \in Range(line[q]) <=> container[n] = q
    BY <2>1, LineFacts DEF ShapeLists
  <2>3. CASE RemoveResult(q, n) # "OK"
    <3>1. container[n] # q
      <4>1. SUFFICES ASSUME container[n] = q
                     PROVE  n \in Range(Walk(q))
        BY <1>2, <2>2, <2>3 DEF RemoveResult
      <4>2. PICK s \in Orders : s = Listed(q) /\ IsList(q, s) /\ n \in Range(s)
        BY <4>1, <2>1, <2>2, AcceptedList
      <4>3. PICK i \in 1..Len(s) : n = s[i]
        BY <4>2, RangeOfOrder
      <4>4. Walk(q) = [k \in 0..MaxNodes |-> IF k < Len(s) THEN s[k + 1] ELSE NULL]
        BY <4>2, <2>1, ListWalk
      <4>5. i - 1 \in 0..MaxNodes /\ i - 1 < Len(s) /\ (i - 1) + 1 = i
        BY <4>3, OrderFacts
      <4>6. QED
        BY <4>3, <4>4, <4>5 DEF Range
    <3>2. Answer("NOT_MEMBER")
      BY <3>1, <1>2, <2>2, <2>3 DEF osWaitQueueRemove, RemoveResult
    <3>3. line' = line /\ result' = "NOT_MEMBER" /\ out' = NULL
      BY <3>2, AnswerIsRefusal
    <3>4. Line!Withdraw(q, n)
      BY <3>1, <3>3, <2>2 DEF Line!Withdraw, Line!Refuse, Line!Range, Range, line
    <3>5. QED
      BY <3>4, <2>1 DEF Line!Next
  <2>4. CASE RemoveResult(q, n) = "OK"
    <3>1. PICK i \in Nat : /\ Unlinked(q, i) /\ Listed(q)[i] = n
                           /\ result' = "OK" /\ out' = NULL
      BY <2>4, RemoveEffect
    <3>2. line' = [line EXCEPT ![q] = RemoveAt(line[q], i)]
      <4>1. \A p \in Queues :
              Listed(p)' = IF p = q THEN RemoveAt(Listed(p), i) ELSE Listed(p)
        BY <2>1, <3>1, UnlinkedLists DEF ShapeLists
      <4>2. QED
        BY <4>1 DEF line
    <3>3. i \in 1..Len(line[q]) /\ line[q][i] = n
      BY <3>1, <2>2 DEF Unlinked
    <3>4. Line!Withdraw(q, n)
      <4>1. \E j \in 1..Len(line[q]) :
              /\ line[q][j] = n /\ line' = [line EXCEPT ![q] = RemoveAt(line[q], j)]
              /\ result' = "OK" /\ out' = NULL
        BY <3>1, <3>2, <3>3
      <4>2. QED
        BY <4>1 DEF Line!Withdraw, Line!RemoveAt, RemoveAt, line
    <3>5. QED
      BY <3>4, <2>1 DEF Line!Next
  <2>5. QED
    BY <2>3, <2>4
<1>3. QED
  BY <1>1, <1>2

\* Every call is a step of the lines, or a stutter.
LEMMA CallIsLineStep ==
  TypeOK /\ TypeOK' /\ Shape /\ [Call]_vars => [Line!Next]_(Line!lineVars)
<1> SUFFICES ASSUME TypeOK, TypeOK', Shape, [Call]_vars
             PROVE  [Line!Next]_(Line!lineVars)
  OBVIOUS
<1>1. ShapeLists /\ Tidy
  BY ShapeInLists
<1>2. ASSUME NEW q \in Queues \cup {NULL}, Answer(osWaitQueueValidate(q))
      PROVE  Line!Next
  <2>1. osWaitQueueValidate(q) = IF q = NULL THEN "INVALID_ARGUMENT" ELSE "OK"
    BY <1>1 DEF osWaitQueueValidate, ShapeLists
  <2>2. line' = line /\ result' = osWaitQueueValidate(q) /\ out' = NULL
    BY <1>1, <1>2, AnswerIsRefusal
  <2>3. QED
    BY <2>1, <2>2 DEF Line!Next, Line!Invalid, Line!Look, Line!Refuse, line
<1>3. ASSUME NEW q \in Queues \cup {NULL}, osWaitQueueInit(q)
      PROVE  Line!Next
  <2>1. CASE Answer("INVALID_ARGUMENT")
    BY <2>1, <1>1, AnswerIsRefusal DEF Line!Next, Line!Invalid, Line!Refuse, line
  <2>2. CASE q # NULL /\ QueueReset(q) /\ result' = "OK" /\ out' = NULL
    <3>1. line' = line
      BY <2>2, <1>1, LineSame DEF Quiet
    <3>2. QED
      BY <3>1, <2>2 DEF Line!Next, Line!Look, line
  <2>3. QED
    BY <1>3, <2>1, <2>2 DEF osWaitQueueInit, QueueReset
<1>4. ASSUME NEW n \in Link, osWaitNodeInit(n)
      PROVE  Line!Next
  <2>1. CASE Answer("INVALID_ARGUMENT")
    BY <2>1, <1>1, AnswerIsRefusal DEF Line!Next, Line!Invalid, Line!Refuse, line
  <2>2. CASE n # NULL /\ NodeReset(n) /\ result' = "OK" /\ out' = NULL
    <3>1. line' = line
      BY <2>2, <1>1, LineSame DEF Quiet, Link
    <3>2. QED
      BY <3>1, <2>2 DEF Line!Next, Line!Look, line
  <2>3. QED
    BY <1>4, <2>1, <2>2 DEF osWaitNodeInit, NodeReset
<1>5. CASE Call
  BY <1>1, <1>2, <1>3, <1>4, <1>5, PushIsJoin, PopIsServe, RemoveIsWithdraw DEF Call
<1>6. CASE UNCHANGED vars
  <2>1. line' = line
    BY <1>1, <1>6, LineSame DEF Quiet, listVars, vars
  <2>2. QED
    BY <2>1, <1>6 DEF Line!lineVars, vars, line
<1>7. QED
  BY <1>5, <1>6

\* Initial states map to initial states.
LEMMA InitIsLineInit == Init => Line!Init
<1>1. SUFFICES ASSUME Init
               PROVE  Line!Init
  OBVIOUS
<1>2. \A q \in Queues : Listed(q) = <<>>
  BY <1>1 DEF Init, Listed
<1>3. QED
  BY <1>1, <1>2 DEF Line!Init, Init

\* osWaitQueue.c implements the line of waiters the kernel relies on: first in,
\* first out, one line per node, and each call answers what the line answers.
THEOREM WaitLineRefinement == Spec => ImplementsWaitLine
BY InitIsLineInit, CallIsLineStep, CallTypeSafety, ShapeSafety, PTL
   DEF Spec, ImplementsWaitLine, Line!Spec
=============================================================================
