------------------------------ MODULE WaitQueue ------------------------------
(***************************************************************************)
(* The intrusive doubly linked list of waiters (Src/osWaitQueue.c), with   *)
(* its links.  Callers serialize the calls, so a call is one step.         *)
(*                                                                         *)
(* Spec has the calls alone, which is how the kernel uses the list;        *)
(* DamagedSpec also overwrites fields, as tests/host/test_wait_queue.c     *)
(* does, to ask what the defensive checks of the calls detect.             *)
(***************************************************************************)
EXTENDS Integers, SequencesExt

CONSTANTS Queues, Nodes, NULL,
          MaxNodes,   \* OS_WAIT_QUEUE_MAX_NODES
          Damages     \* DamagedSpec: how many fields are overwritten at most

ASSUME WaitQueueAssumption ==
  /\ MaxNodes \in Nat \ {0} /\ Damages \in Nat
  /\ NULL \notin Queues \cup Nodes

VARIABLES head, tail, count,           \* [queue -> field]
          next, previous, container,   \* [node -> field]
          result, out,   \* what the last call returned, and its *node
          damaged        \* the fields overwritten so far

listVars == <<head, tail, count, next, previous, container>>
vars == <<head, tail, count, next, previous, container, result, out, damaged>>

Link == Nodes \cup {NULL}
Results == {"OK", "EMPTY", "ALREADY_LINKED", "NOT_MEMBER", "FULL",
            "INVALID_ARGUMENT", "CORRUPT"}

\* Only an overwritten count exceeds the number of nodes a queue takes.
TypeOK ==
  /\ head \in [Queues -> Link] /\ tail \in [Queues -> Link]
  /\ count \in [Queues -> 0..MaxNodes + 1]
  /\ next \in [Nodes -> Link] /\ previous \in [Nodes -> Link]
  /\ container \in [Nodes -> Queues \cup {NULL}]
  /\ result \in Results /\ out \in Link
  /\ damaged \in 0..Damages
  /\ damaged = 0 => \A q \in Queues : count[q] <= MaxNodes

\* All queues and nodes after osWaitQueueInit and osWaitNodeInit.
Init ==
  /\ head = [q \in Queues |-> NULL] /\ tail = [q \in Queues |-> NULL]
  /\ count = [q \in Queues |-> 0]
  /\ next = [n \in Nodes |-> NULL] /\ previous = [n \in Nodes |-> NULL]
  /\ container = [n \in Nodes |-> NULL]
  /\ result = "OK" /\ out = NULL /\ damaged = 0

-----------------------------------------------------------------------------
(***************************************************************************)
(* osWaitQueueValidate.  The loop visits walk[0], walk[1], ..., and accepts *)
(* if it meets NULL after exactly count[q] nodes that passed its tests.     *)
(***************************************************************************)
Walk(q) ==
  LET walk[k \in 0..MaxNodes] ==
        IF k = 0 THEN head[q]
        ELSE IF walk[k - 1] = NULL THEN NULL ELSE next[walk[k - 1]]
  IN  walk

\* Mutant of Passes: the previous link is not compared.
PassesForwardOnly(q, n, before) ==
  container[n] = q /\ next[n] # n /\ previous[n] # n

\* The tests of the loop on a node n visited after node before.
Passes(q, n, before) ==
  container[n] = q /\ previous[n] = before /\ next[n] # n /\ previous[n] # n

Accepts(q) ==
  /\ count[q] <= MaxNodes
  /\ \/ count[q] = 0 /\ head[q] = NULL /\ tail[q] = NULL
     \/ /\ count[q] > 0 /\ head[q] # NULL /\ tail[q] # NULL
        /\ previous[head[q]] = NULL /\ next[tail[q]] = NULL
        /\ LET walk == Walk(q) IN
           /\ \A k \in 0..count[q] - 1 :
                /\ walk[k] # NULL
                /\ Passes(q, walk[k], IF k = 0 THEN NULL ELSE walk[k - 1])
           /\ walk[count[q]] = NULL /\ walk[count[q] - 1] = tail[q]

osWaitQueueValidate(q) ==
  IF q = NULL THEN "INVALID_ARGUMENT"
  ELSE IF Accepts(q) THEN "OK" ELSE "CORRUPT"

\* A call that fails, or only looks, with its result.
Answer(r) ==
  /\ result' = r /\ out' = NULL
  /\ UNCHANGED <<head, tail, count, next, previous, container, damaged>>

-----------------------------------------------------------------------------
\* Mutant of PushResult: one member too many.
PushResultUnbounded(q, n) ==
  IF q = NULL \/ n = NULL THEN "INVALID_ARGUMENT"
  ELSE IF ~Accepts(q) THEN "CORRUPT"
  ELSE IF container[n] # NULL THEN "ALREADY_LINKED"
  ELSE IF next[n] # NULL \/ previous[n] # NULL THEN "CORRUPT"
  ELSE IF count[q] > MaxNodes THEN "FULL" ELSE "OK"

PushResult(q, n) ==
  IF q = NULL \/ n = NULL THEN "INVALID_ARGUMENT"
  ELSE IF ~Accepts(q) THEN "CORRUPT"
  ELSE IF container[n] # NULL THEN "ALREADY_LINKED"
  ELSE IF next[n] # NULL \/ previous[n] # NULL THEN "CORRUPT"
  ELSE IF count[q] = MaxNodes THEN "FULL" ELSE "OK"

linkNode(q, n) ==
  /\ previous' = [previous EXCEPT ![n] = tail[q]]
  /\ container' = [container EXCEPT ![n] = q]
  /\ next' = [m \in Nodes |-> IF m = tail[q] THEN n ELSE next[m]]
  /\ head' = IF tail[q] # NULL THEN head ELSE [head EXCEPT ![q] = n]
  /\ tail' = [tail EXCEPT ![q] = n]
  /\ count' = [count EXCEPT ![q] = @ + 1]

osWaitQueuePush(q, n) ==
  \/ PushResult(q, n) # "OK" /\ Answer(PushResult(q, n))
  \/ /\ PushResult(q, n) = "OK" /\ linkNode(q, n)
     /\ result' = "OK" /\ out' = NULL /\ UNCHANGED damaged

\* Mutant of unlinkNode: the new first node keeps its previous link.
unlinkNodeForward(q, n) ==
  /\ next' = [m \in Nodes |-> IF m = n THEN NULL
                              ELSE IF m = previous[n] THEN next[n] ELSE next[m]]
  /\ previous' = [previous EXCEPT ![n] = NULL]
  /\ head' = IF previous[n] # NULL THEN head ELSE [head EXCEPT ![q] = next[n]]
  /\ tail' = IF next[n] # NULL THEN tail ELSE [tail EXCEPT ![q] = previous[n]]
  /\ count' = [count EXCEPT ![q] = @ - 1]
  /\ container' = [container EXCEPT ![n] = NULL]

\* Mutant of unlinkNode: the tail of the queue is not moved back.
unlinkNodeKeepTail(q, n) ==
  /\ next' = [m \in Nodes |-> IF m = n THEN NULL
                              ELSE IF m = previous[n] THEN next[n] ELSE next[m]]
  /\ previous' = [m \in Nodes |-> IF m = n THEN NULL
                                  ELSE IF m = next[n] THEN previous[n] ELSE previous[m]]
  /\ head' = IF previous[n] # NULL THEN head ELSE [head EXCEPT ![q] = next[n]]
  /\ tail' = IF next[n] # NULL \/ previous[n] # NULL THEN tail
             ELSE [tail EXCEPT ![q] = NULL]
  /\ count' = [count EXCEPT ![q] = @ - 1]
  /\ container' = [container EXCEPT ![n] = NULL]

unlinkNode(q, n) ==
  /\ next' = [m \in Nodes |-> IF m = n THEN NULL
                              ELSE IF m = previous[n] THEN next[n] ELSE next[m]]
  /\ previous' = [m \in Nodes |-> IF m = n THEN NULL
                                  ELSE IF m = next[n] THEN previous[n] ELSE previous[m]]
  /\ head' = IF previous[n] # NULL THEN head ELSE [head EXCEPT ![q] = next[n]]
  /\ tail' = IF next[n] # NULL THEN tail ELSE [tail EXCEPT ![q] = previous[n]]
  /\ count' = [count EXCEPT ![q] = @ - 1]
  /\ container' = [container EXCEPT ![n] = NULL]

\* wanted: the address for the popped node was given.
PopResult(q, wanted) ==
  IF ~wanted \/ q = NULL THEN "INVALID_ARGUMENT"
  ELSE IF ~Accepts(q) THEN "CORRUPT"
  ELSE IF head[q] = NULL THEN "EMPTY" ELSE "OK"

osWaitQueuePop(q, wanted) ==
  \/ PopResult(q, wanted) # "OK" /\ Answer(PopResult(q, wanted))
  \/ /\ PopResult(q, wanted) = "OK"
     /\ unlinkNode(q, head[q])
     /\ result' = "OK" /\ out' = head[q] /\ UNCHANGED damaged

\* Mutant of RemoveResult: the container is taken for proof of membership.
RemoveResultTrusting(q, n) ==
  IF q = NULL \/ n = NULL THEN "INVALID_ARGUMENT"
  ELSE IF ~Accepts(q) THEN "CORRUPT"
  ELSE IF container[n] # q THEN "NOT_MEMBER" ELSE "OK"

RemoveResult(q, n) ==
  IF q = NULL \/ n = NULL THEN "INVALID_ARGUMENT"
  ELSE IF ~Accepts(q) THEN "CORRUPT"
  ELSE IF container[n] # q THEN "NOT_MEMBER"
  ELSE IF n \in Range(Walk(q)) THEN "OK" ELSE "CORRUPT"

osWaitQueueRemove(q, n) ==
  \/ RemoveResult(q, n) # "OK" /\ Answer(RemoveResult(q, n))
  \/ /\ RemoveResult(q, n) = "OK" /\ unlinkNode(q, n)
     /\ result' = "OK" /\ out' = NULL /\ UNCHANGED damaged

\* Initialization again, which callers do to empty queues and unlinked nodes only.
osWaitQueueInit(q) ==
  \/ q = NULL /\ Answer("INVALID_ARGUMENT")
  \/ /\ q # NULL /\ count[q] = 0
     /\ head' = [head EXCEPT ![q] = NULL] /\ tail' = [tail EXCEPT ![q] = NULL]
     /\ count' = [count EXCEPT ![q] = 0]
     /\ result' = "OK" /\ out' = NULL
     /\ UNCHANGED <<next, previous, container, damaged>>

osWaitNodeInit(n) ==
  \/ n = NULL /\ Answer("INVALID_ARGUMENT")
  \/ /\ n # NULL /\ container[n] = NULL
     /\ next' = [next EXCEPT ![n] = NULL] /\ previous' = [previous EXCEPT ![n] = NULL]
     /\ container' = [container EXCEPT ![n] = NULL]
     /\ result' = "OK" /\ out' = NULL
     /\ UNCHANGED <<head, tail, count, damaged>>

Call ==
  \/ \E q \in Queues \cup {NULL} :
       \/ Answer(osWaitQueueValidate(q))
       \/ osWaitQueueInit(q)
       \/ \E wanted \in BOOLEAN : osWaitQueuePop(q, wanted)
       \/ \E n \in Link : osWaitQueuePush(q, n) \/ osWaitQueueRemove(q, n)
  \/ \E n \in Link : osWaitNodeInit(n)

Spec == Init /\ [][Call]_vars

-----------------------------------------------------------------------------
\* One field is overwritten with another value of its type.
Damage ==
  /\ damaged < Damages /\ damaged' = damaged + 1
  /\ UNCHANGED <<result, out>>
  /\ \/ \E q \in Queues :
          \/ /\ \E x \in Link : head' = [head EXCEPT ![q] = x]
             /\ UNCHANGED <<tail, count, next, previous, container>>
          \/ /\ \E x \in Link : tail' = [tail EXCEPT ![q] = x]
             /\ UNCHANGED <<head, count, next, previous, container>>
          \/ /\ \E c \in 0..MaxNodes + 1 : count' = [count EXCEPT ![q] = c]
             /\ UNCHANGED <<head, tail, next, previous, container>>
     \/ \E n \in Nodes :
          \/ /\ \E x \in Link : next' = [next EXCEPT ![n] = x]
             /\ UNCHANGED <<head, tail, count, previous, container>>
          \/ /\ \E x \in Link : previous' = [previous EXCEPT ![n] = x]
             /\ UNCHANGED <<head, tail, count, next, container>>
          \/ /\ \E q \in Queues \cup {NULL} : container' = [container EXCEPT ![n] = q]
             /\ UNCHANGED <<head, tail, count, next, previous>>

DamagedNext == Call \/ Damage
DamagedSpec == Init /\ [][DamagedNext]_vars

-----------------------------------------------------------------------------
(***************************************************************************)
(* Properties.                                                             *)
(***************************************************************************)
Orders == UNION {[1..k -> Nodes] : k \in 0..MaxNodes}

\* The links of q are those of the list s.
IsList(q, s) ==
  /\ IsInjective(s) /\ count[q] = Len(s)
  /\ head[q] = IF s = <<>> THEN NULL ELSE s[1]
  /\ tail[q] = IF s = <<>> THEN NULL ELSE s[Len(s)]
  /\ \A i \in 1..Len(s) :
       /\ container[s[i]] = q
       /\ previous[s[i]] = IF i = 1 THEN NULL ELSE s[i - 1]
       /\ next[s[i]] = IF i = Len(s) THEN NULL ELSE s[i + 1]

Members(q) == {n \in Nodes : container[n] = q}

\* The inductive invariant.  Without damage every queue is the list of exactly
\* the nodes that name it as their container, and an unlinked node has no links.
Shape ==
  /\ \A q \in Queues : \E s \in Orders : IsList(q, s) /\ Range(s) = Members(q)
  /\ \A n \in Nodes : container[n] = NULL => next[n] = NULL /\ previous[n] = NULL

\* The members of q as the links give them.
Listed(q) == [i \in 1..count[q] |-> Walk(q)[i - 1]]

Line == INSTANCE WaitLine WITH line <- [q \in Queues |-> Listed(q)]

\* The list implements the line of waiters: members leave in the order in which
\* they were pushed, and each call answers what the line answers, never CORRUPT.
ImplementsWaitLine == Line!Spec

\* The validation of a queue, whatever was overwritten, accepts exactly the lists:
\* no cycle, no shared node and no count passes, and nothing well formed is refused.
ValidateExact ==
  \A q \in Queues : Accepts(q) <=> \E s \in Orders : IsList(q, s)

\* One member was added at the end of q, or one was taken out.
Served(q) ==
  \/ \E n \in Nodes : Listed(q)' = Append(Listed(q), n)
  \/ \E i \in 1..count[q] : Listed(q)' = RemoveAt(Listed(q), i)

\* Whatever was overwritten elsewhere, a call leaves every queue that validation
\* accepts acceptable, and changes the members of one of them at most, by one.
IntactStaysIntact ==
  [][damaged' = damaged =>
       \A q \in Queues : Accepts(q) =>
         /\ Accepts(q)'
         /\ \/ Listed(q)' = Listed(q)
            \/ /\ Served(q)
               /\ \A p \in Queues \ {q} : Accepts(p) => Listed(p)' = Listed(p)]_vars
=============================================================================
