------------------------------ MODULE WaitLine ------------------------------
(***************************************************************************)
(* What a family of wait queues promises: each is a first-in first-out     *)
(* line of distinct members, a member stands in at most one line, and a    *)
(* call that cannot be served says why and changes nothing.                *)
(***************************************************************************)
EXTENDS SequencesExt

CONSTANTS Queues, Nodes, NULL,
          MaxNodes   \* how many members a line takes

VARIABLES line,      \* [queue -> its members, oldest first]
          result,    \* what the last call returned
          out        \* the member the last call handed out, if any

lineVars == <<line, result, out>>

Standing(n) == \E q \in Queues : n \in Range(line[q])

Init ==
  /\ line = [q \in Queues |-> <<>>]
  /\ result = "OK"
  /\ out = NULL

Refuse(reason) == result' = reason /\ out' = NULL /\ UNCHANGED line

Invalid == Refuse("INVALID_ARGUMENT")

\* What happens to the lines when a call is granted.
Joins(q, n) ==
  /\ ~Standing(n) /\ Len(line[q]) < MaxNodes
  /\ line' = [line EXCEPT ![q] = Append(@, n)]

Served(q) ==
  /\ line[q] # <<>>
  /\ line' = [line EXCEPT ![q] = Tail(@)]

Join(q, n) ==
  \/ Standing(n) /\ Refuse("ALREADY_LINKED")
  \/ ~Standing(n) /\ Len(line[q]) = MaxNodes /\ Refuse("FULL")
  \/ Joins(q, n) /\ result' = "OK" /\ out' = NULL

Serve(q) ==
  \/ line[q] = <<>> /\ Refuse("EMPTY")
  \/ Served(q) /\ result' = "OK" /\ out' = Head(line[q])

Withdraw(q, n) ==
  \/ n \notin Range(line[q]) /\ Refuse("NOT_MEMBER")
  \/ \E i \in 1..Len(line[q]) :
       /\ line[q][i] = n
       /\ line' = [line EXCEPT ![q] = RemoveAt(@, i)]
       /\ result' = "OK" /\ out' = NULL

\* A line looked at, or an empty one set up anew.
Look == result' = "OK" /\ out' = NULL /\ UNCHANGED line

Next ==
  \/ Invalid
  \/ Look
  \/ \E q \in Queues :
       \/ Serve(q)
       \/ \E n \in Nodes : Join(q, n) \/ Withdraw(q, n)

Spec == Init /\ [][Next]_lineVars
=============================================================================
