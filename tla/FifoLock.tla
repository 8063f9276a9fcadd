------------------------------ MODULE FifoLock ------------------------------
(***************************************************************************)
(* What a mutex promises its users: one client inside at a time, in the    *)
(* order in which the clients asked.  Leaving decides at once who is next; *)
(* nobody who asks later, however it is scheduled, enters before the head  *)
(* of the line.                                                            *)
(***************************************************************************)
EXTENDS Sequences, Functions

CONSTANT Clients

VARIABLES line,    \* clients that asked and have not left, in order
          inside   \* the client that has been let in, if any

lockVars == <<line, inside>>

Init == line = <<>> /\ inside = {}

Ask(t) ==
  /\ t \notin Range(line)
  /\ line # <<>>
  /\ line' = Append(line, t)
  /\ UNCHANGED inside

\* A free lock is entered without waiting.
AskAndEnter(t) ==
  /\ line = <<>>
  /\ line' = <<t>>
  /\ inside' = {t}

Enter(t) ==
  /\ line # <<>> /\ t = Head(line) /\ inside = {}
  /\ inside' = {t}
  /\ UNCHANGED line

Leave(t) ==
  /\ inside = {t}
  /\ line' = Tail(line)
  /\ inside' = {}

Next == \E t \in Clients : Ask(t) \/ AskAndEnter(t) \/ Enter(t) \/ Leave(t)

Spec == Init /\ [][Next]_lockVars
=============================================================================
