---------------------------- MODULE FifoSemaphore ----------------------------
(***************************************************************************)
(* What a semaphore promises its users: tokens that are given go to the    *)
(* clients in the order in which they asked; a client that was granted one *)
(* keeps it, however late it leaves; what nobody waits for is stored, up   *)
(* to a capacity.                                                          *)
(***************************************************************************)
EXTENDS Naturals, Sequences, Functions

CONSTANTS Clients, Capacity

VARIABLES stored,   \* tokens nobody asked for yet
          line,     \* clients that asked and were granted none, in order
          granted   \* clients that were granted a token and have not left

semaphoreVars == <<stored, line, granted>>

Init == stored \in 0..Capacity /\ line = <<>> /\ granted = {}

\* A stored token is taken without waiting.
Pass ==
  /\ stored > 0
  /\ stored' = stored - 1
  /\ UNCHANGED <<line, granted>>

Ask(t) ==
  /\ stored = 0 /\ t \notin Range(line) \cup granted
  /\ line' = Append(line, t)
  /\ UNCHANGED <<stored, granted>>

Leave(t) ==
  /\ t \in granted
  /\ granted' = granted \ {t}
  /\ UNCHANGED <<stored, line>>

\* A token goes to whoever has waited longest, or into the store.
Grant ==
  /\ line # <<>> /\ stored = 0
  /\ granted' = granted \cup {Head(line)}
  /\ line' = Tail(line)
  /\ UNCHANGED stored

Store ==
  /\ line = <<>> /\ stored < Capacity
  /\ stored' = stored + 1
  /\ UNCHANGED <<line, granted>>

Next == Pass \/ Grant \/ Store \/ \E t \in Clients : Ask(t) \/ Leave(t)

Spec == Init /\ [][Next]_semaphoreVars
=============================================================================
