---------------------------- MODULE MCThreadStacks ----------------------------
(* Instances of ThreadStacks for TLC: an address space of 24 words, with the  *)
(* pool in its middle.                                                       *)
EXTENDS ThreadStacks

\* Two stacks of which one encloses the other, and storage to be refused: at address 0,
\* misaligned, odd, empty, in the unused part of the pool, around the pool, across its
\* edge, up to the end of the address space and beyond it.
MCRequests ==
  {[start |-> 16, words |-> 6], [start |-> 18, words |-> 2],
   [start |-> 0, words |-> 4], [start |-> 17, words |-> 2], [start |-> 20, words |-> 3],
   [start |-> 4, words |-> 0], [start |-> 12, words |-> 4], [start |-> 6, words |-> 12],
   [start |-> 14, words |-> 4], [start |-> 22, words |-> 2], [start |-> 20, words |-> 8]}
=============================================================================
