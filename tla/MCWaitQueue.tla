----------------------------- MODULE MCWaitQueue -----------------------------
(* Instances of WaitQueue for TLC.  No definition tells two queues, or two   *)
(* nodes, apart, and the properties checked under the symmetry are safety.   *)
EXTENDS WaitQueue, TLC

MCSymmetry == Permutations(Nodes) \cup Permutations(Queues)
=============================================================================
