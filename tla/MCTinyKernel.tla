---------------------------- MODULE MCTinyKernel ----------------------------
(* Instances of TinyKernel for TLC. *)
EXTENDS TinyKernel

CONSTANTS s1, s2, m1, m2

MCOneSem == {s1}
MCTwoSems == {s1, s2}
MCOneMutex == {m1}
MCTwoMutexes == {m1, m2}
MCNone == {}
MCUnitCount == [s \in Sems |-> 1]
MCMixedCount == [s \in Sems |-> IF s \in BinSems THEN 1 ELSE 2]
MCInitialCounts == {-1, 0, 1, 3}
=============================================================================
