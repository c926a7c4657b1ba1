---------------------------- MODULE MCEnginePool ----------------------------
(* Up to three callers of one engine, or of two.                           *)
EXTENDS EnginePool

CONSTANTS a, b, c, x, y, s1, s2, s3

OneProcess == [e \in Engine |-> 1]
TwoProcesses == [e \in Engine |-> 2]

Alike == Permutations(Caller) \cup Permutations(Slot)

=============================================================================
