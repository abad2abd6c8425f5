------------------------------- MODULE MCHost -------------------------------
(* Modules for HostRuns: one may be given documents and return one, the    *)
(* other neither.                                                          *)
EXTENDS HostRuns, TLC

MCBoth == {"merge", "blind"}
MCMerge == {"merge"}
MCTimeout == [m \in Modules |-> 1]
MCMemory == [m \in Modules |-> 1]
MCOutput == [m \in Modules |-> IF m = "merge" THEN 2 ELSE 0]
MCGrants == [m \in Modules |-> IF m = "merge" THEN {"read", "write"} ELSE {}]

Symmetry == Permutations(Calls)
=============================================================================
