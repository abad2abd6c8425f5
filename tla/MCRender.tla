------------------------------ MODULE MCRender ------------------------------
(* Small instances of RenderService for TLC. *)
EXTENDS RenderService, TLC

CONSTANTS small, large, huge

(* One document at the ceiling of a worker at rest, one above it, and one
   whose frame cannot count its bytes (see MaxDocument). *)
MCSize == [d \in Docs |-> IF d = small THEN 0 ELSE IF d = large THEN 1 ELSE 2]

Symmetry == Permutations(Requests)
=============================================================================
