--------------------------- MODULE MCReviewCouncil ---------------------------
(* Instances of ReviewCouncil: a roster of two CLIs, whose findings are one
   cluster or nothing. *)
EXTENDS ReviewCouncil, TLC

CONSTANTS claude, codex, bug, o1, o2

Symmetric == Permutations({claude, codex})
=============================================================================
