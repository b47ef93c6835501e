----------------------------- MODULE MC_Handoff -----------------------------
(* Model-checking instances of Handoff: events are interchangeable. *)
EXTENDS Handoff, TLC

CONSTANTS e1, e2

MC_Symmetry == Permutations({e1, e2})
=============================================================================
