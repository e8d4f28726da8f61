----------------------------- MODULE MCServices -----------------------------
(***************************************************************************)
(* Instances of Services for TLC: as only one part moves, its sets and     *)
(* those of another share their elements, so that three symmetries do.     *)
(***************************************************************************)
EXTENDS Services, TLC

Symmetry ==
  Permutations(Reviews) \cup Permutations(Suggestions)

=============================================================================
