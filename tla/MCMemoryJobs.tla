---------------------------- MODULE MCMemoryJobs ----------------------------
(***************************************************************************)
(* Instances of MemoryJobs for TLC: servers and contents are              *)
(* interchangeable.                                                        *)
(***************************************************************************)
EXTENDS MemoryJobs, TLC

Symmetry == Permutations(Servers) \cup Permutations(Contents)

=============================================================================
