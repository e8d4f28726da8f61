--------------------------- MODULE MCChatPipeline ---------------------------
(***************************************************************************)
(* Instances of ChatPipeline for TLC: requests are interchangeable.        *)
(***************************************************************************)
EXTENDS ChatPipeline, TLC

Symmetry == Permutations(Requests)

=============================================================================
