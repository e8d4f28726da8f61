-------------------------- MODULE MCWhatsAppRunner --------------------------
(***************************************************************************)
(* Instances of WhatsAppRunner for TLC: messages are interchangeable.      *)
(***************************************************************************)
EXTENDS WhatsAppRunner, TLC

Symmetry == Permutations(Messages)

=============================================================================
