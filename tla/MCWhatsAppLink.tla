--------------------------- MODULE MCWhatsAppLink ---------------------------
(***************************************************************************)
(* Instances of WhatsAppLink for TLC: the constants are model values given *)
(* in the configurations; numbers and handlers are interchangeable.        *)
(***************************************************************************)
EXTENDS WhatsAppLink, TLC

Symmetry == Permutations(Contacts) \cup Permutations(Handlers)

=============================================================================
