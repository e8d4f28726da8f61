----------------------------- MODULE MCBilling -----------------------------
(***************************************************************************)
(* Instances of Billing for TLC: requests, users and orders are            *)
(* interchangeable; a month that begins at time 1 is a long one, so that   *)
(* one that begins later may end earlier.                                  *)
(***************************************************************************)
EXTENDS Billing, TLC

Symmetry == Permutations(Requests) \cup Permutations(Users) \cup Permutations(Orders)

Lengths == [t \in 1..MaxTime |-> IF t = 1 THEN 3 ELSE 1]

=============================================================================
