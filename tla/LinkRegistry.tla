---------------------------- MODULE LinkRegistry ----------------------------
(***************************************************************************)
(* What linking promises to the users of the app, without codes, requests  *)
(* or transactions: which user each WhatsApp number belongs to.  A user    *)
(* has at most one number, and taking a new one releases the old one in    *)
(* the same step.                                                          *)
(***************************************************************************)
CONSTANTS Users, Contacts, NoUser

VARIABLE linked

Init == linked = [c \in Contacts |-> NoUser]

\* Number c becomes u's, and stops being or having any other.
Take(u, c) ==
  linked' = [d \in Contacts |-> IF d = c THEN u
                                ELSE IF linked[d] = u THEN NoUser ELSE linked[d]]

\* The user or the administrator gives the number up.
Release(c) == linked' = [linked EXCEPT ![c] = NoUser]

Next == \E c \in Contacts : Release(c) \/ \E u \in Users : Take(u, c)

Spec == Init /\ [][Next]_linked

=============================================================================
