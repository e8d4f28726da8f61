-------------------------------- MODULE Guests --------------------------------
(***************************************************************************)
(* Chats without an account, from one browser.  The server keeps nothing:  *)
(* how many chats the guest had is in a signed cookie (miaw_guest), which  *)
(* a request brings along and the header of its answer sets anew, before   *)
(* the AI is asked.  Nothing orders the requests of two tabs.              *)
(***************************************************************************)
EXTENDS Integers, FiniteSets

CONSTANTS
  GuestChats,
  GuestLimit,     \* guestChatLimit
  MaxCookies,     \* bound on cookies that expire or are cleared
  MaxGuestSlips   \* bound on answers that are lost

ASSUME GuestAssumption ==
  /\ IsFiniteSet(GuestChats)
  /\ GuestLimit \in Nat /\ MaxCookies \in Nat /\ MaxGuestSlips \in Nat

VARIABLES
  cookie,      \* the count in the browser's cookie
  cookies,     \* how many there have been before
  guestChats,
  guestSlips

guestVars == <<cookie, cookies, guestChats, guestSlips>>

\* used: what the cookie said, and then what the answer makes it say; of: the cookie it
\* belongs to; before: the chats that were over when it was sent.
GuestChat ==
  [pc : {"new", "sent", "answering", "done"}, used : 0..(GuestLimit + 1), of : 0..MaxCookies,
   before : SUBSET GuestChats, out : {"none", "refused", "lost", "served"}]

GuestInit ==
  /\ cookie = 0 /\ cookies = 0
  /\ guestChats = [g \in GuestChats |->
       [pc |-> "new", used |-> 0, of |-> 0, before |-> {}, out |-> "none"]]
  /\ guestSlips = 0

GuestEnds(g, out) == guestChats' = [guestChats EXCEPT ![g].pc = "done", ![g].out = out]

GuestSends(g) ==
  /\ guestChats[g].pc = "new"
  /\ guestChats' = [guestChats EXCEPT ![g] =
       [pc |-> "sent", used |-> cookie, of |-> cookies,
        before |-> {q \in GuestChats : guestChats[q].pc = "done"}, out |-> "none"]]
  /\ UNCHANGED <<cookie, cookies, guestSlips>>

\* Variant: the limit itself is still within.
GuestAdmittedLate(g) ==
  /\ guestChats[g].pc = "sent"
  /\ IF guestChats[g].used <= GuestLimit
     THEN guestChats' = [guestChats EXCEPT ![g].pc = "answering", ![g].used = @ + 1]
     ELSE GuestEnds(g, "refused")
  /\ UNCHANGED <<cookie, cookies, guestSlips>>

\* guestChatStream counts the chat, and then asks the AI.
GuestAdmitted(g) ==
  /\ guestChats[g].pc = "sent"
  /\ IF guestChats[g].used < GuestLimit
     THEN guestChats' = [guestChats EXCEPT ![g].pc = "answering", ![g].used = @ + 1]
     ELSE GuestEnds(g, "refused")
  /\ UNCHANGED <<cookie, cookies, guestSlips>>

\* The header arrives, and sets the cookie, whichever that is by now; then the answer.
GuestServed(g) ==
  /\ guestChats[g].pc = "answering"
  /\ cookie' = guestChats[g].used
  /\ GuestEnds(g, "served")
  /\ UNCHANGED <<cookies, guestSlips>>

\* The guest hangs up before.
GuestLost(g) ==
  /\ guestChats[g].pc = "answering"
  /\ guestSlips < MaxGuestSlips /\ guestSlips' = guestSlips + 1
  /\ GuestEnds(g, "lost")
  /\ UNCHANGED <<cookie, cookies>>

\* The cookie expires, after seven days.
CookieGoes ==
  /\ cookies < MaxCookies
  /\ cookies' = cookies + 1 /\ cookie' = 0
  /\ UNCHANGED <<guestChats, guestSlips>>

GuestNext ==
  \/ \E g \in GuestChats : GuestSends(g) \/ GuestAdmitted(g) \/ GuestServed(g) \/ GuestLost(g)
  \/ CookieGoes

GuestSpec == GuestInit /\ [][GuestNext]_guestVars

-----------------------------------------------------------------------------

GuestsOverlap(p, q) ==
  /\ p # q /\ guestChats[p].pc # "new" /\ guestChats[q].pc # "new"
  /\ p \notin guestChats[q].before /\ q \notin guestChats[p].before

\* The chats of this cookie that a guest had one at a time.
ServedAlone ==
  {g \in GuestChats : /\ guestChats[g].out = "served" /\ guestChats[g].of = cookies
                      /\ ~\E q \in GuestChats : GuestsOverlap(g, q)}

\* Only chats that overlap others can go uncounted: whoever has one at a time has no
\* more than the limit, whatever the other tabs have done before.
GuestsAreCounted == Cardinality(ServedAlone) <= cookie /\ cookie <= GuestLimit

GuestOK ==
  /\ cookie \in 0..(GuestLimit + 1) /\ cookies \in 0..MaxCookies
  /\ guestChats \in [GuestChats -> GuestChat]
  /\ guestSlips \in 0..MaxGuestSlips

GuestInv == GuestOK /\ GuestsAreCounted

=============================================================================
