---------------------------- MODULE WhatsAppLink ----------------------------
(***************************************************************************)
(* Linking WhatsApp numbers to Miaw users on the central bot account.      *)
(*                                                                         *)
(* The state is the rows of whatsapp_accounts (one central_bot account),   *)
(* whatsapp_contacts and whatsapp_link_codes, and the progress of the      *)
(* inbound handlers: every WhatsApp message is answered by a goroutine of  *)
(* its own, so several of them run against the database at once.           *)
(*                                                                         *)
(* The database is PostgreSQL at its default isolation level, READ         *)
(* COMMITTED: a statement sees what was committed when it started, waits   *)
(* for the row locks it needs and then checks its WHERE clause again on    *)
(* the row as it is now.  A single-statement operation is one action.  The *)
(* transaction of VerifyWhatsAppLinkCode is one action per statement; what *)
(* it wrote becomes visible when it commits.                               *)
(*                                                                         *)
(* A contact stands for its phone number: contact_jid is the number, and   *)
(* the rows of one account are unique per jid.  Messages are a code text   *)
(* (six digits) or any other text.  verification_attempts, which is copied *)
(* from the link code and only displayed, is left out.                     *)
(***************************************************************************)
EXTENDS Integers, FiniteSets, Sequences

CONSTANTS
  Users,      \* the Miaw users
  Owner,      \* the user that owns the central account
  NoUser,     \* a NULL linked_user_id or default_conversation_id
  Contacts,   \* the phone numbers that write to the central account
  Secrets,    \* the six-digit codes that randomNumericCode may return
  Chatter,    \* a text that is not six digits
  Handlers,   \* inbound messages handled at the same time
  MaxCodes,   \* bound on the link codes ever created
  Reports,    \* the account statuses that are set
  MaxCreating \* bound on the requests for a link code in flight

ASSUME LinkAssumption ==
  /\ Owner \in Users
  /\ NoUser \notin Users
  /\ Chatter \notin Secrets
  /\ MaxCodes \in Nat
  /\ MaxCreating \in Nat
  /\ Reports \subseteq {"connected", "disconnected", "revoked"}

VARIABLES
  account,    \* status of the central account
  contact,    \* whatsapp_contacts, by phone number
  codes,      \* whatsapp_link_codes, in order of created_at
  creating,   \* createWhatsAppLinkCode requests between their two statements
  req         \* the inbound handlers

vars == <<account, contact, codes, creating, req>>

Texts == Secrets \cup {Chatter}
MaxAttempts == 3

\* "pending_qr" is not told apart from "disconnected" by any code below.
AccountStatus == {"connected", "disconnected", "revoked"}

\* allow = "none": no row yet.  conv is the owner of default_conversation_id:
\* the conversation is unique per user and WhatsApp thread.
ContactRow ==
  [allow : {"none", "pending", "allowed", "blocked"},
   linked : Users \cup {NoUser},
   conv : Users \cup {NoUser}]

\* due = expires_at is in the past.
CodeRow ==
  [user : Users, phone : Contacts, secret : Secrets, attempts : 0..MaxAttempts,
   status : {"pending", "verified", "expired", "locked"}, due : BOOLEAN]

\* The codes that exist, older ones first.
Created == 1..Len(codes)

\* What an inbound handler holds between its statements.
Request ==
  [pc : {"idle"}]
  \cup [pc : {"verifying"}, contact : Contacts, text : Texts]
  \cup [pc : {"scanned"}, contact : Contacts, text : Texts, found : SUBSET (1..MaxCodes)]
  \cup [pc : {"missed"}, contact : Contacts, code : 1..MaxCodes, seen : 0..MaxAttempts]
  \cup [pc : {"matched"}, contact : Contacts, code : 1..MaxCodes]
  \cup [pc : {"unlinking", "linking"}, contact : Contacts, code : 1..MaxCodes,
        others : SUBSET Contacts]
  \cup [pc : {"checking"}, contact : Contacts, text : Texts, user : Users]
  \cup [pc : {"answering"}, contact : Contacts, user : Users]

Idle == [pc |-> "idle"]

Blank == [allow |-> "none", linked |-> NoUser, conv |-> NoUser]

Init ==
  /\ account = "disconnected"
  /\ contact = [c \in Contacts |-> Blank]
  /\ codes = <<>>
  /\ creating = {}
  /\ req = [h \in Handlers |-> Idle]

-----------------------------------------------------------------------------
(* Row locks, and the ways a contact row is rewritten.                     *)

\* Variant: a matching code is read without its lock.
HoldsCodeMissedOnly(h, k) == req[h].pc = "missed" /\ req[h].code = k

\* The row a verifying transaction took with SELECT ... FOR UPDATE.
HoldsCode(h, k) ==
  req[h].pc \in {"missed", "matched", "unlinking", "linking"} /\ req[h].code = k

\* The rows its UPDATE of the user's other contacts wrote.
HoldsContact(h, c) == req[h].pc = "linking" /\ c \in req[h].others

\* Variant: the SELECT has no FOR UPDATE.
CodeFreeUnlocked(k) == TRUE

CodeFree(k) == \A h \in Handlers : ~HoldsCode(h, k)
ContactFree(c) == \A h \in Handlers : ~HoldsContact(h, c)

\* Variant: blocking leaves the row linked.
BlockedStillLinked(row) == [row EXCEPT !.allow = "blocked"]

Blocked(row) == [row EXCEPT !.allow = "blocked", !.linked = NoUser, !.conv = NoUser]

Finish(h) == req' = [req EXCEPT ![h] = Idle]

-----------------------------------------------------------------------------
(* HandleWhatsAppInbound.                                                  *)

\* Variant: the allow list is enough to chat.
MayChatIfAllowed(row) == row.allow = "allowed"

MayChat(row) == row.allow = "allowed" /\ row.linked # NoUser

\* resolvedUserID of ResolveWhatsAppContact.
ResolvedUser(row) == IF row.linked # NoUser THEN row.linked ELSE Owner

\* ResolveWhatsAppContact, in one transaction: lock the account, insert the
\* contact or touch its row, read it.  A revoked account is not found.
Resolve(h, c, text) ==
  /\ req[h].pc = "idle"
  /\ account # "revoked"
  /\ ContactFree(c)
  /\ contact' = [contact EXCEPT ![c].allow = IF @ = "none" THEN "pending" ELSE @]
  /\ req' = [req EXCEPT ![h] =
               IF account # "connected" THEN Idle
               ELSE IF ~MayChat(contact'[c])
                    THEN [pc |-> "verifying", contact |-> c, text |-> text]
                    ELSE IF text \in Secrets
                    THEN [pc |-> "checking", contact |-> c, text |-> text,
                          user |-> ResolvedUser(contact'[c])]
                    ELSE [pc |-> "answering", contact |-> c,
                          user |-> ResolvedUser(contact'[c])]]
  /\ UNCHANGED <<account, codes, creating>>

\* WhatsAppLinkCodeBelongsToDifferentContact: the newest live code with this
\* text is another number's, so the message is ignored.
Foreign(c, text) ==
  LET live == {k \in Created : /\ codes[k].secret = text
                               /\ codes[k].status = "pending" /\ ~codes[k].due}
  IN \E k \in live : (\A i \in live : i <= k) /\ codes[k].phone # c

CheckCode(h) ==
  /\ req[h].pc = "checking"
  /\ req' = [req EXCEPT ![h] = IF Foreign(@.contact, @.text) THEN Idle
                               ELSE [pc |-> "answering", contact |-> @.contact,
                                     user |-> @.user]]
  /\ UNCHANGED <<account, contact, codes, creating>>

\* processWhatsAppMessage: the user's conversation of this thread becomes the
\* contact's; the reply follows.
Answer(h) ==
  /\ req[h].pc = "answering"
  /\ ContactFree(req[h].contact)
  /\ contact' = [contact EXCEPT ![req[h].contact].conv = req[h].user]
  /\ Finish(h)
  /\ UNCHANGED <<account, codes, creating>>

\* Settings, quota or database stop the message first.
AnswerFails(h) ==
  /\ req[h].pc = "answering"
  /\ Finish(h)
  /\ UNCHANGED <<account, contact, codes, creating>>

-----------------------------------------------------------------------------
(* VerifyWhatsAppLinkCode.                                                 *)

\* The SELECT ... FOR UPDATE starts: the pending codes of the number.
Scan(h) ==
  /\ req[h].pc = "verifying"
  /\ LET found == {k \in Created : codes[k].phone = req[h].contact /\ codes[k].status = "pending"}
     IN req' = [req EXCEPT ![h] =
                  IF found = {} THEN Idle
                  ELSE [pc |-> "scanned", contact |-> @.contact, text |-> @.text,
                        found |-> found]]
  /\ UNCHANGED <<account, contact, codes, creating>>

\* ORDER BY created_at DESC LIMIT 1: k is the newest code found.  Its row is
\* locked as soon as it is free, and taken only if it is still pending: else the
\* next older row is tried.
LockCode(h) ==
  /\ req[h].pc = "scanned"
  /\ \E k \in req[h].found :
       /\ \A i \in req[h].found : i <= k
       /\ CodeFree(k)
       /\ \/ /\ codes[k].status # "pending"
             /\ req' = [req EXCEPT ![h] =
                          IF @.found = {k} THEN Idle
                          ELSE [pc |-> "scanned", contact |-> @.contact,
                                text |-> @.text, found |-> @.found \ {k}]]
             /\ UNCHANGED codes
          \/ /\ codes[k].status = "pending"
             /\ codes[k].due
             /\ codes' = [codes EXCEPT ![k].status = "expired"]
             /\ Finish(h)
          \/ /\ codes[k].status = "pending"
             /\ ~codes[k].due
             /\ req' = [req EXCEPT ![h] =
                          IF @.text = codes[k].secret
                          THEN [pc |-> "matched", contact |-> @.contact, code |-> k]
                          ELSE [pc |-> "missed", contact |-> @.contact, code |-> k,
                                seen |-> codes[k].attempts]]
             /\ UNCHANGED codes
  /\ UNCHANGED <<account, contact, creating>>

\* A wrong code: one more attempt than the SELECT read, locked at the third.
\* verification_attempts of the contact row is written too, so it must be free.
Miss(h) ==
  /\ req[h].pc = "missed"
  /\ ContactFree(req[h].contact)
  /\ LET attempts == req[h].seen + 1
     IN codes' = [codes EXCEPT ![req[h].code] =
          [@ EXCEPT !.attempts = attempts,
                    !.status = IF attempts >= MaxAttempts THEN "locked" ELSE "pending"]]
  /\ Finish(h)
  /\ UNCHANGED <<account, contact, creating>>

\* Variant: the user's other contacts are not looked for.
FindOthersNone(h) ==
  /\ req[h].pc = "matched"
  /\ req' = [req EXCEPT ![h] = [pc |-> "unlinking", contact |-> @.contact,
                                code |-> @.code, others |-> {}]]
  /\ UNCHANGED <<account, contact, codes, creating>>

\* The UPDATE of the user's other contacts starts: the rows it sees.
FindOthers(h) ==
  /\ req[h].pc = "matched"
  /\ LET u == codes[req[h].code].user
         others == {c \in Contacts \ {req[h].contact} : contact[c].linked = u}
     IN req' = [req EXCEPT ![h] = [pc |-> "unlinking", contact |-> @.contact,
                                   code |-> @.code, others |-> others]]
  /\ UNCHANGED <<account, contact, codes, creating>>

\* It has their locks and keeps the rows that are still the user's.
UnlinkOthers(h) ==
  /\ req[h].pc = "unlinking"
  /\ \A c \in req[h].others : ContactFree(c)
  /\ LET u == codes[req[h].code].user
     IN req' = [req EXCEPT ![h] = [pc |-> "linking", contact |-> @.contact, code |-> @.code,
                                   others |-> {c \in @.others : contact[c].linked = u}]]
  /\ UNCHANGED <<account, contact, codes, creating>>

\* The last UPDATE has the lock of the contact's own row; then COMMIT.
Link(h) ==
  /\ req[h].pc = "linking"
  /\ ContactFree(req[h].contact)
  /\ LET k == req[h].code
     IN /\ codes' = [codes EXCEPT ![k].status = "verified"]
        /\ contact' = [c \in Contacts |->
             IF c = req[h].contact
             THEN [contact[c] EXCEPT !.linked = codes[k].user, !.allow = "allowed"]
             ELSE IF c \in req[h].others THEN Blocked(contact[c]) ELSE contact[c]]
  /\ Finish(h)
  /\ UNCHANGED <<account, creating>>

\* A statement fails, the context is cancelled or the database breaks a
\* deadlock: ROLLBACK.
Rollback(h) ==
  /\ req[h].pc \in {"verifying", "scanned", "missed", "matched", "unlinking", "linking"}
  /\ Finish(h)
  /\ UNCHANGED <<account, contact, codes, creating>>

-----------------------------------------------------------------------------
(* The users, the administrator, the runner and the clock.                 *)

\* CreateWhatsAppLinkCode: no number may be linked when it counts ...
StartCode(u, c) ==
  /\ \A d \in Contacts : ~(contact[d].linked = u /\ contact[d].allow = "allowed")
  /\ Cardinality(creating) < MaxCreating
  /\ creating' = creating \cup {<<u, c>>}
  /\ UNCHANGED <<account, contact, codes, req>>

\* ... and then it inserts, without looking again.
InsertCode(u, c, secret) ==
  /\ <<u, c>> \in creating
  /\ Len(codes) < MaxCodes
  /\ codes' = Append(codes, [user |-> u, phone |-> c, secret |-> secret, attempts |-> 0,
                             status |-> "pending", due |-> FALSE])
  /\ creating' = creating \ {<<u, c>>}
  /\ UNCHANGED <<account, contact, req>>

InsertCodeFails(u, c) ==
  /\ <<u, c>> \in creating
  /\ creating' = creating \ {<<u, c>>}
  /\ UNCHANGED <<account, contact, codes, req>>

RevokeLinked(u, c) ==
  /\ contact[c].linked = u
  /\ ContactFree(c)
  /\ contact' = [contact EXCEPT ![c] = Blocked(@)]
  /\ UNCHANGED <<account, codes, creating, req>>

AllowContact(c) ==
  /\ ContactFree(c)
  /\ contact' = [contact EXCEPT ![c].allow = "allowed"]
  /\ UNCHANGED <<account, codes, creating, req>>

RemoveAllowed(c) ==
  /\ contact[c].allow # "none"
  /\ ContactFree(c)
  /\ contact' = [contact EXCEPT ![c] = Blocked(@)]
  /\ UNCHANGED <<account, codes, creating, req>>

\* UpsertWhatsAppAccountStatus and RevokeWhatsAppAccount: a revoked account
\* never comes back.
SetStatus(status) ==
  /\ account # "revoked"
  /\ account' = status
  /\ UNCHANGED <<contact, codes, creating, req>>

\* Ten minutes after its creation: the oldest code is due first.
Due(k) ==
  /\ k \in Created /\ ~codes[k].due
  /\ \A i \in 1..(k - 1) : codes[i].due
  /\ codes' = [codes EXCEPT ![k].due = TRUE]
  /\ UNCHANGED <<account, contact, creating, req>>

-----------------------------------------------------------------------------

Handle(h) ==
  \/ \E c \in Contacts, text \in Texts : Resolve(h, c, text)
  \/ CheckCode(h) \/ Answer(h) \/ AnswerFails(h)
  \/ Scan(h) \/ LockCode(h) \/ Miss(h)
  \/ FindOthers(h) \/ UnlinkOthers(h) \/ Link(h) \/ Rollback(h)

UserRequest(u, c) ==
  \/ StartCode(u, c)
  \/ \E secret \in Secrets : InsertCode(u, c, secret)
  \/ InsertCodeFails(u, c)
  \/ RevokeLinked(u, c)

Next ==
  \/ \E h \in Handlers : Handle(h)
  \/ \E u \in Users, c \in Contacts : UserRequest(u, c)
  \/ \E c \in Contacts : AllowContact(c) \/ RemoveAllowed(c)
  \/ \E status \in Reports : SetStatus(status)
  \/ \E k \in 1..MaxCodes : Due(k)

Spec == Init /\ [][Next]_vars

-----------------------------------------------------------------------------
(* What linking promises.                                                  *)

\* The rows, and what the handlers remember of them, are well formed.
TypeOK ==
  /\ account \in AccountStatus
  /\ contact \in [Contacts -> ContactRow]
  /\ codes \in Seq(CodeRow)
  /\ Len(codes) <= MaxCodes
  /\ creating \subseteq Users \X Contacts
  /\ req \in [Handlers -> Request]

\* User u proved, with a code of his, that number c is his.
Proved(u, c) ==
  \E k \in Created : /\ codes[k].user = u /\ codes[k].phone = c
                     /\ codes[k].status = "verified"

\* README.md:81-86: "Unknown contacts must verify with a link code ... before they
\* can chat with AI" and messages are routed to the linked user.  A message is
\* answered with the memory of a user only if that user verified the number, and
\* so is every link and every conversation a contact row points to; neither the
\* allow list nor the fallback to the account's owner lets a number chat.
OnlyVerifiedNumbersChat ==
  /\ \A h \in Handlers : req[h].pc \in {"checking", "answering"} =>
                           Proved(req[h].user, req[h].contact)
  /\ \A c \in Contacts : \A u \in {contact[c].linked, contact[c].conv} \ {NoUser} :
                           Proved(u, c)

\* A linked number is an allowed one: ListLinkedWhatsAppContactsByUser and the
\* count in CreateWhatsAppLinkCode look for both, so a linked number that is not
\* allowed could be neither seen nor revoked in the app.
LinkedIsAllowed ==
  \A c \in Contacts : contact[c].linked # NoUser => contact[c].allow = "allowed"

\* Two messages of a number may be verified at once.  The row lock makes every
\* wrong code count (attempts never go back), the third one lock the code, and a
\* code that was verified, locked or expired stay so.
CodesOnlyAdvance ==
  [][\A k \in Created :
       /\ codes[k].status # "pending" => codes'[k].status = codes[k].status
       /\ codes'[k].attempts >= codes[k].attempts
       /\ codes'[k].attempts = MaxAttempts <=> codes'[k].status = "locked"]_codes

\* A number gets a user exactly when a pending code of that user for that number
\* is spent, and each link spends a code of its own.
LinkSpendsCode ==
  [][/\ \A c \in Contacts :
          contact'[c].linked \notin {contact[c].linked, NoUser} =>
            \E k \in Created :
               /\ codes[k].status = "pending" /\ codes'[k].status = "verified"
               /\ codes[k].phone = c /\ codes[k].user = contact'[c].linked
     /\ \A k \in Created :
          codes[k].status # "verified" /\ codes'[k].status = "verified" =>
            contact'[codes[k].phone].linked = codes[k].user]_vars

\* "only one WhatsApp number can be linked; revoke the current number first"
\* (whatsapp_store.go:596), and VerifyWhatsAppLinkCode blocks the other numbers
\* of the user it links.
OneNumberPerUser ==
  \A c, d \in Contacts :
    contact[c].linked # NoUser /\ contact[c].linked = contact[d].linked => c = d

\* What the two statements amount to: LinkRegistry, where a number changes hands
\* in one step.
Registry == INSTANCE LinkRegistry WITH linked <- [c \in Contacts |-> contact[c].linked]
RefinesRegistry == Registry!Spec

-----------------------------------------------------------------------------
(* The inductive invariant behind them: the row locks work.                *)

\* A code row is held by one transaction at a time.
ExclusiveCodes ==
  \A h1, h2 \in Handlers : \A k \in 1..MaxCodes :
    HoldsCode(h1, k) /\ HoldsCode(h2, k) => h1 = h2

\* While it is held, it is the row that was read: pending, for this number, and
\* with the attempts the transaction will add to.
HeldCodesAreCurrent ==
  \A h \in Handlers : \A k \in 1..MaxCodes : HoldsCode(h, k) =>
    /\ k \in Created
    /\ codes[k].status = "pending"
    /\ codes[k].phone = req[h].contact
    /\ req[h].pc = "missed" => req[h].seen = codes[k].attempts

\* What a SELECT found are codes for the number that wrote.
FoundCodesMatch ==
  \A h \in Handlers : req[h].pc = "scanned" =>
    /\ req[h].found # {}
    /\ \A k \in req[h].found : k \in Created /\ codes[k].phone = req[h].contact

\* The third wrong attempt is the lock.
LockedAtThree ==
  \A k \in Created : codes[k].attempts = MaxAttempts <=> codes[k].status = "locked"

IInv ==
  /\ TypeOK
  /\ ExclusiveCodes
  /\ HeldCodesAreCurrent
  /\ FoundCodesMatch
  /\ LockedAtThree

=============================================================================
