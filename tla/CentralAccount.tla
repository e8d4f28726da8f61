---------------------------- MODULE CentralAccount ----------------------------
(***************************************************************************)
(* Which account of whatsapp_accounts the admin pages edit, and which one  *)
(* the runner answers for.  Both ask GetOrCreateCentralWhatsAppAccount: a  *)
(* SELECT of the central account of an owner that changed last, and, if    *)
(* there is none, an INSERT and an UPDATE of the policy, each a statement  *)
(* of its own.  The runner asks for WHATSAPP_OWNER_USER_ID when it starts  *)
(* and keeps the answer; a page asks for the admin who is signed in.       *)
(*                                                                         *)
(* WhatsAppLink has the list of one account, WhatsAppRunner its status;    *)
(* the policy of a central account decides nothing, whatever it is set to. *)
(***************************************************************************)
EXTENDS Integers, Sequences, SequencesExt

CONSTANTS
  Pages,           \* requests, and starts of the runner
  Admins,
  RunnerOwner,     \* WHATSAPP_OWNER_USER_ID
  Accounts,        \* ids
  NoAccount,       \* and no page
  MaxPageSlips     \* bound on failing statements and hang-ups

ASSUME CentralAssumption ==
  /\ RunnerOwner \in Admins
  /\ NoAccount \notin Accounts \cup Pages
  /\ MaxPageSlips \in Nat

VARIABLES
  accounts,
  changed,    \* ORDER BY updated_at: the accounts, the one that changed last in front
  served,     \* r.account
  pages,
  pageSlips

centralVars == <<accounts, changed, served, pages, pageSlips>>

Account ==
  [is : {"none", "open", "revoked"}, owner : Admins, by : Pages \cup {NoAccount}]

\* of: the account it was given; before: the pages that were over when it began; missed: it
\* edited another account than the one the runner answers for.
Page ==
  [pc : {"new", "insert", "policy", "use", "done"}, kind : {"start", "edit", "show"},
   owner : Admins, of : Accounts \cup {NoAccount}, before : SUBSET Pages, missed : BOOLEAN,
   out : {"none", "ok", "failed"}]

CentralInit ==
  /\ accounts = [a \in Accounts |->
       [is |-> "none", owner |-> RunnerOwner, by |-> NoAccount]]
  /\ changed = <<>>
  /\ served = NoAccount
  /\ pages = [p \in Pages |->
       [pc |-> "new", kind |-> "show", owner |-> RunnerOwner, of |-> NoAccount, before |-> {},
        missed |-> FALSE, out |-> "none"]]
  /\ pageSlips = 0

Open(a) == a \in Accounts /\ accounts[a].is = "open"
Touched(a) == Cons(a, RemoveFirst(changed, a))
PageEnds(p, out) == pages' = [pages EXCEPT ![p].pc = "done", ![p].out = out]

-----------------------------------------------------------------------------
(* GetOrCreateCentralWhatsAppAccount.                                      *)

\* Variant: whoever it belongs to.
CentralOfAnyone(o) ==
  LET i == SelectInSeq(changed, Open)
  IN IF i = 0 THEN NoAccount ELSE changed[i]

\* SELECT ... status <> 'revoked' ORDER BY updated_at DESC LIMIT 1.
Central(o) ==
  LET i == SelectInSeq(changed, LAMBDA a : Open(a) /\ accounts[a].owner = o)
  IN IF i = 0 THEN NoAccount ELSE changed[i]

PageBegins(p, kind, o) ==
  /\ pages[p].pc = "new"
  /\ pages' = [pages EXCEPT ![p] =
       [pc |-> IF Central(o) = NoAccount THEN "insert" ELSE "use", kind |-> kind, owner |-> o,
        of |-> Central(o), before |-> {q \in Pages : pages[q].pc = "done"}, missed |-> FALSE,
        out |-> "none"]]
  /\ UNCHANGED <<accounts, changed, served, pageSlips>>

\* The pages of the allow list, and createWhatsAppAccount, for the admin who is signed in.
EditList(p, o) == PageBegins(p, "edit", o)

\* The list of accounts as other users see it, which ends with the runner's.
ShowAccounts(p) == PageBegins(p, "show", RunnerOwner)

\* Runner.Start, in a process that has just begun.
StartRunner(p) == served = NoAccount /\ PageBegins(p, "start", RunnerOwner)

\* CreateWhatsAppAccount.
Insert(p) ==
  /\ pages[p].pc = "insert"
  /\ \E a \in Accounts :
       /\ accounts[a].is = "none"
       /\ accounts' = [accounts EXCEPT ![a] =
            [is |-> "open", owner |-> pages[p].owner, by |-> p]]
       /\ changed' = Touched(a)
       /\ pages' = [pages EXCEPT ![p].pc = "policy", ![p].of = a]
  /\ UNCHANGED <<served, pageSlips>>

\* UpdateWhatsAppAccountPolicy, which finds no account that was revoked since.
SetPolicy(p) ==
  /\ pages[p].pc = "policy"
  /\ IF Open(pages[p].of)
     THEN changed' = Touched(pages[p].of) /\ pages' = [pages EXCEPT ![p].pc = "use"]
     ELSE PageEnds(p, "failed") /\ UNCHANGED changed
  /\ UNCHANGED <<accounts, served, pageSlips>>

\* What it was asked for: Start keeps the account, the pages edit its list.  Neither looks
\* whether it was revoked since.
UsePage(p) ==
  /\ pages[p].pc = "use"
  /\ LET a == pages[p].of IN
       /\ pages' = [pages EXCEPT ![p].pc = "done", ![p].out = "ok",
            ![p].missed = pages[p].kind = "edit" /\ Open(served) /\ served # a]
       /\ served' = IF pages[p].kind = "start" THEN a ELSE served
  /\ UNCHANGED <<accounts, changed, pageSlips>>

-----------------------------------------------------------------------------
(* The account itself.                                                     *)

\* UpsertWhatsAppAccountStatus, for what the runner reports.
Report ==
  /\ Open(served) /\ changed' = Touched(served)
  /\ UNCHANGED <<accounts, served, pages, pageSlips>>

\* PATCH of an account, by its owner.
UpdatePolicy(a) ==
  /\ Open(a) /\ changed' = Touched(a)
  /\ UNCHANGED <<accounts, served, pages, pageSlips>>

\* RevokeWhatsAppAccount, by its owner.
Revoke(a) ==
  /\ Open(a)
  /\ accounts' = [accounts EXCEPT ![a].is = "revoked"]
  /\ changed' = Touched(a)
  /\ UNCHANGED <<served, pages, pageSlips>>

\* The process ends, and with it its runner and its requests, and begins again.
Restart ==
  /\ pageSlips < MaxPageSlips /\ pageSlips' = pageSlips + 1
  /\ served' = NoAccount
  /\ pages' = [p \in Pages |->
       IF pages[p].pc \in {"new", "done"} THEN pages[p]
       ELSE [pages[p] EXCEPT !.pc = "done", !.out = "failed"]]
  /\ UNCHANGED <<accounts, changed>>

PageFails(p) ==
  /\ pages[p].pc \notin {"new", "done"}
  /\ pageSlips < MaxPageSlips /\ pageSlips' = pageSlips + 1
  /\ PageEnds(p, "failed")
  /\ UNCHANGED <<accounts, changed, served>>

CentralNext ==
  \/ \E p \in Pages :
       \/ \E o \in Admins : EditList(p, o)
       \/ ShowAccounts(p) \/ StartRunner(p)
       \/ Insert(p) \/ SetPolicy(p) \/ UsePage(p) \/ PageFails(p)
  \/ \E a \in Accounts : UpdatePolicy(a) \/ Revoke(a)
  \/ Report \/ Restart

CentralSpec == CentralInit /\ [][CentralNext]_centralVars

-----------------------------------------------------------------------------

PagesOverlap(p, q) == p # q /\ p \notin pages[q].before /\ q \notin pages[p].before

\* Two accounts of one owner are open.
Doubled(o) ==
  \E a, b \in Accounts : /\ a # b /\ accounts[a].is # "none" /\ accounts[b].is # "none"
                         /\ accounts[a].owner = o /\ accounts[b].owner = o
                         /\ PagesOverlap(accounts[a].by, accounts[b].by)

\* What an admin does to the allow list is done to the account the runner answers for,
\* if the admin is the one the runner belongs to and no two requests have made it.
ListsReachRunner ==
  \A p \in Pages :
    pages[p].missed =>
      \/ pages[p].owner # RunnerOwner
      \/ Doubled(RunnerOwner)
      \/ accounts[pages[p].of].is = "revoked"

CentralOK ==
  /\ accounts \in [Accounts -> Account]
  /\ changed \in Seq(Accounts)
  /\ served \in Accounts \cup {NoAccount}
  /\ pages \in [Pages -> Page]
  /\ pageSlips \in 0..MaxPageSlips

\* An owner has two open accounts only if the requests that made them overlapped.
OneCentralEach ==
  \A a, b \in Accounts :
    a # b /\ Open(a) /\ Open(b) /\ accounts[a].owner = accounts[b].owner =>
      PagesOverlap(accounts[a].by, accounts[b].by)

CentralInv == CentralOK /\ OneCentralEach

=============================================================================
