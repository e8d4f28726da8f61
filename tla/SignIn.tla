------------------------------- MODULE SignIn -------------------------------
(***************************************************************************)
(* Accounts: users, their sign-ins at providers (oauth_accounts), their    *)
(* passwords, and the codes with which the desktop application fetches a   *)
(* token for the user who signed in at the browser.                        *)
(*                                                                         *)
(* Signing in at a provider, registering and exchanging a code are         *)
(* transactions of several statements at READ COMMITTED.  What one has     *)
(* written nobody sees until it commits, so here it is done at the commit; *)
(* who wants to write the same key or row waits for that, and then finds   *)
(* it there.  Reading waits for nobody.                                    *)
(*                                                                         *)
(* An identity is what FindOrCreateOAuthUser is given: a provider and an   *)
(* id there, or a development account.  The email that comes with it may   *)
(* differ from one time to the next (GitHub tells the public one, or one   *)
(* made of the login).  Names and avatars are left out; a session is       *)
(* signed and kept by the client, and here it is the answer of an attempt. *)
(***************************************************************************)
EXTENDS Integers, FiniteSets

CONSTANTS
  Attempts,
  Identities,
  Emails,
  UserIds,
  Codes,
  Nobody,       \* no user, identity, email or code
  MaxSignSlips  \* bound on failing statements, hang-ups and lost answers

ASSUME SignInAssumption ==
  /\ Nobody \notin UserIds \cup Identities \cup Emails \cup Codes
  /\ MaxSignSlips \in Nat

VARIABLES
  emailOf,    \* users: the email of each, Nobody for an id that is not used
  accountOf,  \* oauth_accounts: the user of each identity
  passwords,  \* password_accounts: the users that have one
  codes,      \* desktop_auth_codes
  attempts,
  signSlips

signInVars == <<emailOf, accountOf, passwords, codes, attempts, signSlips>>

AtProvider == {"site", "desktop"}
Code == [is : {"none", "fresh", "expired", "used"}, user : UserIds \cup {Nobody}]

\* user: whom the attempt is about; fresh: it has inserted that user; before: the attempts
\* that were over when it began.
Attempt ==
  [pc : {"new", "account", "email", "insert", "link", "commit", "issue", "done"},
   kind : AtProvider \cup {"register", "ensure", "password", "exchange"},
   id : Identities \cup {Nobody}, email : Emails \cup {Nobody}, user : UserIds \cup {Nobody},
   fresh : BOOLEAN, code : Codes \cup {Nobody}, before : SUBSET Attempts,
   out : {"none", "ok", "lost", "failed"}]

SignInInit ==
  /\ emailOf = [u \in UserIds |-> Nobody]
  /\ accountOf = [i \in Identities |-> Nobody]
  /\ passwords = {}
  /\ codes = [c \in Codes |-> [is |-> "none", user |-> Nobody]]
  /\ attempts = [a \in Attempts |->
       [pc |-> "new", kind |-> "site", id |-> Nobody, email |-> Nobody, user |-> Nobody,
        fresh |-> FALSE, code |-> Nobody, before |-> {}, out |-> "none"]]
  /\ signSlips = 0

SignSlip == signSlips < MaxSignSlips /\ signSlips' = signSlips + 1
Inserting(a) == attempts[a].fresh /\ attempts[a].pc \in {"link", "commit"}
EmailLocked(e) == \E a \in Attempts : Inserting(a) /\ attempts[a].email = e
IdentityLocked(i) == \E a \in Attempts : attempts[a].pc = "commit" /\ attempts[a].id = i
CodeLocked(c) == \E a \in Attempts : attempts[a].pc = "commit" /\ attempts[a].code = c
UsersOf(e) == {u \in UserIds : emailOf[u] = e}

AttemptGoes(a, pc) == attempts' = [attempts EXCEPT ![a].pc = pc]
AttemptEnds(a, out) ==
  attempts' = [attempts EXCEPT ![a].pc = "done", ![a].out = out, ![a].fresh = FALSE]
Tried(kind, pc) ==
  [pc |-> pc, kind |-> kind, id |-> Nobody, email |-> Nobody, user |-> Nobody, fresh |-> FALSE,
   code |-> Nobody, before |-> {q \in Attempts : attempts[q].pc = "done"}, out |-> "none"]

-----------------------------------------------------------------------------
(* At a provider: FindOrCreateOAuthUser.                                   *)

\* The provider has told who it is (external).
SignInAt(a, kind, i, e) ==
  /\ attempts[a].pc = "new"
  /\ attempts' = [attempts EXCEPT ![a] =
       [Tried(kind, "account") EXCEPT !.id = i, !.email = e]]
  /\ UNCHANGED <<emailOf, accountOf, passwords, codes, signSlips>>

\* Variant: whoever has the email is the one.
FindByEmail(a) ==
  /\ attempts[a].pc = "account"
  /\ AttemptGoes(a, "email")
  /\ UNCHANGED <<emailOf, accountOf, passwords, codes, signSlips>>

\* A known identity has nothing to insert; its name is updated.
FindAccount(a) ==
  /\ attempts[a].pc = "account"
  /\ LET u == accountOf[attempts[a].id] IN
       IF u # Nobody
       THEN attempts' = [attempts EXCEPT ![a].pc = "commit", ![a].user = u]
       ELSE AttemptGoes(a, "email")
  /\ UNCHANGED <<emailOf, accountOf, passwords, codes, signSlips>>

Register(a, e) ==
  /\ attempts[a].pc = "new"
  /\ attempts' = [attempts EXCEPT ![a] = [Tried("register", "email") EXCEPT !.email = e]]
  /\ UNCHANGED <<emailOf, accountOf, passwords, codes, signSlips>>

\* The administrator's account, at the start of a process.
Ensure(a, e) ==
  /\ attempts[a].pc = "new"
  /\ attempts' = [attempts EXCEPT ![a] = [Tried("ensure", "email") EXCEPT !.email = e]]
  /\ UNCHANGED <<emailOf, accountOf, passwords, codes, signSlips>>

AfterUser(a) == IF attempts[a].kind \in AtProvider THEN "link" ELSE "commit"

\* SELECT id FROM users WHERE email: an email that is taken cannot be registered.
FindUser(a) ==
  /\ attempts[a].pc = "email"
  /\ LET found == UsersOf(attempts[a].email) IN
       IF found = {} THEN AttemptGoes(a, "insert")
       ELSE IF attempts[a].kind = "register" THEN AttemptEnds(a, "failed")
       ELSE \E u \in found :
              attempts' = [attempts EXCEPT ![a].pc = AfterUser(a), ![a].user = u]
  /\ UNCHANGED <<emailOf, accountOf, passwords, codes, signSlips>>

\* INSERT INTO users: email is unique, whoever inserts it second fails.
InsertUser(a) ==
  /\ attempts[a].pc = "insert" /\ ~EmailLocked(attempts[a].email)
  /\ IF UsersOf(attempts[a].email) # {} THEN AttemptEnds(a, "failed")
     ELSE \E u \in UserIds :
            /\ emailOf[u] = Nobody /\ \A q \in Attempts : attempts[q].user # u
            /\ attempts' = [attempts EXCEPT
                 ![a].pc = AfterUser(a), ![a].user = u, ![a].fresh = TRUE]
  /\ UNCHANGED <<emailOf, accountOf, passwords, codes, signSlips>>

\* INSERT INTO oauth_accounts: an identity that is there by now keeps its user.
Link(a) ==
  /\ attempts[a].pc = "link" /\ ~IdentityLocked(attempts[a].id)
  /\ AttemptGoes(a, "commit")
  /\ UNCHANGED <<emailOf, accountOf, passwords, codes, signSlips>>

-----------------------------------------------------------------------------

\* FindPasswordAccountByEmail.
LogIn(a, u) ==
  /\ attempts[a].pc = "new" /\ u \in passwords
  /\ attempts' = [attempts EXCEPT ![a] =
       [Tried("password", "done") EXCEPT !.email = emailOf[u], !.user = u, !.out = "ok"]]
  /\ UNCHANGED <<emailOf, accountOf, passwords, codes, signSlips>>

\* Variant: a code is good until it expires.
ConsumeAgain(a, c) ==
  /\ attempts[a].pc = "new" /\ codes[c].is \in {"fresh", "used"} /\ ~CodeLocked(c)
  /\ attempts' = [attempts EXCEPT ![a] =
       [Tried("exchange", "commit") EXCEPT !.code = c, !.user = codes[c].user]]
  /\ UNCHANGED <<emailOf, accountOf, passwords, codes, signSlips>>

\* ConsumeDesktopAuthCode: one guarded UPDATE, and the user.
Consume(a, c) ==
  /\ attempts[a].pc = "new" /\ codes[c].is = "fresh" /\ ~CodeLocked(c)
  /\ attempts' = [attempts EXCEPT ![a] =
       [Tried("exchange", "commit") EXCEPT !.code = c, !.user = codes[c].user]]
  /\ UNCHANGED <<emailOf, accountOf, passwords, codes, signSlips>>

ExpireCode(c) ==
  /\ codes[c].is = "fresh"
  /\ codes' = [codes EXCEPT ![c].is = "expired"]
  /\ UNCHANGED <<emailOf, accountOf, passwords, attempts, signSlips>>

\* What the transaction of a has written.
Written(a) ==
  LET q == attempts[a] IN
    /\ emailOf' = IF q.fresh THEN [emailOf EXCEPT ![q.user] = q.email] ELSE emailOf
    /\ accountOf' = IF q.kind \in AtProvider /\ accountOf[q.id] = Nobody
                    THEN [accountOf EXCEPT ![q.id] = q.user] ELSE accountOf
    /\ passwords' = IF q.kind \in {"register", "ensure"} THEN passwords \cup {q.user}
                    ELSE passwords
    /\ codes' = IF q.kind = "exchange" THEN [codes EXCEPT ![q.code].is = "used"] ELSE codes

CommitSignIn(a) ==
  /\ attempts[a].pc = "commit"
  /\ Written(a)
  /\ IF attempts[a].kind = "desktop"
     THEN attempts' = [attempts EXCEPT ![a].pc = "issue", ![a].fresh = FALSE]
     ELSE AttemptEnds(a, "ok")
  /\ UNCHANGED signSlips

\* The client is gone when the answer comes, or the connection when COMMIT is answered.
CommitLost(a) ==
  /\ attempts[a].pc = "commit" /\ SignSlip
  /\ Written(a)
  /\ AttemptEnds(a, "lost")

\* CreateDesktopAuthCode, a statement of its own.
Issue(a, c) ==
  /\ attempts[a].pc = "issue" /\ codes[c].is = "none"
  /\ codes' = [codes EXCEPT ![c] = [is |-> "fresh", user |-> attempts[a].user]]
  /\ attempts' = [attempts EXCEPT ![a].pc = "done", ![a].out = "ok", ![a].code = c]
  /\ UNCHANGED <<emailOf, accountOf, passwords, signSlips>>

SignInFails(a) ==
  /\ attempts[a].pc \notin {"new", "done"} /\ SignSlip
  /\ AttemptEnds(a, "failed")
  /\ UNCHANGED <<emailOf, accountOf, passwords, codes>>

SignInBegins(a) ==
  \/ \E e \in Emails :
       \/ \E kind \in AtProvider, i \in Identities : SignInAt(a, kind, i, e)
       \/ Register(a, e) \/ Ensure(a, e)
  \/ \E u \in UserIds : LogIn(a, u)
  \/ \E c \in Codes : Consume(a, c)
SignInSteps(a) ==
  \/ FindAccount(a) \/ FindUser(a) \/ InsertUser(a) \/ Link(a) \/ CommitSignIn(a) \/ CommitLost(a)
  \/ SignInFails(a) \/ \E c \in Codes : Issue(a, c)
SignInNext ==
  \/ \E a \in Attempts : SignInBegins(a) \/ SignInSteps(a)
  \/ \E c \in Codes : ExpireCode(c)

SignInSpec == SignInInit /\ [][SignInNext]_signInVars

-----------------------------------------------------------------------------

AttemptsOverlap(p, q) ==
  p # q /\ p \notin attempts[q].before /\ q \notin attempts[p].before
SignedIn(a) == attempts[a].kind \in AtProvider /\ attempts[a].out = "ok"

\* Whoever signs in at a provider gets the account the identity has, and keeps getting
\* it, unless two of its sign-ins overlapped with different emails.
SameAccount ==
  \A a \in Attempts :
    SignedIn(a) =>
      \/ attempts[a].user = accountOf[attempts[a].id]
      \/ \E q \in Attempts :
           /\ AttemptsOverlap(a, q)
           /\ attempts[q].kind \in AtProvider /\ attempts[q].id = attempts[a].id
           /\ attempts[q].email # attempts[a].email

\* A desktop code gives one token, of the user who signed in for it.
CodesBuyOnce ==
  \A a \in Attempts :
    attempts[a].kind = "exchange" /\ attempts[a].out = "ok" =>
      /\ \A q \in Attempts :
           attempts[q].kind = "exchange" /\ attempts[q].out = "ok"
             /\ attempts[q].code = attempts[a].code => q = a
      /\ \E q \in Attempts : SignedIn(q) /\ attempts[q].code = attempts[a].code
                             /\ attempts[q].user = attempts[a].user

SignInOK ==
  /\ emailOf \in [UserIds -> Emails \cup {Nobody}]
  /\ accountOf \in [Identities -> UserIds \cup {Nobody}]
  /\ passwords \subseteq UserIds
  /\ codes \in [Codes -> Code]
  /\ attempts \in [Attempts -> Attempt]
  /\ signSlips \in 0..MaxSignSlips

\* An email has one user, and what accounts, passwords and codes name are users.
UsersAreWhole ==
  /\ \A u, v \in UserIds : emailOf[u] = emailOf[v] /\ u # v => emailOf[u] = Nobody
  /\ \A u \in UserIds :
       emailOf[u] = Nobody =>
         /\ u \notin passwords
         /\ \A i \in Identities : accountOf[i] # u
         /\ \A c \in Codes : codes[c].user # u

-----------------------------------------------------------------------------
(* The inductive invariant behind SameAccount and UsersAreWhole.           *)

\* What is true of an attempt wherever it is.
AttemptPlaced(q) ==
  /\ q.pc = "new" => q.id = Nobody
  /\ q.pc # "new" /\ q.kind \in AtProvider => q.id \in Identities
  /\ q.pc # "new" /\ q.kind \notin {"password", "exchange"} => q.email \in Emails
  /\ q.pc \in {"account", "link", "issue"} => q.kind \in AtProvider
  /\ q.pc \in {"email", "insert"} => q.kind \notin {"password", "exchange"}
  /\ q.kind = "password" => q.pc = "done"
  /\ q.pc \in {"link", "commit", "issue"} => q.user \in UserIds
  /\ q.fresh => q.pc \in {"link", "commit"} /\ q.kind \notin {"password", "exchange"}
  /\ q.pc # "done" => q.out = "none"

\* A transaction that inserts a user has its email and its id alone; any other has found
\* the user by the email, or by the identity.
UsersAreFound ==
  \A a \in Attempts :
    /\ Inserting(a) =>
         /\ UsersOf(attempts[a].email) = {} /\ emailOf[attempts[a].user] = Nobody
         /\ \A b \in Attempts \ {a} :
              Inserting(b) => /\ attempts[b].email # attempts[a].email
                              /\ attempts[b].user # attempts[a].user
    /\ attempts[a].pc \in {"link", "commit"} /\ ~attempts[a].fresh =>
         \/ attempts[a].kind = "exchange"
         \/ emailOf[attempts[a].user] = attempts[a].email
         \/ attempts[a].kind \in AtProvider /\ accountOf[attempts[a].id] = attempts[a].user
    /\ attempts[a].pc = "issue" => emailOf[attempts[a].user] # Nobody

\* The attempt that made the account of i, and those that found it there.
MakesAccount(q, i) ==
  /\ attempts[q].kind \in AtProvider /\ attempts[q].id = i
  /\ attempts[q].pc \in {"issue", "done"} /\ attempts[q].user = accountOf[i]
  /\ emailOf[accountOf[i]] = attempts[q].email
  /\ \A a \in Attempts :
       attempts[a].kind \in AtProvider /\ attempts[a].id = i /\ q \in attempts[a].before =>
         \/ attempts[a].pc = "account" \/ attempts[a].out = "failed"
         \/ attempts[a].pc \in {"commit", "issue", "done"} /\ attempts[a].user = accountOf[i]

Differs(a) ==
  \E q \in Attempts :
    /\ AttemptsOverlap(a, q)
    /\ attempts[q].kind \in AtProvider /\ attempts[q].id = attempts[a].id
    /\ attempts[q].email # attempts[a].email

AccountsStay ==
  /\ \A a \in Attempts : \A q \in attempts[a].before : attempts[q].pc = "done"
  /\ \A i \in Identities : accountOf[i] # Nobody => \E q \in Attempts : MakesAccount(q, i)
  /\ \A a \in Attempts :
       attempts[a].kind \in AtProvider
         /\ (attempts[a].pc = "issue" \/ attempts[a].out \in {"ok", "lost"}) =>
           /\ accountOf[attempts[a].id] # Nobody
           /\ attempts[a].user = accountOf[attempts[a].id] \/ Differs(a)

AccountInv ==
  /\ SignInOK /\ UsersAreWhole
  /\ \A a \in Attempts : AttemptPlaced(attempts[a])
  /\ UsersAreFound /\ AccountsStay

=============================================================================
