---------------------------- MODULE SignIn_proofs ----------------------------
(***************************************************************************)
(* Theorems about SignIn, for any number of attempts, identities, users    *)
(* and codes and any number of failures.                                   *)
(***************************************************************************)
EXTENDS SignIn, TLAPS

\* What is true of an attempt wherever it is.
Placed(q) ==
  /\ q.pc \in {"link", "commit", "issue"} => q.user \in UserIds
  /\ q.pc = "account" => q.id \in Identities
  /\ q.pc = "issue" => q.kind = "desktop"
  /\ q.kind = "exchange" => q.code \in Codes /\ q.pc \in {"commit", "done"}
  /\ q.pc # "done" => q.out = "none"

Spends(q) == q.kind = "exchange" /\ (q.pc = "commit" \/ q.out \in {"ok", "lost"})

\* A code that there is was given to somebody who signed in for it.
CodesAreGiven ==
  \A c \in Codes :
    codes[c].is # "none" =>
      /\ codes[c].user \in UserIds
      /\ \E q \in Attempts :
           SignedIn(q) /\ attempts[q].code = c /\ attempts[q].user = codes[c].user

\* An attempt that spends a code has it alone, until it is used and afterwards.
SpentAlone ==
  \A a \in Attempts :
    Spends(attempts[a]) =>
      /\ codes[attempts[a].code].is \in {"fresh", "expired", "used"}
      /\ attempts[a].user = codes[attempts[a].code].user
      /\ attempts[a].pc = "done" <=> codes[attempts[a].code].is = "used"
      /\ \A b \in Attempts :
           Spends(attempts[b]) /\ attempts[b].code = attempts[a].code => a = b

SignInInv ==
  /\ SignInOK
  /\ \A a \in Attempts : Placed(attempts[a])
  /\ CodesAreGiven /\ SpentAlone

-----------------------------------------------------------------------------

LEMMA InitSignInInv == SignInInit => SignInInv
BY SignInAssumption
   DEF SignInInit, SignInInv, SignInOK, Placed, CodesAreGiven, SpentAlone, Spends, Attempt, Code,
       AtProvider

\* An attempt begins.
LEMMA TriedIsAttempt ==
  ASSUME NEW kind \in AtProvider \cup {"register", "ensure", "password", "exchange"},
         NEW pc \in {"account", "email", "commit", "done"}
  PROVE  /\ Tried(kind, pc) \in Attempt
         /\ Tried(kind, pc).kind = kind /\ Tried(kind, pc).pc = pc /\ Tried(kind, pc).out = "none"
BY DEF Tried, Attempt

\* An attempt that is not over moves, and spends no code.
LEMMA MovesKeep ==
  ASSUME SignInInv, NEW a \in Attempts, NEW q \in Attempt,
         attempts[a].pc # "done", attempts' = [attempts EXCEPT ![a] = q],
         Placed(q), ~Spends(q), codes' = codes,
         emailOf' \in [UserIds -> Emails \cup {Nobody}],
         accountOf' \in [Identities -> UserIds \cup {Nobody}],
         passwords' \subseteq UserIds, signSlips' \in 0..MaxSignSlips
  PROVE  SignInInv'
<1>1. attempts \in [Attempts -> Attempt] /\ attempts[a].out = "none"
  BY DEF SignInInv, SignInOK, Placed
<1>2. attempts'[a] = q /\ \A b \in Attempts \ {a} : attempts'[b] = attempts[b]
  BY <1>1
<1>3. SignInOK'
  BY <1>1 DEF SignInInv, SignInOK
<1>4. \A b \in Attempts : Placed(attempts'[b])
  BY <1>2 DEF SignInInv
<1>5. CodesAreGiven'
  <2> SUFFICES ASSUME NEW c \in Codes, codes[c].is # "none"
      PROVE /\ codes[c].user \in UserIds
            /\ \E p \in Attempts :
                 SignedIn(p)' /\ attempts'[p].code = c /\ attempts'[p].user = codes[c].user
    BY DEF CodesAreGiven
  <2>1. PICK p \in Attempts :
          SignedIn(p) /\ attempts[p].code = c /\ attempts[p].user = codes[c].user
    BY DEF SignInInv, CodesAreGiven
  <2>2. p # a
    BY <2>1, <1>1 DEF SignedIn
  <2>3. attempts'[p] = attempts[p] /\ SignedIn(p)'
    BY <2>1, <2>2, <1>2 DEF SignedIn
  <2> QED BY <2>1, <2>3 DEF SignInInv, CodesAreGiven
<1>6. \A b \in Attempts : Spends(attempts'[b]) => attempts'[b] = attempts[b]
  BY <1>2
<1>7. SpentAlone'
  BY <1>6 DEF SignInInv, SpentAlone
<1> QED BY <1>3, <1>4, <1>5, <1>7 DEF SignInInv

\* An attempt takes a code that is fresh and that nobody else is about to use.
LEMMA ConsumeKeeps ==
  ASSUME SignInInv, NEW a \in Attempts, NEW c \in Codes, Consume(a, c)
  PROVE  SignInInv'
<1> DEFINE q == [Tried("exchange", "commit") EXCEPT !.code = c, !.user = codes[c].user]
<1>1. /\ SignInOK /\ attempts \in [Attempts -> Attempt] /\ attempts[a].out = "none"
      /\ attempts[a].pc = "new" /\ codes[c].is = "fresh" /\ codes[c].user \in UserIds
      /\ attempts' = [attempts EXCEPT ![a] = q]
      /\ UNCHANGED <<emailOf, accountOf, passwords, codes, signSlips>>
  BY DEF SignInInv, SignInOK, Placed, Consume, CodesAreGiven
<1>2. /\ q \in Attempt /\ q.kind = "exchange" /\ q.pc = "commit" /\ q.code = c
      /\ q.user = codes[c].user /\ q.out = "none"
  BY ZenonT(60), <1>1, TriedIsAttempt DEF Attempt, Tried
<1> HIDE DEF q
<1>3. attempts'[a] = q /\ \A b \in Attempts \ {a} : attempts'[b] = attempts[b]
  BY <1>1
<1>4. SignInOK'
  BY <1>1, <1>2 DEF SignInOK
<1>5. \A b \in Attempts : Placed(attempts'[b])
  BY <1>1, <1>2, <1>3 DEF SignInInv, Placed
<1>6. CodesAreGiven'
  <2> SUFFICES ASSUME NEW d \in Codes, codes[d].is # "none"
      PROVE /\ codes[d].user \in UserIds
            /\ \E p \in Attempts :
                 SignedIn(p)' /\ attempts'[p].code = d /\ attempts'[p].user = codes[d].user
    BY <1>1 DEF CodesAreGiven
  <2>1. PICK p \in Attempts :
          SignedIn(p) /\ attempts[p].code = d /\ attempts[p].user = codes[d].user
    BY DEF SignInInv, CodesAreGiven
  <2>2. attempts'[p] = attempts[p] /\ SignedIn(p)'
    BY <2>1, <1>1, <1>3 DEF SignedIn
  <2> QED BY <2>1, <2>2 DEF SignInInv, CodesAreGiven
<1>7. \A b \in Attempts : Spends(attempts[b]) => attempts[b].code # c
  BY <1>1 DEF Consume, CodeLocked, SignInInv, SpentAlone, Spends, Placed
<1>8. SpentAlone'
  BY <1>1, <1>2, <1>3, <1>7 DEF SignInInv, SpentAlone
<1> QED BY <1>4, <1>5, <1>6, <1>8 DEF SignInInv

LEMMA ExpireKeeps ==
  ASSUME SignInInv, NEW c \in Codes, ExpireCode(c)
  PROVE  SignInInv'
<1>1. /\ SignInOK /\ codes[c] \in Code /\ codes[c].is = "fresh"
      /\ UNCHANGED <<emailOf, accountOf, passwords, attempts, signSlips>>
      /\ codes' = [codes EXCEPT ![c].is = "expired"]
  BY DEF SignInInv, SignInOK, ExpireCode
<1>2. SignInOK'
  BY <1>1 DEF SignInOK, Code
<1>3. /\ codes'[c].is = "expired" /\ codes'[c].user = codes[c].user
      /\ \A d \in Codes \ {c} : codes'[d] = codes[d]
  BY <1>1 DEF SignInOK, Code
<1>4. CodesAreGiven'
  BY <1>1, <1>3 DEF SignInInv, CodesAreGiven, SignedIn
<1>5. SpentAlone'
  BY <1>1, <1>3 DEF SignInInv, SpentAlone, Placed, Spends
<1> QED BY <1>1, <1>2, <1>4, <1>5 DEF SignInInv

\* What a transaction has written has its type.
LEMMA WrittenIsTyped ==
  ASSUME SignInInv, NEW a \in Attempts, attempts[a].pc = "commit", Written(a)
  PROVE  /\ emailOf' \in [UserIds -> Emails \cup {Nobody}]
         /\ accountOf' \in [Identities -> UserIds \cup {Nobody}]
         /\ passwords' \subseteq UserIds
<1>1. attempts[a] \in Attempt /\ attempts[a].user \in UserIds /\ SignInOK
  BY DEF SignInInv, SignInOK, Placed
<1>2. emailOf' \in [UserIds -> Emails \cup {Nobody}]
  BY <1>1 DEF SignInOK, Written, Attempt
<1>3. accountOf' \in [Identities -> UserIds \cup {Nobody}]
  BY <1>1 DEF SignInOK, Written, Attempt
<1> QED BY <1>1, <1>2, <1>3 DEF SignInOK, Written

\* What an attempt is after its transaction.
Committed(a, out) == [attempts[a] EXCEPT !.pc = "done", !.out = out, !.fresh = FALSE]

LEMMA SignInCommitKeeps ==
  ASSUME SignInInv, NEW a \in Attempts, CommitSignIn(a) \/ CommitLost(a)
  PROVE  SignInInv'
<1>1. /\ SignInOK /\ attempts \in [Attempts -> Attempt] /\ attempts[a] \in Attempt
      /\ attempts[a].pc = "commit" /\ Placed(attempts[a]) /\ Written(a)
  BY DEF SignInInv, SignInOK, CommitSignIn, CommitLost
<1>2. signSlips' \in 0..MaxSignSlips
  BY SignInAssumption DEF SignInInv, SignInOK, CommitSignIn, CommitLost, SignSlip
<1>3. CASE attempts[a].kind = "desktop" /\ CommitSignIn(a)
  <2> DEFINE q == [attempts[a] EXCEPT !.pc = "issue", !.fresh = FALSE]
  <2>1. attempts' = [attempts EXCEPT ![a] = q]
    BY <1>1, <1>3 DEF CommitSignIn
  <2>2. q \in Attempt /\ Placed(q) /\ ~Spends(q)
    BY <1>1, <1>3 DEF Attempt, Placed, Spends
  <2>3. codes' = codes
    BY <1>1, <1>3 DEF Written
  <2> HIDE DEF q
  <2> QED BY <1>1, <1>2, <2>1, <2>2, <2>3, WrittenIsTyped, MovesKeep
<1>4. CASE ~(attempts[a].kind = "desktop" /\ CommitSignIn(a))
  <2>1. PICK out \in {"ok", "lost"} : attempts' = [attempts EXCEPT ![a] = Committed(a, out)]
    BY <1>1, <1>4 DEF CommitSignIn, CommitLost, AttemptEnds, Committed
  <2>2. /\ Committed(a, out) \in Attempt /\ Placed(Committed(a, out))
        /\ Committed(a, out).kind = attempts[a].kind /\ Committed(a, out).code = attempts[a].code
        /\ Committed(a, out).user = attempts[a].user /\ Committed(a, out).pc = "done"
        /\ Committed(a, out).out = out
    BY <1>1 DEF Committed, Attempt, Placed
  <2>3. CASE attempts[a].kind # "exchange"
    <3>1. codes' = codes /\ ~Spends(Committed(a, out))
      BY <1>1, <2>2, <2>3 DEF Written, Spends
    <3> QED BY <1>1, <1>2, <2>1, <2>2, <3>1, WrittenIsTyped, MovesKeep
  <2>4. CASE attempts[a].kind = "exchange"
    <3>1. /\ codes' = [codes EXCEPT ![attempts[a].code].is = "used"]
          /\ attempts[a].code \in Codes
      BY <1>1, <2>4 DEF Written, Placed
    <3>2. PICK c \in Codes : c = attempts[a].code
      BY <3>1
    <3>3. /\ codes'[c].is = "used" /\ codes'[c].user = codes[c].user
          /\ \A d \in Codes \ {c} : codes'[d] = codes[d]
      BY <1>1, <3>1, <3>2 DEF SignInOK, Code
    <3>4. /\ attempts'[a] = Committed(a, out)
          /\ \A b \in Attempts \ {a} : attempts'[b] = attempts[b]
      BY <1>1, <2>1
    <3>5. /\ Spends(attempts[a]) /\ attempts[a].out = "none"
          /\ codes[c].is \in {"fresh", "expired"} /\ attempts[a].user = codes[c].user
          /\ \A b \in Attempts : Spends(attempts[b]) /\ attempts[b].code = c => a = b
      BY <1>1, <2>4, <3>2 DEF Spends, Placed, SignInInv, SpentAlone
    <3>6. SignInOK'
      <4>1. codes' \in [Codes -> Code]
        BY <1>1, <3>1 DEF SignInOK, Code
      <4>2. attempts' \in [Attempts -> Attempt]
        BY <1>1, <2>1, <2>2
      <4> QED BY <1>1, <1>2, <4>1, <4>2, WrittenIsTyped DEF SignInOK
    <3>7. \A b \in Attempts : Placed(attempts'[b])
      BY <2>2, <3>4 DEF SignInInv
    <3>8. CodesAreGiven'
      <4> SUFFICES ASSUME NEW d \in Codes, codes'[d].is # "none"
          PROVE /\ codes'[d].user \in UserIds
                /\ \E p \in Attempts :
                     SignedIn(p)' /\ attempts'[p].code = d /\ attempts'[p].user = codes'[d].user
        BY DEF CodesAreGiven
      <4>1. codes[d].is # "none" /\ codes'[d].user = codes[d].user
        BY <3>3, <3>5
      <4>2. PICK p \in Attempts :
              SignedIn(p) /\ attempts[p].code = d /\ attempts[p].user = codes[d].user
        BY <4>1 DEF SignInInv, CodesAreGiven
      <4>3. p # a
        BY <4>2, <3>5 DEF SignedIn
      <4>4. attempts'[p] = attempts[p] /\ SignedIn(p)'
        BY <4>2, <4>3, <3>4 DEF SignedIn
      <4> QED BY <4>1, <4>2, <4>4 DEF SignInInv, CodesAreGiven
    <3>9. SpentAlone'
      <4> SUFFICES ASSUME NEW b \in Attempts, Spends(attempts'[b])
          PROVE /\ codes'[attempts'[b].code].is \in {"fresh", "expired", "used"}
                /\ attempts'[b].user = codes'[attempts'[b].code].user
                /\ attempts'[b].pc = "done" <=> codes'[attempts'[b].code].is = "used"
                /\ \A e \in Attempts :
                     Spends(attempts'[e]) /\ attempts'[e].code = attempts'[b].code => b = e
        BY DEF SpentAlone, Spends
      <4>1. \A e \in Attempts : Spends(attempts'[e]) =>
              Spends(attempts[e]) /\ attempts'[e].code = attempts[e].code
                /\ attempts'[e].user = attempts[e].user
        BY <2>2, <3>4, <3>5 DEF Spends
      <4>2. CASE b = a
        BY <4>1, <4>2, <2>2, <3>2, <3>3, <3>4, <3>5
      <4>3. CASE b # a
        <5>1. attempts[b].code # c /\ attempts[b].code \in Codes
          BY <4>1, <4>3, <3>5 DEF SignInInv, Placed, Spends
        <5>2. codes'[attempts[b].code] = codes[attempts[b].code] /\ attempts'[b] = attempts[b]
          BY <5>1, <4>3, <3>3, <3>4
        <5> QED BY <5>2, <4>1 DEF SignInInv, SpentAlone
      <4> QED BY <4>2, <4>3
    <3> QED BY <3>6, <3>7, <3>8, <3>9 DEF SignInInv
  <2> QED BY <2>3, <2>4
<1> QED BY <1>3, <1>4

\* A code is made for the user who has just signed in.
LEMMA IssueKeeps ==
  ASSUME SignInInv, NEW a \in Attempts, NEW c \in Codes, Issue(a, c)
  PROVE  SignInInv'
<1> DEFINE q == [attempts[a] EXCEPT !.pc = "done", !.out = "ok", !.code = c]
<1>1. /\ SignInOK /\ attempts \in [Attempts -> Attempt] /\ attempts[a] \in Attempt
      /\ attempts[a].pc = "issue" /\ attempts[a].kind = "desktop" /\ attempts[a].user \in UserIds
      /\ codes[c].is = "none" /\ attempts[a].out = "none"
      /\ UNCHANGED <<emailOf, accountOf, passwords, signSlips>>
  BY DEF SignInInv, SignInOK, Placed, Issue
<1>2. attempts' = [attempts EXCEPT ![a] = q]
  BY <1>1 DEF Issue
<1>3. /\ q \in Attempt /\ q.kind = "desktop" /\ q.code = c /\ q.user = attempts[a].user
      /\ q.out = "ok" /\ q.pc = "done"
  BY <1>1 DEF Attempt
<1> HIDE DEF q
<1>4. attempts'[a] = q /\ \A b \in Attempts \ {a} : attempts'[b] = attempts[b]
  BY <1>1, <1>2
<1>5. /\ codes'[c].is = "fresh" /\ codes'[c].user = attempts[a].user
      /\ \A d \in Codes \ {c} : codes'[d] = codes[d]
      /\ codes' \in [Codes -> Code]
  BY <1>1 DEF Issue, SignInOK, Code
<1>6. SignInOK'
  BY <1>1, <1>2, <1>3, <1>5 DEF SignInOK
<1>7. \A b \in Attempts : Placed(attempts'[b])
  BY <1>3, <1>4 DEF SignInInv, Placed
<1>8. CodesAreGiven'
  <2> SUFFICES ASSUME NEW d \in Codes, codes'[d].is # "none"
      PROVE /\ codes'[d].user \in UserIds
            /\ \E p \in Attempts :
                 SignedIn(p)' /\ attempts'[p].code = d /\ attempts'[p].user = codes'[d].user
    BY DEF CodesAreGiven
  <2>1. CASE d = c
    <3>1. SignedIn(a)' /\ attempts'[a].code = d /\ attempts'[a].user = codes'[d].user
      BY <2>1, <1>3, <1>4, <1>5 DEF SignedIn, AtProvider
    <3> QED BY <2>1, <3>1, <1>1, <1>5
  <2>2. CASE d # c
    <3>1. PICK p \in Attempts :
            SignedIn(p) /\ attempts[p].code = d /\ attempts[p].user = codes[d].user
      BY <2>2, <1>5 DEF SignInInv, CodesAreGiven
    <3>2. attempts'[p] = attempts[p] /\ SignedIn(p)'
      BY <3>1, <1>1, <1>4 DEF SignedIn
    <3> QED BY <2>2, <3>1, <3>2, <1>5 DEF SignInInv, CodesAreGiven
  <2> QED BY <2>1, <2>2
<1>9. \A b \in Attempts : Spends(attempts'[b]) =>
        /\ attempts'[b] = attempts[b] /\ attempts[b].code # c
        /\ attempts[b].code \in Codes
  BY <1>1, <1>3, <1>4 DEF Spends, SignInInv, SpentAlone, Placed
<1>10. SpentAlone'
  BY <1>5, <1>9 DEF SignInInv, SpentAlone
<1> QED BY <1>6, <1>7, <1>8, <1>10 DEF SignInInv

\* An attempt that begins is one, whatever it is about.
LEMMA EmailsBegin ==
  ASSUME SignInInv, NEW a \in Attempts, NEW e \in Emails,
         \/ \E kind \in AtProvider, i \in Identities : SignInAt(a, kind, i, e)
         \/ Register(a, e) \/ Ensure(a, e)
  PROVE  SignInInv'
<1>1. /\ SignInOK /\ attempts[a].pc = "new"
      /\ UNCHANGED <<emailOf, accountOf, passwords, codes, signSlips>>
  BY DEF SignInInv, SignInAt, Register, Ensure
<1>2. PICK q \in Attempt : /\ attempts' = [attempts EXCEPT ![a] = q]
                           /\ Placed(q) /\ ~Spends(q)
  <2>1. CASE \E kind \in AtProvider, i \in Identities : SignInAt(a, kind, i, e)
    <3>1. PICK kind \in AtProvider, i \in Identities : SignInAt(a, kind, i, e)
      BY <2>1
    <3> DEFINE t == Tried(kind, "account")  q == [t EXCEPT !.id = i, !.email = e]
    <3>2. t \in Attempt /\ t.kind \in {"site", "desktop"} /\ t.pc = "account" /\ t.out = "none"
      BY TriedIsAttempt DEF AtProvider
    <3> HIDE DEF t
    <3>3. q \in Attempt /\ Placed(q) /\ ~Spends(q)
      BY <3>2 DEF Attempt, Placed, Spends
    <3> QED BY <3>1, <3>3 DEF SignInAt, t
  <2>2. CASE Register(a, e)
    <3> DEFINE q == [Tried("register", "email") EXCEPT !.email = e]
    <3>1. q \in Attempt /\ Placed(q) /\ ~Spends(q)
      BY TriedIsAttempt DEF Attempt, Placed, Spends
    <3> QED BY <2>2, <3>1 DEF Register
  <2>3. CASE Ensure(a, e)
    <3> DEFINE q == [Tried("ensure", "email") EXCEPT !.email = e]
    <3>1. q \in Attempt /\ Placed(q) /\ ~Spends(q)
      BY TriedIsAttempt DEF Attempt, Placed, Spends
    <3> QED BY <2>3, <3>1 DEF Ensure
  <2> QED BY <2>1, <2>2, <2>3
<1> QED BY <1>1, <1>2, MovesKeep DEF SignInOK

LEMMA LogInKeeps ==
  ASSUME SignInInv, NEW a \in Attempts, NEW u \in UserIds, LogIn(a, u)
  PROVE  SignInInv'
<1> DEFINE t == Tried("password", "done")
           q == [t EXCEPT !.email = emailOf[u], !.user = u, !.out = "ok"]
<1>1. /\ SignInOK /\ attempts[a].pc = "new" /\ attempts' = [attempts EXCEPT ![a] = q]
      /\ UNCHANGED <<emailOf, accountOf, passwords, codes, signSlips>>
  BY DEF SignInInv, LogIn
<1>2. t \in Attempt /\ t.kind = "password" /\ t.pc = "done"
  BY TriedIsAttempt
<1>3. emailOf[u] \in Emails \cup {Nobody}
  BY <1>1 DEF SignInOK
<1> HIDE DEF t
<1>4. q \in Attempt
  BY <1>2, <1>3 DEF Attempt
<1>5. Placed(q) /\ ~Spends(q)
  BY <1>2 DEF Attempt, Placed, Spends
<1> QED BY <1>1, <1>4, <1>5, MovesKeep DEF SignInOK

\* One statement of an attempt.
LEMMA StatementsKeep ==
  ASSUME SignInInv, NEW a \in Attempts,
         FindAccount(a) \/ FindUser(a) \/ InsertUser(a) \/ Link(a) \/ SignInFails(a)
  PROVE  SignInInv'
<1>1. /\ SignInOK /\ attempts \in [Attempts -> Attempt] /\ attempts[a] \in Attempt
      /\ Placed(attempts[a]) /\ attempts[a].pc \notin {"new", "done"}
      /\ UNCHANGED <<emailOf, accountOf, passwords, codes>>
  BY DEF SignInInv, SignInOK, FindAccount, FindUser, InsertUser, Link, SignInFails
<1>2. signSlips' \in 0..MaxSignSlips
  <2>1. signSlips \in 0..MaxSignSlips
    BY <1>1 DEF SignInOK
  <2>2. signSlips' = signSlips \/ SignSlip
    BY DEF FindAccount, FindUser, InsertUser, Link, SignInFails
  <2> QED BY <2>1, <2>2, SignInAssumption DEF SignSlip
<1>3. PICK q \in Attempt : /\ attempts' = [attempts EXCEPT ![a] = q]
                           /\ Placed(q) /\ ~Spends(q)
  <2>1. CASE FindAccount(a)
    <3>1. PICK u \in UserIds \cup {Nobody} : u = accountOf[attempts[a].id]
      BY <1>1, <2>1 DEF SignInOK, FindAccount, Placed
    <3> DEFINE q1 == [attempts[a] EXCEPT !.pc = "commit", !.user = u]
               q2 == [attempts[a] EXCEPT !.pc = "email"]
    <3>2. u # Nobody => q1 \in Attempt /\ Placed(q1) /\ ~Spends(q1)
      BY <1>1, <2>1 DEF FindAccount, Attempt, Placed, Spends
    <3>3. q2 \in Attempt /\ Placed(q2) /\ ~Spends(q2)
      BY <1>1, <2>1 DEF FindAccount, Attempt, Placed, Spends
    <3>4. u # Nobody => attempts' = [attempts EXCEPT ![a] = q1]
      BY <1>1, <2>1, <3>1 DEF FindAccount
    <3>5. u = Nobody => attempts' = [attempts EXCEPT ![a] = q2]
      BY <1>1, <2>1, <3>1 DEF FindAccount, AttemptGoes
    <3> QED BY <3>2, <3>3, <3>4, <3>5
  <2>2. CASE FindUser(a)
    <3> DEFINE q1(u) == [attempts[a] EXCEPT !.pc = AfterUser(a), !.user = u]
               q2 == [attempts[a] EXCEPT !.pc = "insert"]
               q3 == [attempts[a] EXCEPT !.pc = "done", !.out = "failed", !.fresh = FALSE]
    <3>1. \A u \in UserIds : q1(u) \in Attempt /\ Placed(q1(u)) /\ ~Spends(q1(u))
      BY ZenonT(60), <1>1, <2>2 DEF FindUser, Attempt, Placed, Spends, AfterUser
    <3>2. q2 \in Attempt /\ Placed(q2) /\ ~Spends(q2)
      BY <1>1, <2>2 DEF FindUser, Attempt, Placed, Spends
    <3>3. q3 \in Attempt /\ Placed(q3) /\ ~Spends(q3)
      BY <1>1, <2>2 DEF FindUser, Attempt, Placed, Spends
    <3>4. \/ attempts' = [attempts EXCEPT ![a] = q2]
          \/ attempts' = [attempts EXCEPT ![a] = q3]
          \/ \E u \in UserIds : attempts' = [attempts EXCEPT ![a] = q1(u)]
      BY <1>1, <2>2 DEF FindUser, AttemptGoes, AttemptEnds, UsersOf
    <3> HIDE DEF q1, q2, q3
    <3> QED BY <3>1, <3>2, <3>3, <3>4
  <2>3. CASE InsertUser(a)
    <3> DEFINE q1(u) == [attempts[a] EXCEPT !.pc = AfterUser(a), !.user = u, !.fresh = TRUE]
               q3 == [attempts[a] EXCEPT !.pc = "done", !.out = "failed", !.fresh = FALSE]
    <3>1. \A u \in UserIds : q1(u) \in Attempt /\ Placed(q1(u)) /\ ~Spends(q1(u))
      BY ZenonT(60), <1>1, <2>3 DEF InsertUser, Attempt, Placed, Spends, AfterUser
    <3>3. q3 \in Attempt /\ Placed(q3) /\ ~Spends(q3)
      BY <1>1, <2>3 DEF InsertUser, Attempt, Placed, Spends
    <3>4. \/ attempts' = [attempts EXCEPT ![a] = q3]
          \/ \E u \in UserIds : attempts' = [attempts EXCEPT ![a] = q1(u)]
      BY <1>1, <2>3 DEF InsertUser, AttemptEnds
    <3> HIDE DEF q1, q3
    <3> QED BY <3>1, <3>3, <3>4
  <2>4. CASE Link(a)
    <3> DEFINE q == [attempts[a] EXCEPT !.pc = "commit"]
    <3>1. q \in Attempt /\ Placed(q) /\ ~Spends(q)
      BY <1>1, <2>4 DEF Link, Attempt, Placed, Spends
    <3> QED BY <1>1, <2>4, <3>1 DEF Link, AttemptGoes
  <2>5. CASE SignInFails(a)
    <3> DEFINE q == [attempts[a] EXCEPT !.pc = "done", !.out = "failed", !.fresh = FALSE]
    <3>1. q \in Attempt /\ Placed(q) /\ ~Spends(q)
      BY <1>1, <2>5 DEF SignInFails, Attempt, Placed, Spends
    <3> QED BY <1>1, <2>5, <3>1 DEF SignInFails, AttemptEnds
  <2> QED BY <2>1, <2>2, <2>3, <2>4, <2>5
<1> QED BY <1>1, <1>2, <1>3, MovesKeep DEF SignInOK

LEMMA SignInNextKeeps == SignInInv /\ [SignInNext]_signInVars => SignInInv'
<1> SUFFICES ASSUME SignInInv, [SignInNext]_signInVars PROVE SignInInv'
  OBVIOUS
<1>1. CASE UNCHANGED signInVars
  BY <1>1
     DEF signInVars, SignInInv, SignInOK, CodesAreGiven, SpentAlone, SignedIn
<1>2. ASSUME NEW a \in Attempts, SignInBegins(a) PROVE SignInInv'
  BY <1>2, EmailsBegin, LogInKeeps, ConsumeKeeps DEF SignInBegins
<1>3. ASSUME NEW a \in Attempts, SignInSteps(a) PROVE SignInInv'
  BY <1>3, StatementsKeep, SignInCommitKeeps, IssueKeeps DEF SignInSteps
<1> QED BY <1>1, <1>2, <1>3, ExpireKeeps DEF SignInNext

\* What a code is and whose, whatever fails and whatever is sent again.
THEOREM SignInKeeps == SignInSpec => []SignInInv
BY InitSignInInv, SignInNextKeeps, PTL DEF SignInSpec

\* A code that the desktop application exchanges gives one token, of the user who signed in
\* at the browser for it: ConsumeDesktopAuthCode uses it in one guarded UPDATE.
THEOREM CodesAreSpentOnce == SignInSpec => []CodesBuyOnce
<1>1. SignInInv => CodesBuyOnce
  <2> SUFFICES ASSUME SignInInv, NEW a \in Attempts,
                      attempts[a].kind = "exchange", attempts[a].out = "ok"
      PROVE /\ \A q \in Attempts :
                 attempts[q].kind = "exchange" /\ attempts[q].out = "ok"
                   /\ attempts[q].code = attempts[a].code => q = a
            /\ \E q \in Attempts : SignedIn(q) /\ attempts[q].code = attempts[a].code
                                   /\ attempts[q].user = attempts[a].user
    BY DEF CodesBuyOnce
  <2>1. Spends(attempts[a]) /\ attempts[a].code \in Codes
    BY DEF Spends, SignInInv, Placed
  <2>2. codes[attempts[a].code].is # "none" /\ attempts[a].user = codes[attempts[a].code].user
    BY <2>1 DEF SignInInv, SpentAlone
  <2>3. \A q \in Attempts : Spends(attempts[q]) /\ attempts[q].code = attempts[a].code => q = a
    BY <2>1 DEF SignInInv, SpentAlone
  <2> QED BY <2>1, <2>2, <2>3 DEF SignInInv, CodesAreGiven, Spends
<1> QED BY <1>1, SignInKeeps, PTL

-----------------------------------------------------------------------------
(* Which account a sign-in gets.                                           *)

LEMMA InitAccountInv == SignInInit => AccountInv
<1> SUFFICES ASSUME SignInInit PROVE AccountInv
  OBVIOUS
<1>1. SignInOK
  BY SignInAssumption DEF SignInInit, SignInOK, Attempt, Code, AtProvider
<1>2. UsersAreWhole
  BY SignInAssumption DEF SignInInit, UsersAreWhole
<1>3. \A a \in Attempts : AttemptPlaced(attempts[a])
  BY DEF SignInInit, AttemptPlaced
<1>4. UsersAreFound
  BY DEF SignInInit, UsersAreFound, Inserting
<1>5. AccountsStay
  BY DEF SignInInit, AccountsStay
<1> QED BY <1>1, <1>2, <1>3, <1>4, <1>5 DEF AccountInv

\* What a statement other than COMMIT may make of an attempt.
Goes(a, q) ==
  /\ AttemptPlaced(q)
  /\ attempts[a].pc # "done" /\ q.pc \notin {"new", "issue"}
  /\ \A b \in q.before : b \in Attempts /\ attempts[b].pc = "done"
  /\ attempts[a].pc # "new" =>
       /\ q.kind = attempts[a].kind /\ q.id = attempts[a].id
       /\ q.email = attempts[a].email /\ q.before = attempts[a].before
  /\ q.fresh => /\ UsersOf(q.email) = {} /\ emailOf[q.user] = Nobody
                /\ \A b \in Attempts \ {a} :
                     Inserting(b) => attempts[b].email # q.email /\ attempts[b].user # q.user
  /\ q.pc \in {"link", "commit"} /\ ~q.fresh =>
       \/ q.kind = "exchange" \/ emailOf[q.user] = q.email
       \/ q.kind \in AtProvider /\ accountOf[q.id] = q.user
  /\ q.kind \in AtProvider =>
       /\ attempts[a].pc = "new" => q.pc = "account"
       /\ attempts[a].pc = "account" /\ accountOf[q.id] # Nobody =>
            q.out = "failed" \/ (q.pc = "commit" /\ q.user = accountOf[q.id])
       /\ attempts[a].pc = "commit" => q.out = "failed"
       /\ attempts[a].pc = "issue" => q.pc = "done" /\ q.user = attempts[a].user
       /\ q.out \in {"ok", "lost"} => attempts[a].pc = "issue"

LEMMA GoesKeeps ==
  ASSUME AccountInv, NEW a \in Attempts, NEW q, Goes(a, q),
         attempts' = [attempts EXCEPT ![a] = q],
         UNCHANGED <<emailOf, accountOf, passwords>>, SignInOK', UsersAreWhole'
  PROVE  AccountInv'
<1>1. attempts \in [Attempts -> Attempt]
  BY DEF AccountInv, SignInOK
<1>2. attempts'[a] = q /\ \A b \in Attempts \ {a} : attempts'[b] = attempts[b]
  BY <1>1
<1>3. \A b \in Attempts : AttemptPlaced(attempts'[b])
  BY <1>2 DEF AccountInv, Goes
<1>4. /\ \A b \in Attempts \ {a} : Inserting(b)' <=> Inserting(b)
      /\ Inserting(a)' => q.fresh
  BY <1>2 DEF Inserting
<1>5. UsersAreFound'
  <2>1. ASSUME NEW b \in Attempts, Inserting(b)'
        PROVE  /\ UsersOf(attempts[b].email)' = {} /\ emailOf'[attempts'[b].user] = Nobody
               /\ \A d \in Attempts \ {b} :
                    Inserting(d)' => /\ attempts'[d].email # attempts'[b].email
                                     /\ attempts'[d].user # attempts'[b].user
    <3>1. CASE b = a
      <4>1. q.fresh
        BY <2>1, <3>1, <1>4
      <4>2. /\ UsersOf(q.email) = {} /\ emailOf[q.user] = Nobody
            /\ \A d \in Attempts \ {a} :
                 Inserting(d) => attempts[d].email # q.email /\ attempts[d].user # q.user
        BY <4>1 DEF Goes
      <4> QED BY <3>1, <4>2, <1>2, <1>4 DEF UsersOf
    <3>2. CASE b # a
      <4>1. /\ Inserting(b) /\ UsersOf(attempts[b].email) = {}
            /\ emailOf[attempts[b].user] = Nobody
            /\ \A d \in Attempts \ {b} :
                 Inserting(d) => /\ attempts[d].email # attempts[b].email
                                 /\ attempts[d].user # attempts[b].user
        BY <2>1, <3>2, <1>4 DEF AccountInv, UsersAreFound
      <4>2. Inserting(a)' => attempts[b].email # q.email /\ attempts[b].user # q.user
        BY <4>1, <3>2, <1>4 DEF Goes
      <4> QED BY <3>2, <4>1, <4>2, <1>2, <1>4 DEF UsersOf
    <3> QED BY <3>1, <3>2
  <2>2. ASSUME NEW b \in Attempts
        PROVE  /\ attempts'[b].pc \in {"link", "commit"} /\ ~attempts'[b].fresh =>
                    \/ attempts'[b].kind = "exchange"
                    \/ emailOf'[attempts'[b].user] = attempts'[b].email
                    \/ /\ attempts'[b].kind \in AtProvider
                       /\ accountOf'[attempts'[b].id] = attempts'[b].user
               /\ attempts'[b].pc = "issue" => emailOf'[attempts'[b].user] # Nobody
    <3>1. CASE b = a
      BY <3>1, <1>2 DEF Goes
    <3>2. CASE b # a
      BY <3>2, <1>2 DEF AccountInv, UsersAreFound
    <3> QED BY <3>1, <3>2
  <2> QED BY <2>1, <2>2 DEF UsersAreFound
<1>6. \A b \in Attempts :
        attempts[b].pc # "new" =>
          /\ attempts'[b].kind = attempts[b].kind /\ attempts'[b].id = attempts[b].id
          /\ attempts'[b].email = attempts[b].email
          /\ attempts'[b].before = attempts[b].before
  BY <1>2 DEF Goes
<1>7. ASSUME NEW i \in Identities, accountOf[i] # Nobody,
             NEW m \in Attempts, MakesAccount(m, i)
      PROVE  MakesAccount(m, i)'
  <2>1. attempts[m].pc \in {"issue", "done"}
    BY <1>7 DEF MakesAccount
  <2>2. attempts'[m].pc \in {"issue", "done"} /\ attempts'[m].user = attempts[m].user
    <3>1. CASE m = a
      BY <3>1, <2>1, <1>2, <1>7 DEF MakesAccount, Goes
    <3>2. CASE m # a
      BY <3>2, <2>1, <1>2
    <3> QED BY <3>1, <3>2
  <2>3. ASSUME NEW b \in Attempts,
               attempts'[b].kind \in AtProvider, attempts'[b].id = i, m \in attempts'[b].before
        PROVE  \/ attempts'[b].pc = "account" \/ attempts'[b].out = "failed"
               \/ /\ attempts'[b].pc \in {"commit", "issue", "done"}
                  /\ attempts'[b].user = accountOf[i]
    <3>1. CASE b # a
      BY <3>1, <2>3, <1>2, <1>7 DEF MakesAccount
    <3>2. CASE b = a /\ attempts[a].pc = "new"
      BY <3>2, <2>3, <1>2 DEF Goes
    <3>3. CASE b = a /\ attempts[a].pc # "new"
      <4>1. /\ attempts[a].kind \in AtProvider /\ attempts[a].id = i /\ q.id = i
            /\ q.kind \in AtProvider /\ m \in attempts[a].before
        BY <3>3, <2>3, <1>2, <1>6
      <4>2. attempts[a].out = "none"
        BY DEF AccountInv, AttemptPlaced, Goes
      <4>3. \/ attempts[a].pc = "account"
            \/ attempts[a].pc \in {"commit", "issue"} /\ attempts[a].user = accountOf[i]
        BY <4>1, <4>2, <1>7 DEF MakesAccount, Goes
      <4>4. q.out = "failed" \/ (q.pc \in {"commit", "done"} /\ q.user = accountOf[i])
        BY <4>1, <4>3, <1>7 DEF Goes
      <4> QED BY <4>4, <3>3, <1>2
    <3> QED BY <3>1, <3>2, <3>3
  <2> QED BY <2>1, <2>2, <2>3, <1>6, <1>7 DEF MakesAccount
<1>8. ASSUME NEW b \in Attempts, attempts[b].pc # "new", attempts[b].kind \in AtProvider, Differs(b)
      PROVE  Differs(b)'
  <2>1. PICK p \in Attempts :
          /\ AttemptsOverlap(b, p)
          /\ attempts[p].kind \in AtProvider /\ attempts[p].id = attempts[b].id
          /\ attempts[p].email # attempts[b].email
    BY <1>8 DEF Differs
  <2>2. attempts[p].pc # "new"
    BY <2>1, <1>8, SignInAssumption DEF AccountInv, AttemptPlaced
  <2>3. AttemptsOverlap(b, p)'
    BY <2>1, <2>2, <1>6, <1>8 DEF AttemptsOverlap
  <2> QED BY <2>1, <2>2, <2>3, <1>6, <1>8 DEF Differs
<1>9. AccountsStay'
  <2>1. ASSUME NEW b \in Attempts, NEW m \in attempts'[b].before
        PROVE  attempts'[m].pc = "done"
    <3>1. m \in Attempts /\ attempts[m].pc = "done"
      <4>1. CASE b = a
        BY <4>1, <2>1, <1>2 DEF Goes
      <4>2. CASE b # a
        BY <4>2, <2>1, <1>1, <1>2 DEF AccountInv, AccountsStay, Attempt
      <4> QED BY <4>1, <4>2
    <3>2. m # a
      BY <3>1 DEF Goes
    <3> QED BY <3>1, <3>2, <1>2
  <2>2. ASSUME NEW i \in Identities, accountOf[i] # Nobody
        PROVE  \E m \in Attempts : MakesAccount(m, i)'
    BY <2>2, <1>7 DEF AccountInv, AccountsStay
  <2>3. ASSUME NEW b \in Attempts, attempts'[b].kind \in AtProvider,
               attempts'[b].pc = "issue" \/ attempts'[b].out \in {"ok", "lost"}
        PROVE  /\ accountOf[attempts'[b].id] # Nobody
               /\ attempts'[b].user = accountOf[attempts'[b].id] \/ Differs(b)'
    <3>1. /\ attempts[b].pc # "new" /\ attempts[b].kind \in AtProvider
          /\ attempts[b].pc = "issue" \/ attempts[b].out \in {"ok", "lost"}
          /\ attempts'[b].user = attempts[b].user
      <4>1. CASE b = a
        BY <4>1, <2>3, <1>2 DEF Goes
      <4>2. CASE b # a
        BY <4>2, <2>3, <1>2 DEF AccountInv, AttemptPlaced
      <4> QED BY <4>1, <4>2
    <3>2. /\ accountOf[attempts[b].id] # Nobody
          /\ attempts[b].user = accountOf[attempts[b].id] \/ Differs(b)
      BY <3>1 DEF AccountInv, AccountsStay
    <3> QED BY <3>1, <3>2, <1>6, <1>8
  <2> QED BY <2>1, <2>2, <2>3 DEF AccountsStay
<1> QED BY <1>3, <1>5, <1>9 DEF AccountInv

\* An attempt begins.
LEMMA BeginsGoes ==
  ASSUME SignInInv, AccountInv, NEW a \in Attempts, SignInBegins(a)
  PROVE  /\ \E q : Goes(a, q) /\ attempts' = [attempts EXCEPT ![a] = q]
         /\ UNCHANGED <<emailOf, accountOf, passwords, codes>>
<1> DEFINE began == {b \in Attempts : attempts[b].pc = "done"}
<1>1. ASSUME NEW e \in Emails, NEW kind \in AtProvider, NEW i \in Identities,
             SignInAt(a, kind, i, e)
      PROVE  \E q : Goes(a, q) /\ attempts' = [attempts EXCEPT ![a] = q]
  <2> DEFINE q == [Tried(kind, "account") EXCEPT !.id = i, !.email = e]
  <2>1. /\ q.pc = "account" /\ q.kind = kind /\ q.id = i /\ q.email = e /\ ~q.fresh
        /\ q.out = "none" /\ q.before = began
    BY DEF Tried
  <2>2. attempts' = [attempts EXCEPT ![a] = q] /\ attempts[a].pc = "new"
    BY <1>1 DEF SignInAt
  <2> HIDE DEF q
  <2>3. AttemptPlaced(q)
    BY <2>1 DEF AttemptPlaced, AtProvider
  <2>4. Goes(a, q)
    BY <2>1, <2>2, <2>3 DEF Goes
  <2> QED BY <2>2, <2>4
<1>2. ASSUME NEW e \in Emails, Register(a, e) \/ Ensure(a, e)
      PROVE  \E q : Goes(a, q) /\ attempts' = [attempts EXCEPT ![a] = q]
  <2>1. PICK kind \in {"register", "ensure"} :
          /\ attempts' = [attempts EXCEPT ![a] = [Tried(kind, "email") EXCEPT !.email = e]]
          /\ attempts[a].pc = "new"
    BY <1>2 DEF Register, Ensure
  <2> DEFINE q == [Tried(kind, "email") EXCEPT !.email = e]
  <2>2. /\ q.pc = "email" /\ q.kind = kind /\ q.email = e /\ ~q.fresh
        /\ q.out = "none" /\ q.before = began
    BY DEF Tried
  <2>3. attempts' = [attempts EXCEPT ![a] = q]
    BY <2>1
  <2> HIDE DEF q
  <2>4. AttemptPlaced(q)
    BY <2>2 DEF AttemptPlaced, AtProvider
  <2>5. Goes(a, q)
    BY <2>1, <2>2, <2>4 DEF Goes, AtProvider
  <2> QED BY <2>3, <2>5
<1>3. ASSUME NEW u \in UserIds, LogIn(a, u)
      PROVE  \E q : Goes(a, q) /\ attempts' = [attempts EXCEPT ![a] = q]
  <2> DEFINE q == [Tried("password", "done") EXCEPT
                     !.email = emailOf[u], !.user = u, !.out = "ok"]
  <2>1. /\ q.pc = "done" /\ q.kind = "password" /\ ~q.fresh /\ q.out = "ok" /\ q.before = began
    BY DEF Tried
  <2>2. attempts' = [attempts EXCEPT ![a] = q] /\ attempts[a].pc = "new"
    BY <1>3 DEF LogIn
  <2> HIDE DEF q
  <2>3. AttemptPlaced(q)
    BY <2>1 DEF AttemptPlaced, AtProvider
  <2>4. Goes(a, q)
    BY <2>1, <2>2, <2>3 DEF Goes, AtProvider
  <2> QED BY <2>2, <2>4
<1>4. ASSUME NEW c \in Codes, Consume(a, c)
      PROVE  \E q : Goes(a, q) /\ attempts' = [attempts EXCEPT ![a] = q]
  <2> DEFINE q == [Tried("exchange", "commit") EXCEPT !.code = c, !.user = codes[c].user]
  <2>1. /\ q.pc = "commit" /\ q.kind = "exchange" /\ ~q.fresh /\ q.out = "none"
        /\ q.before = began /\ q.user = codes[c].user
    BY DEF Tried
  <2>2. /\ attempts' = [attempts EXCEPT ![a] = q] /\ attempts[a].pc = "new"
        /\ codes[c].is # "none"
    BY <1>4 DEF Consume
  <2>3. codes[c].user \in UserIds
    BY <2>2 DEF SignInInv, CodesAreGiven
  <2> HIDE DEF q
  <2>4. AttemptPlaced(q)
    BY <2>1, <2>3 DEF AttemptPlaced, AtProvider
  <2>5. Goes(a, q)
    BY <2>1, <2>2, <2>4 DEF Goes, AtProvider
  <2> QED BY <2>2, <2>5
<1>5. UNCHANGED <<emailOf, accountOf, passwords, codes>>
  BY DEF SignInBegins, SignInAt, Register, Ensure, LogIn, Consume
<1> QED BY <1>1, <1>2, <1>3, <1>4, <1>5 DEF SignInBegins

\* A statement before COMMIT, or the end of an attempt that fails.
LEMMA StatementsGo ==
  ASSUME AccountInv, NEW a \in Attempts,
         FindAccount(a) \/ FindUser(a) \/ InsertUser(a) \/ Link(a) \/ SignInFails(a)
  PROVE  /\ \E q : Goes(a, q) /\ attempts' = [attempts EXCEPT ![a] = q]
         /\ UNCHANGED <<emailOf, accountOf, passwords, codes>>
<1> DEFINE o == attempts[a]
           failed == [o EXCEPT !.pc = "done", !.out = "failed", !.fresh = FALSE]
<1>1. o \in Attempt /\ AttemptPlaced(o) /\ o.pc \notin {"new", "done"} /\ o.out = "none"
  BY DEF AccountInv, SignInOK, FindAccount, FindUser, InsertUser, Link, SignInFails, AttemptPlaced
<1>2. \A b \in o.before : b \in Attempts /\ attempts[b].pc = "done"
  BY <1>1 DEF AccountInv, AccountsStay, Attempt
<1>3. UNCHANGED <<emailOf, accountOf, passwords, codes>>
  BY DEF FindAccount, FindUser, InsertUser, Link, SignInFails
<1>4. Goes(a, failed)
  <2>1. /\ failed.pc = "done" /\ failed.out = "failed" /\ ~failed.fresh
        /\ failed.kind = o.kind /\ failed.id = o.id /\ failed.email = o.email
        /\ failed.before = o.before /\ failed.user = o.user
    BY <1>1 DEF Attempt
  <2> HIDE DEF failed
  <2>2. AttemptPlaced(failed)
    BY <1>1, <2>1 DEF AttemptPlaced
  <2> QED BY <1>1, <1>2, <2>1, <2>2 DEF Goes
<1>5. CASE FindAccount(a)
  <2>1. /\ o.pc = "account" /\ o.kind \in AtProvider /\ o.id \in Identities /\ ~o.fresh
    BY <1>1, <1>5 DEF FindAccount, AttemptPlaced
  <2>2. PICK u \in UserIds \cup {Nobody} : u = accountOf[o.id]
    BY <2>1 DEF AccountInv, SignInOK
  <2>3. CASE u # Nobody
    <3> DEFINE q == [o EXCEPT !.pc = "commit", !.user = u]
    <3>1. /\ q.pc = "commit" /\ q.user = u /\ q.kind = o.kind /\ q.id = o.id /\ q.email = o.email
          /\ q.before = o.before /\ ~q.fresh /\ q.out = "none"
      BY <1>1, <2>1 DEF Attempt
    <3>2. attempts' = [attempts EXCEPT ![a] = q]
      BY <1>5, <2>2, <2>3 DEF FindAccount
    <3> HIDE DEF q
    <3>3. AttemptPlaced(q)
      BY <1>1, <2>1, <2>3, <3>1 DEF AttemptPlaced, AtProvider
    <3>4. Goes(a, q)
      BY <1>1, <1>2, <2>1, <2>2, <3>1, <3>3 DEF Goes
    <3> QED BY <1>3, <3>2, <3>4
  <2>4. CASE u = Nobody
    <3> DEFINE q == [o EXCEPT !.pc = "email"]
    <3>1. /\ q.pc = "email" /\ q.kind = o.kind /\ q.id = o.id /\ q.email = o.email
          /\ q.before = o.before /\ ~q.fresh /\ q.out = "none"
      BY <1>1, <2>1 DEF Attempt
    <3>2. attempts' = [attempts EXCEPT ![a] = q]
      BY <1>5, <2>2, <2>4 DEF FindAccount, AttemptGoes
    <3> HIDE DEF q
    <3>3. AttemptPlaced(q)
      BY <1>1, <2>1, <3>1 DEF AttemptPlaced, AtProvider
    <3>4. Goes(a, q)
      BY <1>1, <1>2, <2>1, <2>2, <2>4, <3>1, <3>3 DEF Goes
    <3> QED BY <1>3, <3>2, <3>4
  <2> QED BY <2>3, <2>4
<1>6. CASE FindUser(a)
  <2>1. o.pc = "email" /\ o.kind \notin {"password", "exchange"} /\ o.email \in Emails /\ ~o.fresh
    BY <1>1, <1>6 DEF FindUser, AttemptPlaced
  <2>2. CASE attempts' = [attempts EXCEPT ![a].pc = "insert"]
    <3> DEFINE q == [o EXCEPT !.pc = "insert"]
    <3>1. /\ q.pc = "insert" /\ q.kind = o.kind /\ q.id = o.id /\ q.email = o.email
          /\ q.before = o.before /\ ~q.fresh /\ q.out = "none"
      BY <1>1, <2>1 DEF Attempt
    <3>2. attempts' = [attempts EXCEPT ![a] = q]
      BY <2>2
    <3> HIDE DEF q
    <3>3. AttemptPlaced(q)
      BY <1>1, <2>1, <3>1 DEF AttemptPlaced
    <3>4. Goes(a, q)
      BY <1>1, <1>2, <2>1, <3>1, <3>3 DEF Goes
    <3> QED BY <1>3, <3>2, <3>4
  <2>3. CASE \E u \in UsersOf(o.email) :
               attempts' = [attempts EXCEPT ![a].pc = AfterUser(a), ![a].user = u]
    <3>1. PICK u \in UserIds :
            /\ emailOf[u] = o.email
            /\ attempts' = [attempts EXCEPT ![a].pc = AfterUser(a), ![a].user = u]
      BY <2>3 DEF UsersOf
    <3> DEFINE q == [o EXCEPT !.pc = AfterUser(a), !.user = u]
    <3>2. /\ q.pc = AfterUser(a) /\ q.user = u /\ q.kind = o.kind /\ q.id = o.id
          /\ q.email = o.email /\ q.before = o.before /\ ~q.fresh /\ q.out = "none"
      BY <1>1, <2>1 DEF Attempt
    <3>3. attempts' = [attempts EXCEPT ![a] = q]
      BY <3>1
    <3> HIDE DEF q
    <3>4. /\ AfterUser(a) \in {"link", "commit"}
          /\ AfterUser(a) = "link" <=> o.kind \in AtProvider
      BY DEF AfterUser
    <3>5. AttemptPlaced(q)
      BY <1>1, <2>1, <3>2, <3>4 DEF AttemptPlaced
    <3>6. Goes(a, q)
      BY <1>1, <1>2, <2>1, <3>1, <3>2, <3>4, <3>5 DEF Goes
    <3> QED BY <1>3, <3>3, <3>6
  <2> QED BY <1>3, <1>4, <1>6, <2>2, <2>3 DEF FindUser, AttemptGoes, AttemptEnds
<1>7. CASE InsertUser(a)
  <2>1. o.pc = "insert" /\ o.kind \notin {"password", "exchange"} /\ o.email \in Emails
    BY <1>1, <1>7 DEF InsertUser, AttemptPlaced
  <2>2. CASE UsersOf(o.email) = {}
    <3>1. PICK u \in UserIds :
            /\ emailOf[u] = Nobody /\ \A b \in Attempts : attempts[b].user # u
            /\ attempts' = [attempts EXCEPT
                 ![a].pc = AfterUser(a), ![a].user = u, ![a].fresh = TRUE]
      BY <1>7, <2>2 DEF InsertUser
    <3> DEFINE q == [o EXCEPT !.pc = AfterUser(a), !.user = u, !.fresh = TRUE]
    <3>2. /\ q.pc = AfterUser(a) /\ q.user = u /\ q.kind = o.kind /\ q.id = o.id
          /\ q.email = o.email /\ q.before = o.before /\ q.fresh /\ q.out = "none"
      BY <1>1, <2>1 DEF Attempt
    <3>3. attempts' = [attempts EXCEPT ![a] = q]
      BY <3>1
    <3> HIDE DEF q
    <3>4. /\ AfterUser(a) \in {"link", "commit"}
          /\ AfterUser(a) = "link" <=> o.kind \in AtProvider
      BY DEF AfterUser
    <3>5. AttemptPlaced(q)
      BY <1>1, <2>1, <3>2, <3>4 DEF AttemptPlaced
    <3>6. \A b \in Attempts : Inserting(b) => attempts[b].email # o.email
      BY <1>7 DEF InsertUser, EmailLocked
    <3>7. Goes(a, q)
      BY <1>1, <1>2, <2>1, <2>2, <3>1, <3>2, <3>4, <3>5, <3>6 DEF Goes
    <3> QED BY <1>3, <3>3, <3>7
  <2>3. CASE UsersOf(o.email) # {}
    BY ZenonT(60), <1>3, <1>4, <1>7, <2>3 DEF InsertUser, AttemptEnds
  <2> QED BY <2>2, <2>3
<1>8. CASE Link(a)
  <2> DEFINE q == [o EXCEPT !.pc = "commit"]
  <2>1. /\ q.pc = "commit" /\ q.kind = o.kind /\ q.id = o.id /\ q.email = o.email
        /\ q.before = o.before /\ q.fresh = o.fresh /\ q.out = "none" /\ q.user = o.user
    BY <1>1 DEF Attempt
  <2>2. attempts' = [attempts EXCEPT ![a] = q] /\ o.pc = "link"
    BY <1>8 DEF Link, AttemptGoes
  <2>3. /\ o.fresh => /\ UsersOf(o.email) = {} /\ emailOf[o.user] = Nobody
                      /\ \A b \in Attempts \ {a} :
                           Inserting(b) => /\ attempts[b].email # o.email
                                           /\ attempts[b].user # o.user
        /\ ~o.fresh =>
             \/ o.kind = "exchange" \/ emailOf[o.user] = o.email
             \/ o.kind \in AtProvider /\ accountOf[o.id] = o.user
    BY <2>2 DEF AccountInv, UsersAreFound, Inserting
  <2> HIDE DEF q
  <2>4. AttemptPlaced(q)
    BY <1>1, <2>1, <2>2 DEF AttemptPlaced
  <2>5. Goes(a, q)
    BY <1>1, <1>2, <2>1, <2>2, <2>3, <2>4 DEF Goes
  <2> QED BY <1>3, <2>2, <2>5
<1>9. CASE SignInFails(a)
  BY <1>3, <1>4, <1>9 DEF SignInFails, AttemptEnds
<1> QED BY <1>5, <1>6, <1>7, <1>8, <1>9

LEMMA IssueGoes ==
  ASSUME AccountInv, NEW a \in Attempts, NEW c \in Codes, Issue(a, c), SignInOK'
  PROVE  AccountInv'
<1> DEFINE o == attempts[a]  q == [o EXCEPT !.pc = "done", !.out = "ok", !.code = c]
<1>1. /\ o \in Attempt /\ AttemptPlaced(o) /\ o.pc = "issue" /\ o.user \in UserIds
      /\ emailOf[o.user] # Nobody /\ UNCHANGED <<emailOf, accountOf, passwords>>
      /\ attempts' = [attempts EXCEPT ![a] = q]
      /\ codes' = [codes EXCEPT ![c] = [is |-> "fresh", user |-> o.user]]
  BY DEF AccountInv, SignInOK, UsersAreFound, Issue, AttemptPlaced
<1>2. \A b \in o.before : b \in Attempts /\ attempts[b].pc = "done"
  BY <1>1 DEF AccountInv, AccountsStay, Attempt
<1>3. /\ q.pc = "done" /\ q.kind = o.kind /\ q.id = o.id /\ q.email = o.email
      /\ q.before = o.before /\ q.fresh = o.fresh /\ q.out = "ok" /\ q.user = o.user
  BY <1>1 DEF Attempt
<1> HIDE DEF q
<1>4. AttemptPlaced(q)
  BY <1>1, <1>3 DEF AttemptPlaced
<1>5. Goes(a, q)
  BY <1>1, <1>2, <1>3, <1>4 DEF Goes, AttemptPlaced
<1>6. \A d \in Codes : codes'[d].user \in {codes[d].user, o.user}
  BY <1>1 DEF AccountInv, SignInOK
<1>7. UsersAreWhole'
  BY <1>1, <1>6 DEF AccountInv, UsersAreWhole
<1> QED BY <1>1, <1>5, <1>7, GoesKeeps

LEMMA ExpireKeepsAccounts ==
  ASSUME AccountInv, NEW c \in Codes, ExpireCode(c), SignInOK'
  PROVE  AccountInv'
<1>1. /\ UNCHANGED <<emailOf, accountOf, passwords, attempts>>
      /\ \A d \in Codes : codes'[d].user = codes[d].user
  BY DEF AccountInv, SignInOK, Code, ExpireCode
<1>2. UsersAreWhole'
  BY <1>1 DEF AccountInv, UsersAreWhole
<1>3. UsersAreFound'
  BY <1>1 DEF AccountInv, UsersAreFound, Inserting, UsersOf
<1>4. \A i \in Identities, q \in Attempts : MakesAccount(q, i)' <=> MakesAccount(q, i)
  BY <1>1 DEF MakesAccount
<1>5. \A a \in Attempts : Differs(a)' <=> Differs(a)
  BY <1>1 DEF Differs, AttemptsOverlap
<1>6. AccountsStay'
  BY <1>1, <1>4, <1>5 DEF AccountInv, AccountsStay
<1> QED BY <1>1, <1>2, <1>3, <1>6 DEF AccountInv

LEMMA CommitKeepsAccounts ==
  ASSUME AccountInv, NEW a \in Attempts, CommitSignIn(a) \/ CommitLost(a), SignInOK'
  PROVE  AccountInv'
<1> DEFINE o == attempts[a]
<1>1. /\ o \in Attempt /\ AttemptPlaced(o) /\ o.pc = "commit" /\ o.user \in UserIds
      /\ o.user # Nobody /\ SignInOK /\ attempts \in [Attempts -> Attempt] /\ Written(a)
  BY SignInAssumption DEF AccountInv, SignInOK, AttemptPlaced, CommitSignIn, CommitLost
<1>2. PICK q :
        /\ attempts' = [attempts EXCEPT ![a] = q]
        /\ q.kind = o.kind /\ q.id = o.id /\ q.email = o.email /\ q.before = o.before
        /\ q.user = o.user /\ ~q.fresh
        /\ \/ q.pc = "issue" /\ q.out = "none" /\ q.kind = "desktop"
           \/ q.pc = "done" /\ q.out \in {"ok", "lost"}
  <2>1. CASE CommitSignIn(a) /\ o.kind = "desktop"
    <3> DEFINE q == [o EXCEPT !.pc = "issue", !.fresh = FALSE]
    <3>1. attempts' = [attempts EXCEPT ![a] = q]
      BY <2>1 DEF CommitSignIn
    <3>2. /\ q.kind = o.kind /\ q.id = o.id /\ q.email = o.email /\ q.before = o.before
          /\ q.user = o.user /\ ~q.fresh /\ q.pc = "issue" /\ q.out = "none"
      BY <1>1 DEF Attempt, AttemptPlaced
    <3> HIDE DEF q
    <3> QED BY <2>1, <3>1, <3>2
  <2>2. CASE ~(CommitSignIn(a) /\ o.kind = "desktop")
    <3>1. PICK out \in {"ok", "lost"} : attempts' = [attempts EXCEPT ![a] = Committed(a, out)]
      BY <2>2 DEF CommitSignIn, CommitLost, AttemptEnds, Committed
    <3> DEFINE q == Committed(a, out)
    <3>2. /\ q.kind = o.kind /\ q.id = o.id /\ q.email = o.email /\ q.before = o.before
          /\ q.user = o.user /\ ~q.fresh /\ q.pc = "done" /\ q.out = out
      BY <1>1 DEF Attempt, Committed
    <3>3. attempts' = [attempts EXCEPT ![a] = q]
      BY <3>1
    <3> HIDE DEF q
    <3> QED BY <3>2, <3>3
  <2> QED BY <2>1, <2>2
<1>3. attempts'[a] = q /\ \A b \in Attempts \ {a} : attempts'[b] = attempts[b]
  BY <1>1, <1>2
<1>4. \A b \in Attempts :
        /\ attempts'[b].kind = attempts[b].kind /\ attempts'[b].id = attempts[b].id
        /\ attempts'[b].email = attempts[b].email /\ attempts'[b].user = attempts[b].user
        /\ attempts'[b].before = attempts[b].before
  BY <1>2, <1>3
<1>5. /\ o.fresh => /\ UsersOf(o.email) = {} /\ emailOf[o.user] = Nobody
                    /\ \A b \in Attempts \ {a} :
                         Inserting(b) => /\ attempts[b].email # o.email
                                         /\ attempts[b].user # o.user
      /\ ~o.fresh => \/ o.kind = "exchange" \/ emailOf[o.user] = o.email
                     \/ o.kind \in AtProvider /\ accountOf[o.id] = o.user
  BY <1>1 DEF AccountInv, UsersAreFound, Inserting
<1>6. /\ o.fresh => emailOf'[o.user] = o.email
      /\ ~o.fresh => emailOf' = emailOf
      /\ \A u \in UserIds : u # o.user => emailOf'[u] = emailOf[u]
      /\ \A u \in UserIds : emailOf[u] # Nobody => emailOf'[u] = emailOf[u]
  BY <1>1, <1>5 DEF Written, SignInOK
<1>7. /\ \A i \in Identities : accountOf[i] # Nobody => accountOf'[i] = accountOf[i]
      /\ \A i \in Identities : accountOf'[i] # accountOf[i] =>
           o.kind \in AtProvider /\ i = o.id /\ accountOf'[i] = o.user
      /\ o.kind \in AtProvider =>
           /\ o.id \in Identities /\ accountOf'[o.id] # Nobody
           /\ accountOf[o.id] = Nobody => accountOf'[o.id] = o.user
  BY <1>1 DEF Written, SignInOK, AttemptPlaced
<1>8. \A i \in Identities :
        accountOf[i] # Nobody => accountOf[i] \in UserIds /\ emailOf[accountOf[i]] # Nobody
  BY <1>1 DEF AccountInv, SignInOK, UsersAreWhole
<1>9. o.kind # "exchange" =>
        /\ o.email \in Emails /\ o.email # Nobody /\ emailOf'[o.user] # Nobody
        /\ o.kind \in AtProvider /\ accountOf[o.id] = Nobody => emailOf'[o.user] = o.email
  <2>1. o.kind # "exchange" => o.email \in Emails /\ o.email # Nobody
    BY <1>1, SignInAssumption DEF AttemptPlaced
  <2>2. o.kind \in AtProvider /\ accountOf[o.id] = o.user => emailOf[o.user] # Nobody
    BY <1>1, <1>7, <1>8
  <2>3. CASE o.fresh
    BY <2>1, <2>3, <1>6
  <2>4. CASE ~o.fresh
    BY <2>1, <2>2, <2>4, <1>1, <1>5, <1>6
  <2> QED BY <2>3, <2>4
<1>10. \A c \in Codes : codes'[c].user = codes[c].user
  BY <1>1 DEF Written, SignInOK, Code
<1>11. UsersAreWhole'
  <2>1. ASSUME NEW u \in UserIds, NEW v \in UserIds, emailOf'[u] = emailOf'[v], u # v
        PROVE  emailOf'[u] = Nobody
    <3>1. CASE o.fresh /\ (u = o.user \/ v = o.user)
      BY <3>1, <2>1, <1>5, <1>6 DEF UsersOf
    <3>2. CASE ~(o.fresh /\ (u = o.user \/ v = o.user))
      <4>1. emailOf'[u] = emailOf[u] /\ emailOf'[v] = emailOf[v]
        BY <3>2, <1>6
      <4> QED BY <4>1, <2>1 DEF AccountInv, UsersAreWhole
    <3> QED BY <3>1, <3>2
  <2>2. ASSUME NEW u \in UserIds, emailOf'[u] = Nobody
        PROVE  /\ u \notin passwords' /\ \A i \in Identities : accountOf'[i] # u
               /\ \A c \in Codes : codes'[c].user # u
    <3>1. emailOf[u] = Nobody
      BY <2>2, <1>6
    <3>2. /\ u \notin passwords /\ \A i \in Identities : accountOf[i] # u
          /\ \A c \in Codes : codes[c].user # u
      BY <3>1 DEF AccountInv, UsersAreWhole
    <3>3. o.kind # "exchange" => u # o.user
      BY <2>2, <1>9
    <3>4. u \notin passwords'
      BY <3>2, <3>3, <1>1 DEF Written
    <3>5. \A i \in Identities : accountOf'[i] # u
      BY <3>2, <3>3, <1>7 DEF AtProvider
    <3> QED BY <3>2, <3>4, <3>5, <1>10
  <2> QED BY <2>1, <2>2 DEF UsersAreWhole
<1>12. \A b \in Attempts : AttemptPlaced(attempts'[b])
  <2>1. AttemptPlaced(q)
    BY <1>1, <1>2 DEF AttemptPlaced, AtProvider
  <2> QED BY <2>1, <1>3 DEF AccountInv
<1>13. UsersAreFound'
  <2>1. \A b \in Attempts : Inserting(b)' => b # a /\ Inserting(b)
    BY <1>2, <1>3 DEF Inserting
  <2>2. ASSUME NEW b \in Attempts, Inserting(b)'
        PROVE  /\ UsersOf(attempts[b].email)' = {} /\ emailOf'[attempts'[b].user] = Nobody
               /\ \A d \in Attempts \ {b} :
                    Inserting(d)' => /\ attempts'[d].email # attempts'[b].email
                                     /\ attempts'[d].user # attempts'[b].user
    <3>1. /\ b # a /\ UsersOf(attempts[b].email) = {} /\ emailOf[attempts[b].user] = Nobody
          /\ \A d \in Attempts \ {b} :
               Inserting(d) => /\ attempts[d].email # attempts[b].email
                               /\ attempts[d].user # attempts[b].user
      BY <2>1, <2>2 DEF AccountInv, UsersAreFound
    <3>2. o.fresh => attempts[b].email # o.email /\ attempts[b].user # o.user
      BY <2>1, <2>2, <1>5
    <3>3. attempts[b].user \in UserIds
      BY <2>1, <2>2 DEF AccountInv, AttemptPlaced, Inserting
    <3>4. UsersOf(attempts[b].email)' = {}
      <4>1. ASSUME NEW u \in UserIds PROVE emailOf'[u] # attempts[b].email
        BY <3>1, <3>2, <1>6 DEF UsersOf
      <4> QED BY <4>1, <1>4 DEF UsersOf
    <3>5. emailOf'[attempts'[b].user] = Nobody
      BY <3>1, <3>2, <3>3, <1>4, <1>6
    <3> QED BY <3>1, <3>4, <3>5, <2>1, <1>4
  <2>3. ASSUME NEW b \in Attempts
        PROVE  /\ attempts'[b].pc \in {"link", "commit"} /\ ~attempts'[b].fresh =>
                    \/ attempts'[b].kind = "exchange"
                    \/ emailOf'[attempts'[b].user] = attempts'[b].email
                    \/ /\ attempts'[b].kind \in AtProvider
                       /\ accountOf'[attempts'[b].id] = attempts'[b].user
               /\ attempts'[b].pc = "issue" => emailOf'[attempts'[b].user] # Nobody
    <3>1. CASE b = a
      BY <3>1, <1>2, <1>3, <1>9
    <3>2. CASE b # a
      <4>1. attempts'[b] = attempts[b] /\ AttemptPlaced(attempts[b])
        BY <3>2, <1>3 DEF AccountInv
      <4>2. ASSUME attempts[b].pc = "issue" PROVE emailOf'[attempts[b].user] # Nobody
        <5>1. attempts[b].user \in UserIds /\ emailOf[attempts[b].user] # Nobody
          BY <4>1, <4>2 DEF AccountInv, UsersAreFound, AttemptPlaced
        <5> QED BY <5>1, <1>6
      <4>3. ASSUME attempts[b].pc \in {"link", "commit"}, ~attempts[b].fresh,
                   attempts[b].kind # "exchange"
            PROVE  \/ emailOf'[attempts[b].user] = attempts[b].email
                   \/ /\ attempts[b].kind \in AtProvider
                      /\ accountOf'[attempts[b].id] = attempts[b].user
        <5>1. /\ attempts[b].user \in UserIds /\ attempts[b].user # Nobody
              /\ attempts[b].email # Nobody
              /\ attempts[b].kind \in AtProvider => attempts[b].id \in Identities
          BY <4>1, <4>3, SignInAssumption DEF AttemptPlaced
        <5>2. \/ emailOf[attempts[b].user] = attempts[b].email
              \/ /\ attempts[b].kind \in AtProvider
                 /\ accountOf[attempts[b].id] = attempts[b].user
          BY <4>3 DEF AccountInv, UsersAreFound
        <5> QED BY <5>1, <5>2, <1>6, <1>7
      <4> QED BY <4>1, <4>2, <4>3
    <3> QED BY <3>1, <3>2
  <2> QED BY <2>2, <2>3, <1>4 DEF UsersAreFound
<1>14. ASSUME NEW i \in Identities, accountOf[i] # Nobody, NEW m \in Attempts, MakesAccount(m, i)
       PROVE  MakesAccount(m, i)'
  <2>1. /\ m # a /\ attempts'[m] = attempts[m] /\ accountOf'[i] = accountOf[i]
        /\ emailOf'[accountOf[i]] = emailOf[accountOf[i]]
    BY <1>14, <1>1, <1>3, <1>6, <1>7, <1>8 DEF MakesAccount
  <2>2. ASSUME NEW b \in Attempts,
               attempts'[b].kind \in AtProvider, attempts'[b].id = i, m \in attempts'[b].before
        PROVE  \/ attempts'[b].pc = "account" \/ attempts'[b].out = "failed"
               \/ /\ attempts'[b].pc \in {"commit", "issue", "done"}
                  /\ attempts'[b].user = accountOf[i]
    <3>1. \/ attempts[b].pc = "account" \/ attempts[b].out = "failed"
          \/ /\ attempts[b].pc \in {"commit", "issue", "done"}
             /\ attempts[b].user = accountOf[i]
      BY <2>2, <1>4, <1>14 DEF MakesAccount
    <3>2. o.out = "none"
      BY <1>1 DEF AttemptPlaced
    <3>3. CASE b = a
      BY <3>1, <3>2, <3>3, <1>1, <1>2, <1>3
    <3>4. CASE b # a
      BY <3>1, <3>4, <1>3
    <3> QED BY <3>3, <3>4
  <2> QED BY <2>1, <2>2, <1>14 DEF MakesAccount
<1>15. \A b \in Attempts : a \notin attempts[b].before
  BY <1>1 DEF AccountInv, AccountsStay
<1>16. ASSUME NEW i \in Identities, accountOf[i] = Nobody, accountOf'[i] # Nobody
       PROVE  MakesAccount(a, i)'
  <2>1. o.kind \in AtProvider /\ i = o.id /\ accountOf'[i] = o.user
    BY <1>7, <1>16
  <2>2. emailOf'[o.user] = o.email
    BY <2>1, <1>9, <1>16 DEF AtProvider
  <2>3. attempts'[a].pc \in {"issue", "done"}
    BY <1>2, <1>3
  <2> QED BY <2>1, <2>2, <2>3, <1>4, <1>15 DEF MakesAccount
<1>17. \A b \in Attempts : Differs(b) => Differs(b)'
  BY <1>4 DEF Differs, AttemptsOverlap
<1>18. ASSUME o.kind \in AtProvider, accountOf'[o.id] # o.user
       PROVE  Differs(a)
  <2>1. o.id \in Identities /\ accountOf[o.id] # Nobody /\ accountOf'[o.id] = accountOf[o.id]
    BY <1>7, <1>18
  <2>2. PICK m \in Attempts : MakesAccount(m, o.id)
    BY <2>1 DEF AccountInv, AccountsStay
  <2>3. m # a
    BY <2>2, <1>1 DEF MakesAccount
  <2>4. m \notin o.before
    <3>1. o.out = "none"
      BY <1>1 DEF AttemptPlaced
    <3> QED BY <3>1, <2>1, <2>2, <1>1, <1>18 DEF MakesAccount
  <2>5. attempts[m].email # o.email
    <3>1. accountOf[o.id] \in UserIds /\ emailOf[accountOf[o.id]] # Nobody
      BY <2>1, <1>8
    <3>2. emailOf[accountOf[o.id]] = attempts[m].email
      BY <2>2 DEF MakesAccount
    <3>3. CASE o.fresh
      BY <3>1, <3>2, <3>3, <1>5 DEF UsersOf
    <3>4. CASE ~o.fresh
      <4>1. emailOf[o.user] = o.email
        BY <3>4, <1>5, <1>18, <2>1 DEF AtProvider
      <4>2. accountOf[o.id] # o.user
        BY <2>1, <1>18
      <4> QED BY <3>1, <3>2, <4>1, <4>2, <1>1 DEF AccountInv, UsersAreWhole
    <3> QED BY <3>3, <3>4
  <2>6. AttemptsOverlap(a, m)
    BY <2>3, <2>4, <1>15 DEF AttemptsOverlap
  <2>7. attempts[m].kind \in AtProvider /\ attempts[m].id = o.id
    BY <2>2 DEF MakesAccount
  <2> QED BY <2>5, <2>6, <2>7 DEF Differs
<1>19. AccountsStay'
  <2>1. ASSUME NEW b \in Attempts, NEW m \in attempts'[b].before
        PROVE  attempts'[m].pc = "done"
    <3>1. m \in Attempts /\ attempts[m].pc = "done"
      BY <2>1, <1>1, <1>4 DEF AccountInv, AccountsStay, Attempt
    <3> QED BY <3>1, <1>1, <1>3
  <2>2. ASSUME NEW i \in Identities, accountOf'[i] # Nobody
        PROVE  \E m \in Attempts : MakesAccount(m, i)'
    BY <2>2, <1>14, <1>16 DEF AccountInv, AccountsStay
  <2>3. ASSUME NEW b \in Attempts, attempts'[b].kind \in AtProvider,
               attempts'[b].pc = "issue" \/ attempts'[b].out \in {"ok", "lost"}
        PROVE  /\ accountOf'[attempts'[b].id] # Nobody
               /\ attempts'[b].user = accountOf'[attempts'[b].id] \/ Differs(b)'
    <3>1. CASE b = a
      BY <3>1, <2>3, <1>4, <1>7, <1>17, <1>18
    <3>2. CASE b # a
      <4>1. attempts'[b] = attempts[b] /\ attempts[b].id \in Identities
        BY <3>2, <2>3, <1>3 DEF AccountInv, AttemptPlaced
      <4>2. /\ accountOf[attempts[b].id] # Nobody
            /\ attempts[b].user = accountOf[attempts[b].id] \/ Differs(b)
        BY <4>1, <2>3 DEF AccountInv, AccountsStay
      <4> QED BY <4>1, <4>2, <1>7, <1>17
    <3> QED BY <3>1, <3>2
  <2> QED BY <2>1, <2>2, <2>3 DEF AccountsStay
<1> QED BY <1>11, <1>12, <1>13, <1>19 DEF AccountInv

LEMMA NextKeepsAccounts ==
  SignInInv /\ AccountInv /\ [SignInNext]_signInVars => AccountInv'
<1> SUFFICES ASSUME SignInInv, AccountInv, [SignInNext]_signInVars PROVE AccountInv'
  OBVIOUS
<1>1. SignInOK'
  BY SignInNextKeeps DEF SignInInv
<1>2. CASE UNCHANGED signInVars
  <2>1. \A b \in Attempts : Differs(b) => Differs(b)'
    BY <1>2 DEF signInVars, Differs, AttemptsOverlap
  <2>2. \A b \in Attempts, i \in Identities : MakesAccount(b, i) => MakesAccount(b, i)'
    BY <1>2 DEF signInVars, MakesAccount
  <2>3. UsersAreFound' /\ UsersAreWhole'
    BY <1>2 DEF signInVars, AccountInv, UsersAreFound, UsersAreWhole, Inserting, UsersOf
  <2>4. AccountsStay'
    BY <1>2, <2>1, <2>2 DEF signInVars, AccountInv, AccountsStay
  <2> QED BY <1>1, <1>2, <2>3, <2>4 DEF signInVars, AccountInv
<1>3. ASSUME NEW a \in Attempts, NEW q, Goes(a, q), attempts' = [attempts EXCEPT ![a] = q],
             UNCHANGED <<emailOf, accountOf, passwords, codes>>
      PROVE  AccountInv'
  <2>1. UsersAreWhole'
    BY <1>3 DEF AccountInv, UsersAreWhole
  <2> QED BY <1>1, <1>3, <2>1, GoesKeeps
<1>4. ASSUME NEW a \in Attempts, SignInBegins(a) PROVE AccountInv'
  BY <1>3, <1>4, BeginsGoes
<1>5. ASSUME NEW a \in Attempts, SignInSteps(a) PROVE AccountInv'
  <2>1. CASE FindAccount(a) \/ FindUser(a) \/ InsertUser(a) \/ Link(a) \/ SignInFails(a)
    BY <1>3, <2>1, StatementsGo
  <2>2. CASE CommitSignIn(a) \/ CommitLost(a)
    BY <1>1, <2>2, CommitKeepsAccounts
  <2>3. CASE \E c \in Codes : Issue(a, c)
    BY <1>1, <2>3, IssueGoes
  <2> QED BY <1>5, <2>1, <2>2, <2>3 DEF SignInSteps
<1> QED BY <1>1, <1>2, <1>4, <1>5, ExpireKeepsAccounts DEF SignInNext

\* Emails are unique, and accounts, passwords and codes name users that are there, whatever
\* overlaps and whatever fails.
THEOREM AccountsKeep == SignInSpec => []AccountInv
<1>1. SignInSpec => [](SignInInv /\ AccountInv)
  BY InitSignInInv, InitAccountInv, SignInNextKeeps, NextKeepsAccounts, PTL DEF SignInSpec
<1> QED BY <1>1, PTL

\* An identity that signs in gets the account it has, and only a sign-in of the same identity
\* that overlaps it with another email can leave the two with different accounts:
\* FindOrCreateOAuthUser inserts the identity ON CONFLICT, after it has chosen the user.
THEOREM IdentitiesKeepAccounts == SignInSpec => []SameAccount
<1>1. AccountInv => SameAccount
  BY DEF AccountInv, AccountsStay, SameAccount, SignedIn, Differs
<1> QED BY <1>1, AccountsKeep, PTL

=============================================================================
