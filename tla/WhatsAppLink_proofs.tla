------------------------ MODULE WhatsAppLink_proofs ------------------------
(***************************************************************************)
(* Theorems of WhatsAppLink, for every number of users, numbers, handlers  *)
(* and codes.                                                              *)
(***************************************************************************)
EXTENDS WhatsAppLink, SequenceTheorems, TLAPS

LEMMA InitIInv == Init => IInv
  BY LinkAssumption, EmptySeq
  DEF Init, IInv, TypeOK, ExclusiveCodes, HeldCodesAreCurrent, FoundCodesMatch,
      LockedAtThree, HoldsCode, Idle, Blank, AccountStatus, ContactRow, CodeRow,
      Request, Created

\* What a step does to the codes there are: a closed one stays closed, and no
\* attempt is forgotten ...
CodesKept ==
  \A k \in 1..Len(codes) :
    /\ k \in 1..Len(codes')
    /\ codes'[k].user = codes[k].user /\ codes'[k].phone = codes[k].phone
    /\ codes[k].status # "pending" => codes'[k].status = codes[k].status
    /\ codes'[k].attempts >= codes[k].attempts

\* ... and none is spent.
NoneSpent ==
  \A k \in 1..Len(codes) : codes'[k].status = "verified" => codes[k].status = "verified"

LEMMA AttemptsAreNumbers ==
  ASSUME IInv
  PROVE  \A i \in 1..Len(codes) : codes[i].attempts \in Int
<1> SUFFICES ASSUME NEW i \in 1..Len(codes)
             PROVE  codes[i].attempts \in Int
  OBVIOUS
<1>1. codes[i] \in CodeRow
  BY ElementOfSeq DEF IInv, TypeOK
<1>2. codes[i].attempts \in 0..MaxAttempts
  BY <1>1 DEF CodeRow
<1> QED BY <1>2 DEF MaxAttempts

LEMMA UntouchedCodes ==
  ASSUME IInv, UNCHANGED codes
  PROVE  CodesKept /\ NoneSpent
  BY AttemptsAreNumbers DEF CodesKept, NoneSpent

\* Row k of the table is rewritten to row r.
LEMMA CodeRewritten ==
  ASSUME NEW s \in Seq(CodeRow), NEW k \in 1..Len(s), NEW r \in CodeRow,
         NEW t, t = [s EXCEPT ![k] = r]
  PROVE  /\ t \in Seq(CodeRow)
         /\ Len(t) = Len(s)
         /\ t[k] = r
         /\ \A i \in 1..Len(s) : i # k => t[i] = s[i]
  BY ExceptSeq

LEMMA RowUpdate ==
  ASSUME NEW row \in CodeRow, NEW n \in 1..MaxAttempts, NEW st \in {"pending", "locked"},
         NEW r, r = [row EXCEPT !.attempts = n, !.status = st]
  PROVE  r \in CodeRow /\ r.phone = row.phone /\ r.user = row.user
<1>1. n \in 0..MaxAttempts
  BY DEF MaxAttempts
<1> QED BY <1>1 DEF CodeRow

-----------------------------------------------------------------------------
(* Steps that leave the codes as they are, and no code newly held.         *)

LEMMA ResolveKeepsIInv ==
  ASSUME IInv, NEW h \in Handlers, NEW c \in Contacts, NEW text \in Texts, Resolve(h, c, text)
  PROVE  IInv'
<1> USE LinkAssumption DEF Created
<1>1. TypeOK'
  BY DEF IInv, TypeOK, Resolve, Request, ContactRow, MayChat, ResolvedUser, Idle, Texts
<1>2. \A g \in Handlers, k \in 1..MaxCodes : HoldsCode(g, k)' => HoldsCode(g, k) /\ req'[g] = req[g]
  BY DEF IInv, TypeOK, Resolve, HoldsCode, Finish, Idle
<1>3. ExclusiveCodes' /\ HeldCodesAreCurrent'
  BY <1>2 DEF IInv, ExclusiveCodes, HeldCodesAreCurrent, TypeOK, Resolve
<1>4. FoundCodesMatch' /\ LockedAtThree'
  BY DEF IInv, TypeOK, FoundCodesMatch, LockedAtThree, Resolve, Finish, Idle
<1> QED BY <1>1, <1>3, <1>4 DEF IInv

LEMMA CheckCodeKeepsIInv ==
  ASSUME IInv, NEW h \in Handlers, CheckCode(h)
  PROVE  IInv'
<1> USE LinkAssumption DEF Created
<1>1. TypeOK'
  BY DEF IInv, TypeOK, CheckCode, Request, Idle
<1>2. \A g \in Handlers, k \in 1..MaxCodes : HoldsCode(g, k)' => HoldsCode(g, k) /\ req'[g] = req[g]
  BY DEF IInv, TypeOK, CheckCode, HoldsCode, Finish, Idle
<1>3. ExclusiveCodes' /\ HeldCodesAreCurrent'
  BY <1>2 DEF IInv, ExclusiveCodes, HeldCodesAreCurrent, TypeOK, CheckCode
<1>4. FoundCodesMatch' /\ LockedAtThree'
  BY DEF IInv, TypeOK, FoundCodesMatch, LockedAtThree, CheckCode, Finish, Idle
<1> QED BY <1>1, <1>3, <1>4 DEF IInv

LEMMA AnswerKeepsIInv ==
  ASSUME IInv, NEW h \in Handlers, Answer(h)
  PROVE  IInv'
<1> USE LinkAssumption DEF Created
<1>0. /\ req[h] \in Request /\ req[h].pc = "answering"
      /\ req' = [req EXCEPT ![h] = Idle]
      /\ contact' = [contact EXCEPT ![req[h].contact].conv = req[h].user]
      /\ UNCHANGED <<account, codes, creating>>
  BY DEF IInv, TypeOK, Answer, Finish
<1>1. TypeOK'
  <2>1. req[h].contact \in Contacts /\ req[h].user \in Users
    BY <1>0 DEF Request
  <2>2. contact \in [Contacts -> ContactRow]
    BY DEF IInv, TypeOK
  <2>3. [contact[req[h].contact] EXCEPT !.conv = req[h].user] \in ContactRow
    BY <2>1, <2>2 DEF ContactRow
  <2>4. contact' \in [Contacts -> ContactRow]
    BY <1>0, <2>1, <2>2, <2>3
  <2>5. Idle \in Request
    BY DEF Idle, Request
  <2>6. req' \in [Handlers -> Request]
    BY <1>0, <2>5 DEF IInv, TypeOK
  <2> QED BY <1>0, <2>4, <2>6 DEF IInv, TypeOK
<1>2. \A g \in Handlers, k \in 1..MaxCodes : HoldsCode(g, k)' => HoldsCode(g, k) /\ req'[g] = req[g]
  BY DEF IInv, TypeOK, Answer, HoldsCode, Finish, Idle
<1>3. ExclusiveCodes' /\ HeldCodesAreCurrent'
  BY <1>2 DEF IInv, ExclusiveCodes, HeldCodesAreCurrent, TypeOK, Answer
<1>4. FoundCodesMatch' /\ LockedAtThree'
  BY DEF IInv, TypeOK, FoundCodesMatch, LockedAtThree, Answer, Finish, Idle
<1> QED BY <1>1, <1>3, <1>4 DEF IInv

LEMMA AnswerFailsKeepsIInv ==
  ASSUME IInv, NEW h \in Handlers, AnswerFails(h)
  PROVE  IInv'
<1> USE LinkAssumption DEF Created
<1>1. TypeOK'
  BY DEF IInv, TypeOK, AnswerFails, Request, Finish, Idle
<1>2. \A g \in Handlers, k \in 1..MaxCodes : HoldsCode(g, k)' => HoldsCode(g, k) /\ req'[g] = req[g]
  BY DEF IInv, TypeOK, AnswerFails, HoldsCode, Finish, Idle
<1>3. ExclusiveCodes' /\ HeldCodesAreCurrent'
  BY <1>2 DEF IInv, ExclusiveCodes, HeldCodesAreCurrent, TypeOK, AnswerFails
<1>4. FoundCodesMatch' /\ LockedAtThree'
  BY DEF IInv, TypeOK, FoundCodesMatch, LockedAtThree, AnswerFails, Finish, Idle
<1> QED BY <1>1, <1>3, <1>4 DEF IInv

LEMMA ScanKeepsIInv ==
  ASSUME IInv, NEW h \in Handlers, Scan(h)
  PROVE  IInv'
<1> USE LinkAssumption DEF Created
<1>1. TypeOK'
  BY DEF IInv, TypeOK, Scan, Request, Idle
<1>2. \A g \in Handlers, k \in 1..MaxCodes : HoldsCode(g, k)' => HoldsCode(g, k) /\ req'[g] = req[g]
  BY DEF IInv, TypeOK, Scan, HoldsCode, Finish, Idle
<1>3. ExclusiveCodes' /\ HeldCodesAreCurrent'
  BY <1>2 DEF IInv, ExclusiveCodes, HeldCodesAreCurrent, TypeOK, Scan
<1>4. FoundCodesMatch' /\ LockedAtThree'
  BY DEF IInv, TypeOK, FoundCodesMatch, LockedAtThree, Scan, Finish, Idle
<1> QED BY <1>1, <1>3, <1>4 DEF IInv

LEMMA RollbackKeepsIInv ==
  ASSUME IInv, NEW h \in Handlers, Rollback(h)
  PROVE  IInv'
<1> USE LinkAssumption DEF Created
<1>1. TypeOK'
  BY DEF IInv, TypeOK, Rollback, Request, Finish, Idle
<1>2. \A g \in Handlers, k \in 1..MaxCodes : HoldsCode(g, k)' => HoldsCode(g, k) /\ req'[g] = req[g]
  BY DEF IInv, TypeOK, Rollback, HoldsCode, Finish, Idle
<1>3. ExclusiveCodes' /\ HeldCodesAreCurrent'
  BY <1>2 DEF IInv, ExclusiveCodes, HeldCodesAreCurrent, TypeOK, Rollback
<1>4. FoundCodesMatch' /\ LockedAtThree'
  BY DEF IInv, TypeOK, FoundCodesMatch, LockedAtThree, Rollback, Finish, Idle
<1> QED BY <1>1, <1>3, <1>4 DEF IInv

-----------------------------------------------------------------------------
(* Steps that take, rewrite or give back a code row.                       *)

LEMMA LockCodeKeepsIInv ==
  ASSUME IInv, NEW h \in Handlers, LockCode(h)
  PROVE  IInv' /\ CodesKept /\ NoneSpent
<1> USE LinkAssumption DEF Created
<1>0. PICK k \in req[h].found :
        /\ CodeFree(k)
        /\ \/ /\ codes[k].status # "pending"
              /\ req' = [req EXCEPT ![h] =
                           IF req[h].found = {k} THEN Idle
                           ELSE [pc |-> "scanned", contact |-> req[h].contact,
                                 text |-> req[h].text, found |-> req[h].found \ {k}]]
              /\ UNCHANGED codes
           \/ /\ codes' = [codes EXCEPT ![k] = [codes[k] EXCEPT !.status = "expired"]]
              /\ codes[k].status = "pending"
              /\ req' = [req EXCEPT ![h] = Idle]
           \/ /\ codes[k].status = "pending"
              /\ req' = [req EXCEPT ![h] =
                           IF req[h].text = codes[k].secret
                           THEN [pc |-> "matched", contact |-> req[h].contact, code |-> k]
                           ELSE [pc |-> "missed", contact |-> req[h].contact, code |-> k,
                                 seen |-> codes[k].attempts]]
              /\ UNCHANGED codes
  BY DEF LockCode, Finish
<1>1. /\ k \in 1..Len(codes) /\ k \in 1..MaxCodes
      /\ codes[k] \in CodeRow /\ codes[k].phone = req[h].contact
      /\ req[h] \in Request /\ req[h].pc = "scanned"
      /\ UNCHANGED <<account, contact, creating>>
  BY <1>0, ElementOfSeq DEF IInv, TypeOK, FoundCodesMatch, LockCode, Request
<1>2. CASE codes' = [codes EXCEPT ![k] = [codes[k] EXCEPT !.status = "expired"]]
           /\ codes[k].status = "pending" /\ req' = [req EXCEPT ![h] = Idle]
  <2> DEFINE r == [codes[k] EXCEPT !.status = "expired"]
  <2>1. r \in CodeRow /\ r.attempts = codes[k].attempts /\ r.phone = codes[k].phone
        /\ r.user = codes[k].user /\ r.status = "expired"
    BY <1>1 DEF CodeRow
  <2>2. /\ codes' \in Seq(CodeRow) /\ Len(codes') = Len(codes) /\ codes'[k] = r
        /\ \A i \in 1..Len(codes) : i # k => codes'[i] = codes[i]
    BY <1>1, <1>2, <2>1, CodeRewritten DEF IInv, TypeOK
  <2>3. TypeOK'
    BY <1>1, <1>2, <2>2 DEF IInv, TypeOK, Request, Idle
  <2>4. \A g \in Handlers, i \in 1..MaxCodes :
          HoldsCode(g, i)' => HoldsCode(g, i) /\ req'[g] = req[g] /\ i # k
    BY <1>0, <1>1, <1>2 DEF IInv, TypeOK, HoldsCode, Idle, CodeFree
  <2>5. ExclusiveCodes' /\ HeldCodesAreCurrent'
    BY <2>2, <2>4 DEF IInv, ExclusiveCodes, HeldCodesAreCurrent
  <2>6. FoundCodesMatch'
    BY <1>2, <2>1, <2>2 DEF IInv, TypeOK, FoundCodesMatch, Idle
  <2>7. LockedAtThree'
    BY <1>1, <1>2, <2>1, <2>2 DEF IInv, LockedAtThree, MaxAttempts
  <2>8. CodesKept /\ NoneSpent
    <3> HIDE DEF r
    <3>1. \A i \in 1..Len(codes) : codes[i].attempts \in Int
      BY AttemptsAreNumbers
    <3> QED BY <1>2, <2>1, <2>2, <3>1 DEF CodesKept, NoneSpent
  <2> QED BY <2>3, <2>5, <2>6, <2>7, <2>8 DEF IInv
<1>3. CASE UNCHANGED codes
  <2>1. TypeOK'
    BY <1>0, <1>1, <1>3 DEF IInv, TypeOK, Request, Idle, CodeRow
  <2>2. \A g \in Handlers, i \in 1..MaxCodes :
          HoldsCode(g, i)' =>
            \/ HoldsCode(g, i) /\ req'[g] = req[g] /\ g # h
            \/ /\ g = h /\ i = k /\ codes[k].status = "pending"
               /\ req'[h].contact = req[h].contact
               /\ req'[h].pc = "missed" => req'[h].seen = codes[k].attempts
    BY <1>0, <1>1, <1>3 DEF IInv, TypeOK, HoldsCode, Idle
  <2>3. ExclusiveCodes'
    BY <1>0, <2>2 DEF IInv, ExclusiveCodes, CodeFree
  <2>4. HeldCodesAreCurrent'
    BY <1>1, <1>3, <2>2 DEF IInv, HeldCodesAreCurrent
  <2>5. FoundCodesMatch' /\ LockedAtThree'
    BY <1>0, <1>1, <1>3 DEF IInv, TypeOK, FoundCodesMatch, LockedAtThree, Idle
  <2>6. CodesKept /\ NoneSpent
    BY <1>3, UntouchedCodes
  <2> QED BY <2>1, <2>3, <2>4, <2>5, <2>6 DEF IInv
<1> QED BY <1>0, <1>2, <1>3

LEMMA MissKeepsIInv ==
  ASSUME IInv, NEW h \in Handlers, Miss(h)
  PROVE  IInv' /\ CodesKept /\ NoneSpent
<1> USE LinkAssumption DEF Created
<1> DEFINE k == req[h].code
           r == [codes[k] EXCEPT
                   !.attempts = req[h].seen + 1,
                   !.status = IF req[h].seen + 1 >= MaxAttempts THEN "locked" ELSE "pending"]
<1>1. /\ HoldsCode(h, k) /\ k \in 1..Len(codes) /\ k \in 1..MaxCodes
      /\ codes[k] \in CodeRow /\ codes[k].status = "pending"
      /\ req[h] \in Request
  BY ElementOfSeq DEF IInv, TypeOK, HoldsCode, HeldCodesAreCurrent, Miss, Request
<1>2. /\ r \in CodeRow /\ r.phone = codes[k].phone /\ r.user = codes[k].user
      /\ r.attempts >= codes[k].attempts /\ r.status # "verified"
      /\ r.attempts = MaxAttempts <=> r.status = "locked"
  <2>1. req[h].seen = codes[k].attempts
    BY <1>1 DEF IInv, HeldCodesAreCurrent, Miss
  <2>2. codes[k].attempts \in 0..2
    BY <1>1 DEF IInv, CodeRow, LockedAtThree, MaxAttempts
  <2>3. r.attempts = codes[k].attempts + 1
        /\ r.status = IF codes[k].attempts + 1 >= MaxAttempts THEN "locked" ELSE "pending"
    BY <1>1, <2>1, <2>2 DEF CodeRow
  <2>4. PICK n \in 1..MaxAttempts, st \in {"pending", "locked"} :
          r = [codes[k] EXCEPT !.attempts = n, !.status = st]
    <3> DEFINE st == IF req[h].seen + 1 >= MaxAttempts THEN "locked" ELSE "pending"
    <3>1. req[h].seen + 1 \in 1..MaxAttempts
      BY <2>1, <2>2 DEF MaxAttempts
    <3>2. st \in {"pending", "locked"}
      OBVIOUS
    <3>3. r = [codes[k] EXCEPT !.attempts = req[h].seen + 1, !.status = st]
      OBVIOUS
    <3> HIDE DEF r, st
    <3> WITNESS req[h].seen + 1 \in 1..MaxAttempts, st \in {"pending", "locked"}
    <3> QED BY <3>3
  <2>5. PICK row \in CodeRow : row = codes[k]
    BY <1>1
  <2> HIDE DEF k, r
  <2>6. r \in CodeRow /\ r.phone = codes[k].phone /\ r.user = codes[k].user
    <3>1. r = [row EXCEPT !.attempts = n, !.status = st]
      BY <2>4, <2>5
    <3>2. r \in CodeRow /\ r.phone = row.phone /\ r.user = row.user
      BY ZenonT(60), <3>1, RowUpdate
    <3> QED BY <2>5, <3>2
  <2> QED BY <2>2, <2>3, <2>6 DEF MaxAttempts
<1>3. codes' = [codes EXCEPT ![k] = r]
  BY DEF Miss
<1>4. /\ codes' \in Seq(CodeRow) /\ Len(codes') = Len(codes) /\ codes'[k] = r
      /\ \A i \in 1..Len(codes) : i # k => codes'[i] = codes[i]
  <2> HIDE DEF k, r
  <2> QED BY <1>1, <1>2, <1>3, CodeRewritten DEF IInv, TypeOK
<1>5. TypeOK'
  BY <1>1, <1>4 DEF IInv, TypeOK, Miss, Request, Finish, Idle
<1>6. \A g \in Handlers, i \in 1..MaxCodes :
        HoldsCode(g, i)' => HoldsCode(g, i) /\ req'[g] = req[g] /\ i # k
  BY <1>1 DEF IInv, TypeOK, HoldsCode, Miss, Finish, Idle, ExclusiveCodes
<1> HIDE DEF r
<1>7. ExclusiveCodes' /\ HeldCodesAreCurrent'
  BY <1>4, <1>6 DEF IInv, ExclusiveCodes, HeldCodesAreCurrent
<1>8. FoundCodesMatch'
  <2>1. \A g \in Handlers : req'[g].pc = "scanned" => req'[g] = req[g]
    BY DEF IInv, TypeOK, Miss, Finish, Idle
  <2>2. \A i \in 1..Len(codes) : codes'[i].phone = codes[i].phone
    BY <1>2, <1>4
  <2> QED BY <1>4, <2>1, <2>2 DEF IInv, FoundCodesMatch
<1>9. LockedAtThree'
  BY <1>1, <1>2, <1>4 DEF IInv, LockedAtThree
<1>10. CodesKept /\ NoneSpent
  <2>1. \A i \in 1..Len(codes) : codes[i].attempts \in Int
    BY AttemptsAreNumbers
  <2> QED BY <1>1, <1>2, <1>4, <2>1 DEF CodesKept, NoneSpent
<1> QED BY <1>5, <1>7, <1>8, <1>9, <1>10 DEF IInv

LEMMA LinkKeepsIInv ==
  ASSUME IInv, NEW h \in Handlers, Link(h)
  PROVE  /\ IInv' /\ CodesKept
         /\ \A i \in 1..Len(codes) : codes'[i].status = "verified" =>
               codes[i].status = "verified" \/ i = req[h].code
<1> USE LinkAssumption DEF Created
<1> DEFINE k == req[h].code
           r == [codes[k] EXCEPT !.status = "verified"]
<1>1. /\ HoldsCode(h, k) /\ k \in 1..Len(codes) /\ k \in 1..MaxCodes
      /\ codes[k] \in CodeRow /\ codes[k].status = "pending"
      /\ req[h] \in Request
  BY ElementOfSeq DEF IInv, TypeOK, HoldsCode, HeldCodesAreCurrent, Link, Request
<1>2. /\ r \in CodeRow /\ r.phone = codes[k].phone /\ r.user = codes[k].user
      /\ r.attempts = codes[k].attempts
      /\ r.attempts = MaxAttempts <=> r.status = "locked"
  BY <1>1 DEF IInv, CodeRow, LockedAtThree
<1>3. codes' = [codes EXCEPT ![k] = r]
  BY DEF Link
<1>4. /\ codes' \in Seq(CodeRow) /\ Len(codes') = Len(codes) /\ codes'[k] = r
      /\ \A i \in 1..Len(codes) : i # k => codes'[i] = codes[i]
  <2> HIDE DEF k, r
  <2> QED BY <1>1, <1>2, <1>3, CodeRewritten DEF IInv, TypeOK
<1>5. TypeOK'
  <2>1. codes[k].user \in Users
    BY <1>1 DEF CodeRow
  <2>2. contact' \in [Contacts -> ContactRow]
    BY ZenonT(60), <2>1 DEF IInv, TypeOK, Link, ContactRow, Blocked
  <2> QED BY <1>1, <1>4, <2>2 DEF IInv, TypeOK, Link, Request, Finish, Idle
<1>6. \A g \in Handlers, i \in 1..MaxCodes :
        HoldsCode(g, i)' => HoldsCode(g, i) /\ req'[g] = req[g] /\ i # k
  BY <1>1 DEF IInv, TypeOK, HoldsCode, Link, Finish, Idle, ExclusiveCodes
<1> HIDE DEF r
<1>7. ExclusiveCodes' /\ HeldCodesAreCurrent'
  BY <1>4, <1>6 DEF IInv, ExclusiveCodes, HeldCodesAreCurrent
<1>8. FoundCodesMatch'
  <2>1. \A g \in Handlers : req'[g].pc = "scanned" => req'[g] = req[g]
    BY DEF IInv, TypeOK, Link, Finish, Idle
  <2>2. \A i \in 1..Len(codes) : codes'[i].phone = codes[i].phone
    BY <1>2, <1>4
  <2> QED BY <1>4, <2>1, <2>2 DEF IInv, FoundCodesMatch
<1>9. LockedAtThree'
  BY <1>1, <1>2, <1>4 DEF IInv, LockedAtThree
<1>10. CodesKept
  <2>1. \A i \in 1..Len(codes) : codes[i].attempts \in Int
    BY AttemptsAreNumbers
  <2> QED BY <1>1, <1>2, <1>4, <2>1 DEF CodesKept
<1> QED BY <1>4, <1>5, <1>7, <1>8, <1>9, <1>10 DEF IInv

LEMMA FindOthersKeepsIInv ==
  ASSUME IInv, NEW h \in Handlers, FindOthers(h)
  PROVE  IInv'
<1> USE LinkAssumption DEF Created
<1>1. TypeOK'
  BY DEF IInv, TypeOK, FindOthers, Request
<1>2. \A g \in Handlers, k \in 1..MaxCodes :
        HoldsCode(g, k)' => /\ HoldsCode(g, k) /\ req'[g].contact = req[g].contact
                            /\ req'[g].pc = "missed" => req'[g] = req[g]
  BY DEF IInv, TypeOK, FindOthers, HoldsCode
<1>3. ExclusiveCodes' /\ HeldCodesAreCurrent'
  BY <1>2 DEF IInv, ExclusiveCodes, HeldCodesAreCurrent, TypeOK, FindOthers
<1>4. FoundCodesMatch' /\ LockedAtThree'
  BY DEF IInv, TypeOK, FoundCodesMatch, LockedAtThree, FindOthers
<1> QED BY <1>1, <1>3, <1>4 DEF IInv

LEMMA UnlinkOthersKeepsIInv ==
  ASSUME IInv, NEW h \in Handlers, UnlinkOthers(h)
  PROVE  IInv'
<1> USE LinkAssumption DEF Created
<1>1. TypeOK'
  BY DEF IInv, TypeOK, UnlinkOthers, Request
<1>2. \A g \in Handlers, k \in 1..MaxCodes :
        HoldsCode(g, k)' => /\ HoldsCode(g, k) /\ req'[g].contact = req[g].contact
                            /\ req'[g].pc = "missed" => req'[g] = req[g]
  BY DEF IInv, TypeOK, UnlinkOthers, HoldsCode
<1>3. ExclusiveCodes' /\ HeldCodesAreCurrent'
  BY <1>2 DEF IInv, ExclusiveCodes, HeldCodesAreCurrent, TypeOK, UnlinkOthers
<1>4. FoundCodesMatch' /\ LockedAtThree'
  BY DEF IInv, TypeOK, FoundCodesMatch, LockedAtThree, UnlinkOthers
<1> QED BY <1>1, <1>3, <1>4 DEF IInv

-----------------------------------------------------------------------------
(* Steps of the users, the administrator, the runner and the clock.        *)

LEMMA InsertCodeKeepsIInv ==
  ASSUME IInv, NEW u \in Users, NEW c \in Contacts, NEW secret \in Secrets,
         InsertCode(u, c, secret)
  PROVE  IInv' /\ CodesKept /\ NoneSpent
<1> USE LinkAssumption DEF Created
<1> DEFINE r == [user |-> u, phone |-> c, secret |-> secret, attempts |-> 0,
                 status |-> "pending", due |-> FALSE]
<1>1. r \in CodeRow /\ r.attempts # MaxAttempts /\ r.status # "locked"
  BY DEF CodeRow, MaxAttempts
<1>2. codes' = Append(codes, r) /\ codes \in Seq(CodeRow) /\ UNCHANGED <<account, contact, req>>
  BY DEF IInv, TypeOK, InsertCode
<1> HIDE DEF r
<1>3. /\ codes' \in Seq(CodeRow) /\ Len(codes') = Len(codes) + 1
      /\ codes'[Len(codes) + 1] = r
      /\ \A k \in 1..Len(codes) : codes'[k] = codes[k]
  BY <1>1, <1>2, AppendProperties
<1>4. TypeOK'
  BY <1>2, <1>3, LenProperties DEF IInv, TypeOK, InsertCode
<1>5. ExclusiveCodes' /\ HeldCodesAreCurrent'
  BY <1>2, <1>3, LenProperties DEF IInv, ExclusiveCodes, HeldCodesAreCurrent, HoldsCode
<1>6. FoundCodesMatch' /\ LockedAtThree'
  <2>1. Len(codes) \in Nat /\ \A k \in 1..Len(codes') : k \in 1..Len(codes) \/ k = Len(codes) + 1
    BY <1>2, <1>3, LenProperties
  <2> QED BY <1>1, <1>2, <1>3, <2>1 DEF IInv, FoundCodesMatch, LockedAtThree
<1>7. CodesKept /\ NoneSpent
  <2>1. \A i \in 1..Len(codes) : codes[i].attempts \in Int
    BY AttemptsAreNumbers
  <2> QED BY <1>2, <1>3, <2>1, LenProperties DEF CodesKept, NoneSpent
<1> QED BY <1>4, <1>5, <1>6, <1>7 DEF IInv

LEMMA DueKeepsIInv ==
  ASSUME IInv, NEW k \in 1..MaxCodes, Due(k)
  PROVE  IInv' /\ CodesKept /\ NoneSpent
<1> USE LinkAssumption DEF Created
<1> DEFINE r == [codes[k] EXCEPT !.due = TRUE]
<1>1. /\ k \in 1..Len(codes) /\ codes' = [codes EXCEPT ![k] = r]
      /\ UNCHANGED <<account, contact, creating, req>>
  BY DEF Due
<1>2. codes[k] \in CodeRow
  BY <1>1, ElementOfSeq DEF IInv, TypeOK
<1>3. /\ r \in CodeRow /\ r.status = codes[k].status /\ r.phone = codes[k].phone
      /\ r.user = codes[k].user /\ r.attempts = codes[k].attempts
  BY <1>2 DEF CodeRow
<1> HIDE DEF r
<1>4. /\ codes' \in Seq(CodeRow) /\ Len(codes') = Len(codes) /\ codes'[k] = r
      /\ \A i \in 1..Len(codes) : i # k => codes'[i] = codes[i]
  BY <1>1, <1>3, CodeRewritten DEF IInv, TypeOK
<1>5. TypeOK'
  BY <1>1, <1>4 DEF IInv, TypeOK
<1>6. ExclusiveCodes' /\ HeldCodesAreCurrent'
  BY <1>1, <1>3, <1>4 DEF IInv, ExclusiveCodes, HeldCodesAreCurrent, HoldsCode
<1>7. FoundCodesMatch' /\ LockedAtThree'
  BY <1>1, <1>3, <1>4 DEF IInv, FoundCodesMatch, LockedAtThree
<1>8. CodesKept /\ NoneSpent
  <2>1. \A i \in 1..Len(codes) : codes[i].attempts \in Int
    BY AttemptsAreNumbers
  <2> QED BY <1>1, <1>3, <1>4, <2>1 DEF CodesKept, NoneSpent
<1> QED BY <1>5, <1>6, <1>7, <1>8 DEF IInv

\* Neither the codes nor the handlers.
LEMMA OthersKeepIInv ==
  ASSUME IInv, UNCHANGED <<codes, req>>,
         account' \in AccountStatus, contact' \in [Contacts -> ContactRow],
         creating' \subseteq Users \X Contacts
  PROVE  IInv'
  BY DEF IInv, TypeOK, ExclusiveCodes, HeldCodesAreCurrent, FoundCodesMatch, LockedAtThree,
         HoldsCode, Created

LEMMA UserStepsKeepIInv ==
  ASSUME IInv, NEW u \in Users, NEW c \in Contacts,
         StartCode(u, c) \/ InsertCodeFails(u, c) \/ RevokeLinked(u, c)
           \/ AllowContact(c) \/ RemoveAllowed(c)
           \/ (\E status \in Reports : SetStatus(status))
  PROVE  IInv'
<1>1. CASE StartCode(u, c)
  BY <1>1, OthersKeepIInv DEF IInv, TypeOK, StartCode
<1>2. CASE InsertCodeFails(u, c)
  BY <1>2, OthersKeepIInv DEF IInv, TypeOK, InsertCodeFails
<1>3. CASE RevokeLinked(u, c) \/ AllowContact(c) \/ RemoveAllowed(c)
  <2>1. contact' \in [Contacts -> ContactRow]
    BY ZenonT(60), <1>3 DEF IInv, TypeOK, RevokeLinked, AllowContact, RemoveAllowed, ContactRow, Blocked
  <2> QED BY <1>3, <2>1, OthersKeepIInv
          DEF IInv, TypeOK, RevokeLinked, AllowContact, RemoveAllowed
<1>4. CASE \E status \in Reports : SetStatus(status)
  BY <1>4, OthersKeepIInv, LinkAssumption DEF IInv, TypeOK, SetStatus, AccountStatus
<1> QED BY <1>1, <1>2, <1>3, <1>4

-----------------------------------------------------------------------------
(* Every step: IInv is inductive, and the codes only advance.              *)

LEMMA HandlerStep ==
  ASSUME IInv, NEW h \in Handlers, Handle(h)
  PROVE  /\ IInv' /\ CodesKept
         /\ NoneSpent \/ Link(h)
<1>1. CASE \E c \in Contacts, text \in Texts : Resolve(h, c, text)
  BY <1>1, ResolveKeepsIInv, UntouchedCodes DEF Resolve
<1>2. CASE CheckCode(h) \/ Answer(h) \/ AnswerFails(h)
  <2>1. UNCHANGED codes
    BY <1>2 DEF CheckCode, Answer, AnswerFails
  <2> QED BY <1>2, <2>1, CheckCodeKeepsIInv, AnswerKeepsIInv, AnswerFailsKeepsIInv, UntouchedCodes
<1>3. CASE Scan(h) \/ FindOthers(h) \/ UnlinkOthers(h) \/ Rollback(h)
  <2>1. UNCHANGED codes
    BY <1>3 DEF Scan, FindOthers, UnlinkOthers, Rollback
  <2> QED BY <1>3, <2>1, ScanKeepsIInv, FindOthersKeepsIInv, UnlinkOthersKeepsIInv,
             RollbackKeepsIInv, UntouchedCodes
<1>4. CASE LockCode(h)
  BY <1>4, LockCodeKeepsIInv
<1>5. CASE Miss(h)
  BY <1>5, MissKeepsIInv
<1>6. CASE Link(h)
  BY <1>6, LinkKeepsIInv
<1> QED BY <1>1, <1>2, <1>3, <1>4, <1>5, <1>6 DEF Handle

LEMMA OtherStep ==
  ASSUME IInv, Next, \A h \in Handlers : ~Handle(h)
  PROVE  IInv' /\ CodesKept /\ NoneSpent
<1>1. CASE \E u \in Users, c \in Contacts, secret \in Secrets : InsertCode(u, c, secret)
  BY <1>1, InsertCodeKeepsIInv
<1>2. CASE \E k \in 1..MaxCodes : Due(k)
  BY <1>2, DueKeepsIInv
<1>3. CASE \E u \in Users, c \in Contacts :
             StartCode(u, c) \/ InsertCodeFails(u, c) \/ RevokeLinked(u, c)
  <2>1. UNCHANGED codes
    BY <1>3 DEF StartCode, InsertCodeFails, RevokeLinked
  <2> QED BY <1>3, <2>1, UserStepsKeepIInv, UntouchedCodes
<1>4. CASE \E c \in Contacts : AllowContact(c) \/ RemoveAllowed(c)
  <2>1. UNCHANGED <<codes, req, account, creating>>
    BY <1>4 DEF AllowContact, RemoveAllowed
  <2>2. PICK c \in Contacts : AllowContact(c) \/ RemoveAllowed(c)
    BY <1>4
  <2>3. contact \in [Contacts -> ContactRow]
    BY DEF IInv, TypeOK
  <2>4. contact' = contact \/ \E row \in ContactRow : contact' = [contact EXCEPT ![c] = row]
    <3>1. CASE AllowContact(c)
      BY <2>2, <2>3, <3>1 DEF AllowContact, ContactRow, Blocked
    <3>2. CASE RemoveAllowed(c)
      BY <2>2, <2>3, <3>2 DEF RemoveAllowed, ContactRow, Blocked
    <3> QED BY <2>2, <3>1, <3>2
  <2>5. contact' \in [Contacts -> ContactRow]
    BY <2>3, <2>4
  <2> QED BY <2>1, <2>5, OthersKeepIInv, UntouchedCodes DEF IInv, TypeOK
<1>5. CASE \E status \in Reports : SetStatus(status)
  <2>1. UNCHANGED <<codes, req, contact, creating>> /\ account' \in AccountStatus
    BY <1>5, LinkAssumption DEF SetStatus, AccountStatus
  <2> QED BY <2>1, OthersKeepIInv, UntouchedCodes DEF IInv, TypeOK
<1> QED BY <1>1, <1>2, <1>3, <1>4, <1>5 DEF Next, UserRequest

LEMMA StutterKeepsIInv == IInv /\ UNCHANGED vars => IInv'
  BY OthersKeepIInv DEF vars, IInv, TypeOK

LEMMA IInvInductive == IInv /\ [Next]_vars => IInv'
  BY HandlerStep, OtherStep, StutterKeepsIInv

\* The row locks, and with them the invariant, hold in every reachable state.
THEOREM RowLocksWork == Spec => []IInv
  BY InitIInv, IInvInductive, PTL DEF Spec

\* Type correctness.
THEOREM TypeCorrect == Spec => []TypeOK
<1>1. IInv => TypeOK
  BY DEF IInv
<1> QED BY <1>1, RowLocksWork, PTL

\* Wrong attempts are never lost, the third one locks the code, and a closed
\* code stays closed.
THEOREM CodesAdvance == Spec => CodesOnlyAdvance
<1> DEFINE Advance == \A k \in Created :
       /\ codes[k].status # "pending" => codes'[k].status = codes[k].status
       /\ codes'[k].attempts >= codes[k].attempts
       /\ codes'[k].attempts = MaxAttempts <=> codes'[k].status = "locked"
<1>1. IInv /\ IInv' /\ [Next]_vars => [Advance]_codes
  <2> SUFFICES ASSUME IInv, IInv', Next, codes' # codes
               PROVE  Advance
    BY DEF vars
  <2>1. CodesKept
    BY HandlerStep, OtherStep
  <2> QED BY <2>1 DEF CodesKept, IInv, LockedAtThree, Created
<1> QED BY <1>1, RowLocksWork, PTL DEF Spec, CodesOnlyAdvance

-----------------------------------------------------------------------------
(* Who a number is linked to.                                              *)

\* What Link does: the code it holds is spent for the number's new user.
LEMMA LinkEffect ==
  ASSUME IInv, NEW h \in Handlers, Link(h)
  PROVE  LET k == req[h].code
         IN /\ k \in 1..Len(codes)
            /\ codes[k].status = "pending" /\ codes'[k].status = "verified"
            /\ codes[k].phone = req[h].contact /\ req[h].contact \in Contacts
            /\ codes[k].user \in Users
            /\ contact'[req[h].contact].linked = codes[k].user
            /\ contact'[req[h].contact].allow = "allowed"
            /\ contact'[req[h].contact].conv = contact[req[h].contact].conv
            /\ \A c \in Contacts \ {req[h].contact} :
                 contact'[c] \in {contact[c], Blocked(contact[c])}
<1> DEFINE k == req[h].code
<1>1. /\ k \in 1..Len(codes) /\ codes[k].status = "pending"
      /\ codes[k].phone = req[h].contact /\ req[h] \in Request /\ codes[k] \in CodeRow
  BY ElementOfSeq DEF IInv, TypeOK, HoldsCode, HeldCodesAreCurrent, Link, Request, Created
<1>2. codes' = [codes EXCEPT ![k] = [codes[k] EXCEPT !.status = "verified"]]
  BY DEF Link
<1>3. codes'[k].status = "verified"
  BY <1>1, <1>2, LenProperties DEF IInv, TypeOK, CodeRow
<1>4. req[h].contact \in Contacts /\ codes[k].user \in Users
  BY <1>1 DEF CodeRow
<1>5. contact[req[h].contact] \in ContactRow
  BY <1>4 DEF IInv, TypeOK
<1>6. /\ contact'[req[h].contact].linked = codes[k].user
      /\ contact'[req[h].contact].allow = "allowed"
      /\ contact'[req[h].contact].conv = contact[req[h].contact].conv
  BY <1>4, <1>5 DEF Link, ContactRow
<1>7. \A c \in Contacts \ {req[h].contact} : contact'[c] \in {contact[c], Blocked(contact[c])}
  BY DEF Link
<1> QED BY <1>1, <1>3, <1>4, <1>6, <1>7

LEMMA BlockedRow ==
  ASSUME NEW row \in ContactRow
  PROVE  Blocked(row).linked = NoUser /\ Blocked(row).conv = NoUser
  BY DEF Blocked, ContactRow

\* What any other step does to a contact row.
LEMMA RowStep ==
  ASSUME IInv, Next, \A h \in Handlers : ~Link(h), NEW c \in Contacts
  PROVE  \/ contact'[c] \in {contact[c], Blocked(contact[c])}
         \/ /\ contact'[c].linked = contact[c].linked /\ contact'[c].conv = contact[c].conv
            /\ \/ contact'[c].allow = "allowed"
               \/ contact[c].allow = "none"
         \/ /\ contact'[c].linked = contact[c].linked /\ contact'[c].allow = contact[c].allow
            /\ \E h \in Handlers : /\ req[h].pc = "answering" /\ req[h].contact = c
                                   /\ contact'[c].conv = req[h].user
<1>0. contact[c] \in ContactRow /\ contact \in [Contacts -> ContactRow]
  BY DEF IInv, TypeOK
<1>1. CASE \E h \in Handlers : Handle(h)
  <2> PICK h \in Handlers : Handle(h)
    BY <1>1
  <2>1. CASE UNCHANGED contact
    BY <2>1
  <2>2. CASE \E d \in Contacts, text \in Texts : Resolve(h, d, text)
    BY <1>0, <2>2 DEF Resolve, ContactRow
  <2>3. CASE Answer(h)
    BY <1>0, <2>3 DEF Answer, ContactRow
  <2> QED BY <2>1, <2>2, <2>3
          DEF Handle, CheckCode, AnswerFails, Scan, LockCode, Miss, FindOthers, UnlinkOthers,
              Rollback
<1>2. CASE \E u \in Users, d \in Contacts : RevokeLinked(u, d)
  BY <1>0, <1>2 DEF RevokeLinked
<1>3. CASE \E d \in Contacts : AllowContact(d)
  BY <1>0, <1>3 DEF AllowContact, ContactRow
<1>4. CASE \E d \in Contacts : RemoveAllowed(d)
  BY <1>0, <1>4 DEF RemoveAllowed
<1>5. CASE UNCHANGED contact
  BY <1>5
<1> QED BY <1>1, <1>2, <1>3, <1>4, <1>5
        DEF Next, UserRequest, StartCode, InsertCode, InsertCodeFails, SetStatus, Due

\* Each link spends a pending code of its own, and nothing else links a number.
THEOREM LinksSpendCodes == Spec => LinkSpendsCode
<1> DEFINE Step ==
      /\ \A c \in Contacts :
          contact'[c].linked \notin {contact[c].linked, NoUser} =>
            \E k \in Created :
               /\ codes[k].status = "pending" /\ codes'[k].status = "verified"
               /\ codes[k].phone = c /\ codes[k].user = contact'[c].linked
      /\ \A k \in Created :
          codes[k].status # "verified" /\ codes'[k].status = "verified" =>
            contact'[codes[k].phone].linked = codes[k].user
<1>1. IInv /\ [Next]_vars => [Step]_vars
  <2> SUFFICES ASSUME IInv, Next
               PROVE  Step
    OBVIOUS
  <2>1. CASE \E h \in Handlers : Link(h)
    <3> PICK h \in Handlers : Link(h)
      BY <2>1
    <3>1. \A c \in Contacts \ {req[h].contact} :
            contact'[c].linked \in {contact[c].linked, NoUser}
      BY LinkEffect, BlockedRow DEF IInv, TypeOK
    <3> QED BY <3>1, LinkEffect, LinkKeepsIInv DEF Created
  <2>2. CASE \A h \in Handlers : ~Link(h)
    <3>1. NoneSpent
      BY <2>2, HandlerStep, OtherStep
    <3>2. \A c \in Contacts : contact'[c].linked \in {contact[c].linked, NoUser}
      BY <2>2, RowStep, BlockedRow DEF IInv, TypeOK
    <3> QED BY <3>1, <3>2 DEF NoneSpent, Created
  <2> QED BY <2>1, <2>2
<1> QED BY <1>1, RowLocksWork, PTL DEF Spec, LinkSpendsCode

-----------------------------------------------------------------------------
(* Who may chat.                                                           *)

LEMMA ProvedStays ==
  ASSUME CodesKept, NEW u, NEW c, Proved(u, c)
  PROVE  Proved(u, c)'
  BY DEF CodesKept, Proved, Created

\* What the handlers know of the user they answer for.
LEMMA RequestStep ==
  ASSUME IInv, Next, NEW g \in Handlers, req'[g].pc \in {"checking", "answering"}
  PROVE  \/ /\ req[g].pc \in {"checking", "answering"}
            /\ req'[g].user = req[g].user /\ req'[g].contact = req[g].contact
         \/ \E c \in Contacts : /\ contact[c].linked # NoUser
                                /\ req'[g].user = contact[c].linked /\ req'[g].contact = c
<1>1. req \in [Handlers -> Request]
  BY DEF IInv, TypeOK
<1>2. CASE UNCHANGED req
  BY <1>2
<1>3. CASE \E h \in Handlers : Handle(h)
  <2> PICK h \in Handlers : Handle(h)
    BY <1>3
  <2>1. CASE \E c \in Contacts, text \in Texts : Resolve(h, c, text)
    <3> PICK c \in Contacts, text \in Texts : Resolve(h, c, text)
      BY <2>1
    <3>1. contact'[c].linked = contact[c].linked
      BY DEF IInv, TypeOK, Resolve, ContactRow
    <3>2. CASE g = h
      BY <1>1, <3>1, <3>2 DEF Resolve, MayChat, ResolvedUser, Idle
    <3>3. CASE g # h
      BY <1>1, <3>3 DEF Resolve
    <3> QED BY <3>2, <3>3
  <2>2. CASE CheckCode(h)
    BY <1>1, <2>2 DEF CheckCode, Idle
  <2>3. CASE Answer(h) \/ AnswerFails(h) \/ Scan(h) \/ Rollback(h) \/ Miss(h) \/ Link(h)
    <3>1. CASE Finish(h)
      BY <1>1, <3>1 DEF Finish, Idle
    <3>2. CASE Scan(h)
      BY <1>1, <3>2 DEF Scan, Idle
    <3> QED BY <2>3, <3>1, <3>2 DEF Answer, AnswerFails, Rollback, Miss, Link
  <2>4. CASE FindOthers(h)
    <3>1. \E r : r.pc = "unlinking" /\ req' = [req EXCEPT ![h] = r]
      <4> DEFINE u == codes[req[h].code].user
                 others == {c \in Contacts \ {req[h].contact} : contact[c].linked = u}
                 r == [pc |-> "unlinking", contact |-> req[h].contact,
                       code |-> req[h].code, others |-> others]
      <4>1. req' = [req EXCEPT ![h] = r]
        BY <2>4 DEF FindOthers
      <4>2. r.pc = "unlinking"
        OBVIOUS
      <4> HIDE DEF r
      <4> QED BY <4>1, <4>2
    <3>2. PICK r : r.pc = "unlinking" /\ req' = [req EXCEPT ![h] = r]
      BY <3>1
    <3> QED BY <1>1, <3>2
  <2>5. CASE UnlinkOthers(h)
    <3>1. \E r : r.pc = "linking" /\ req' = [req EXCEPT ![h] = r]
      <4> DEFINE u == codes[req[h].code].user
                 r == [pc |-> "linking", contact |-> req[h].contact, code |-> req[h].code,
                       others |-> {c \in req[h].others : contact[c].linked = u}]
      <4>1. req' = [req EXCEPT ![h] = r]
        BY <2>5 DEF UnlinkOthers
      <4>2. r.pc = "linking"
        OBVIOUS
      <4> HIDE DEF r
      <4> QED BY <4>1, <4>2
    <3>2. PICK r : r.pc = "linking" /\ req' = [req EXCEPT ![h] = r]
      BY <3>1
    <3> QED BY <1>1, <3>2
  <2>6. CASE LockCode(h)
    <3>1. PICK k \in req[h].found :
            \/ req' = [req EXCEPT ![h] =
                         IF @.found = {k} THEN Idle
                         ELSE [pc |-> "scanned", contact |-> @.contact,
                               text |-> @.text, found |-> @.found \ {k}]]
            \/ req' = [req EXCEPT ![h] = Idle]
            \/ req' = [req EXCEPT ![h] =
                         IF @.text = codes[k].secret
                         THEN [pc |-> "matched", contact |-> @.contact, code |-> k]
                         ELSE [pc |-> "missed", contact |-> @.contact, code |-> k,
                               seen |-> codes[k].attempts]]
      BY <2>6 DEF LockCode, Finish
    <3>2. CASE g = h
      BY <1>1, <3>1, <3>2 DEF Idle
    <3>3. CASE g # h
      BY <1>1, <3>1, <3>3
    <3> QED BY <3>2, <3>3
  <2> QED BY <2>1, <2>2, <2>3, <2>4, <2>5, <2>6 DEF Handle
<1> QED BY <1>2, <1>3
        DEF Next, UserRequest, StartCode, InsertCode, InsertCodeFails, RevokeLinked,
            AllowContact, RemoveAllowed, SetStatus, Due

LEMMA OnlyVerifiedStep ==
  IInv /\ OnlyVerifiedNumbersChat /\ [Next]_vars => OnlyVerifiedNumbersChat'
<1> SUFFICES ASSUME IInv, OnlyVerifiedNumbersChat, Next
             PROVE  OnlyVerifiedNumbersChat'
  <2>1. UNCHANGED vars /\ OnlyVerifiedNumbersChat => OnlyVerifiedNumbersChat'
    BY DEF vars, OnlyVerifiedNumbersChat, Proved, Created
  <2> QED BY <2>1
<1>1. CodesKept
  BY HandlerStep, OtherStep
<1>2. ASSUME NEW g \in Handlers, req'[g].pc \in {"checking", "answering"}
      PROVE  Proved(req[g].user, req[g].contact)'
  BY <1>1, <1>2, RequestStep, ProvedStays DEF OnlyVerifiedNumbersChat
<1>3. ASSUME NEW c \in Contacts, NEW u \in {contact'[c].linked, contact'[c].conv} \ {NoUser}
      PROVE  Proved(u, c)'
  <2>1. CASE u \in {contact[c].linked, contact[c].conv}
    BY <1>1, <2>1, ProvedStays DEF OnlyVerifiedNumbersChat
  <2>2. CASE \E h \in Handlers : /\ req[h].pc = "answering" /\ req[h].contact = c
                                 /\ u = req[h].user
    BY <1>1, <2>2, ProvedStays DEF OnlyVerifiedNumbersChat
  <2>3. CASE \E h \in Handlers : Link(h) /\ c = req[h].contact /\ u = contact'[c].linked
    <3> PICK h \in Handlers : Link(h) /\ c = req[h].contact /\ u = contact'[c].linked
      BY <2>3
    <3> DEFINE k == req[h].code
    <3>1. /\ k \in 1..Len(codes) /\ codes'[k].status = "verified"
          /\ codes[k].phone = c /\ codes[k].user = u
      BY LinkEffect
    <3>2. k \in Created' /\ codes'[k].phone = c /\ codes'[k].user = u
      BY <1>1, <3>1 DEF CodesKept, Created
    <3> QED BY <3>1, <3>2 DEF Proved
  <2>4. CASE \E h \in Handlers : Link(h)
    <3> PICK h \in Handlers : Link(h)
      BY <2>4
    <3>1. CASE c = req[h].contact
      BY <2>1, <2>3, <3>1, LinkEffect
    <3>2. CASE c # req[h].contact
      <4>1. contact'[c] \in {contact[c], Blocked(contact[c])}
        BY <3>2, LinkEffect
      <4> QED BY <2>1, <4>1, BlockedRow DEF IInv, TypeOK
    <3> QED BY <3>1, <3>2
  <2>5. CASE \A h \in Handlers : ~Link(h)
    BY <2>1, <2>2, <2>5, RowStep, BlockedRow DEF IInv, TypeOK
  <2> QED BY <2>4, <2>5
<1> QED BY <1>2, <1>3 DEF OnlyVerifiedNumbersChat

\* README.md:81-86: nobody chats, or is linked, without having verified.
THEOREM UnknownContactsVerifyFirst == Spec => []OnlyVerifiedNumbersChat
<1>1. Init => OnlyVerifiedNumbersChat
  BY DEF Init, OnlyVerifiedNumbersChat, Idle, Blank
<1> QED BY <1>1, OnlyVerifiedStep, RowLocksWork, PTL DEF Spec

\* A linked number can be seen and revoked in the app.
THEOREM LinkedNumbersAreAllowed == Spec => []LinkedIsAllowed
<1>1. Init => LinkedIsAllowed
  BY DEF Init, LinkedIsAllowed, Blank
<1>2. IInv /\ LinkedIsAllowed /\ [Next]_vars => LinkedIsAllowed'
  <2> SUFFICES ASSUME IInv, LinkedIsAllowed, Next, NEW c \in Contacts,
                      contact'[c].linked # NoUser
               PROVE  contact'[c].allow = "allowed"
    BY DEF vars, LinkedIsAllowed
  <2>1. CASE \E h \in Handlers : Link(h)
    BY <2>1, LinkEffect, BlockedRow DEF IInv, TypeOK, LinkedIsAllowed
  <2>2. CASE \A h \in Handlers : ~Link(h)
    BY <2>2, RowStep, BlockedRow DEF IInv, TypeOK, LinkedIsAllowed
  <2> QED BY <2>1, <2>2
<1> QED BY <1>1, <1>2, RowLocksWork, PTL DEF Spec

-----------------------------------------------------------------------------
(* Messages handled one at a time: linking is the registry.                *)

OneHandler == \A g, h \in Handlers : g = h

\* The other numbers of the user of the code that handler h holds.
OthersOf(h) == {c \in Contacts \ {req[h].contact} : contact[c].linked = codes[req[h].code].user}

\* The UPDATE of the user's other numbers misses none, and when it has their locks has them all.
OthersAreKnown ==
  \A h \in Handlers :
    /\ req[h].pc = "unlinking" => OthersOf(h) \subseteq req[h].others /\ req[h].contact \notin req[h].others
    /\ req[h].pc = "linking" => req[h].others = OthersOf(h)

\* What handler h knows while it holds the row of a code.
LEMMA HeldCode ==
  ASSUME IInv, NEW h \in Handlers, req[h].pc \in {"matched", "unlinking", "linking"}
  PROVE  LET k == req[h].code
         IN  /\ k \in 1..Len(codes) /\ codes[k].user \in Users /\ codes[k].user # NoUser
             /\ req[h].contact \in Contacts
             /\ req[h].pc # "matched" => req[h].others \subseteq Contacts
<1> DEFINE k == req[h].code
<1>1. req[h] \in Request
  BY DEF IInv, TypeOK
<1>2. /\ k \in 1..MaxCodes /\ req[h].contact \in Contacts
      /\ req[h].pc # "matched" => req[h].others \subseteq Contacts
  BY <1>1 DEF Request
<1>3. k \in 1..Len(codes)
  BY <1>2 DEF IInv, HeldCodesAreCurrent, HoldsCode, Created
<1>4. codes[k] \in CodeRow
  BY <1>3, ElementOfSeq DEF IInv, TypeOK
<1> QED BY <1>2, <1>3, <1>4, LinkAssumption DEF CodeRow

\* But for Link, a step gives up one number that no transaction holds, or none changes hands.
LEMMA HandsStep ==
  ASSUME IInv, Next, \A h \in Handlers : ~Link(h)
  PROVE  \/ \A c \in Contacts : contact'[c].linked = contact[c].linked
         \/ \E c \in Contacts : ContactFree(c) /\ contact' = [contact EXCEPT ![c] = Blocked(@)]
<1>0. contact \in [Contacts -> ContactRow]
  BY DEF IInv, TypeOK
<1>1. CASE \E h \in Handlers : Handle(h)
  <2> PICK h \in Handlers : Handle(h)
    BY <1>1
  <2>1. CASE UNCHANGED contact
    BY <2>1
  <2>2. CASE \E d \in Contacts, text \in Texts : Resolve(h, d, text)
    BY <1>0, <2>2 DEF Resolve, ContactRow
  <2>3. CASE Answer(h)
    BY <1>0, <2>3 DEF Answer, ContactRow
  <2> QED BY <2>1, <2>2, <2>3
          DEF Handle, CheckCode, AnswerFails, Scan, LockCode, Miss, FindOthers, UnlinkOthers,
              Rollback
<1>2. CASE \E u \in Users, d \in Contacts : RevokeLinked(u, d)
  BY <1>2 DEF RevokeLinked
<1>3. CASE \E d \in Contacts : AllowContact(d)
  BY <1>0, <1>3 DEF AllowContact, ContactRow
<1>4. CASE \E d \in Contacts : RemoveAllowed(d)
  BY <1>4 DEF RemoveAllowed
<1>5. CASE UNCHANGED contact
  BY <1>5
<1> QED BY <1>1, <1>2, <1>3, <1>4, <1>5
        DEF Next, UserRequest, StartCode, InsertCode, InsertCodeFails, SetStatus, Due

\* A step of the only handler.
LEMMA HandlerKnowsOthers ==
  ASSUME IInv, OthersAreKnown, OneHandler, NEW h \in Handlers, Handle(h)
  PROVE  OthersAreKnown'
<1>1. req \in [Handlers -> Request]
  BY DEF IInv, TypeOK
<1>2. \A g \in Handlers : g = h
  BY DEF OneHandler
<1>3. CASE req'[h].pc \notin {"unlinking", "linking"}
  BY <1>2, <1>3 DEF OthersAreKnown
<1>4. CASE FindOthers(h)
  <2>1. PICK S \in SUBSET Contacts : S = OthersOf(h)
    BY DEF OthersOf
  <2>2. /\ req'[h] = [pc |-> "unlinking", contact |-> req[h].contact, code |-> req[h].code, others |-> S]
        /\ UNCHANGED <<contact, codes>>
    BY <1>1, <1>4, <2>1 DEF FindOthers, OthersOf
  <2>3. req'[h].pc = "unlinking" /\ req'[h].others = S /\ req'[h].contact = req[h].contact
        /\ req'[h].code = req[h].code
    BY <2>2
  <2>4. OthersOf(h)' = S /\ req[h].contact \notin S
    BY <2>1, <2>2, <2>3 DEF OthersOf
  <2> QED BY <1>2, <2>3, <2>4 DEF OthersAreKnown
<1>5. CASE UnlinkOthers(h)
  <2>1. req[h].pc = "unlinking"
    BY <1>5 DEF UnlinkOthers
  <2>2. /\ OthersOf(h) \subseteq req[h].others /\ req[h].contact \notin req[h].others
        /\ req[h].others \subseteq Contacts
    BY <2>1, HeldCode DEF OthersAreKnown
  <2>3. OthersOf(h) = {c \in req[h].others : contact[c].linked = codes[req[h].code].user}
    BY <2>2 DEF OthersOf
  <2>4. PICK S : S = OthersOf(h)
    OBVIOUS
  <2>5. /\ req'[h] = [pc |-> "linking", contact |-> req[h].contact, code |-> req[h].code, others |-> S]
        /\ UNCHANGED <<contact, codes>>
    BY <1>1, <1>5, <2>3, <2>4 DEF UnlinkOthers
  <2>6. req'[h].pc = "linking" /\ req'[h].others = S /\ req'[h].contact = req[h].contact
        /\ req'[h].code = req[h].code
    BY <2>5
  <2>7. OthersOf(h)' = S
    BY <2>4, <2>5, <2>6 DEF OthersOf
  <2> QED BY <1>2, <2>6, <2>7 DEF OthersAreKnown
<1>6. CASE ~FindOthers(h) /\ ~UnlinkOthers(h)
  <2>1. CASE \E c \in Contacts, text \in Texts : Resolve(h, c, text)
    BY <1>1, <1>3, <2>1 DEF Resolve, Idle
  <2>2. CASE CheckCode(h) \/ Scan(h)
    BY <1>1, <1>3, <2>2 DEF CheckCode, Scan, Idle
  <2>3. CASE LockCode(h)
    <3>1. PICK k \in req[h].found :
            \/ req' = [req EXCEPT ![h] =
                         IF @.found = {k} THEN Idle
                         ELSE [pc |-> "scanned", contact |-> @.contact,
                               text |-> @.text, found |-> @.found \ {k}]]
            \/ req' = [req EXCEPT ![h] = Idle]
            \/ req' = [req EXCEPT ![h] =
                         IF @.text = codes[k].secret
                         THEN [pc |-> "matched", contact |-> @.contact, code |-> k]
                         ELSE [pc |-> "missed", contact |-> @.contact, code |-> k,
                               seen |-> codes[k].attempts]]
      BY <2>3 DEF LockCode, Finish
    <3> QED BY <1>1, <1>3, <3>1 DEF Idle
  <2>4. CASE Finish(h)
    BY <1>1, <1>3, <2>4 DEF Finish, Idle
  <2> QED BY <1>6, <2>1, <2>2, <2>3, <2>4 DEF Handle, Answer, AnswerFails, Miss, Link, Rollback
<1> QED BY <1>4, <1>5, <1>6

\* A step of the users, the administrator, the runner or the clock.
LEMMA OthersStayKnown ==
  ASSUME IInv, OthersAreKnown, Next, UNCHANGED req, CodesKept, \A h \in Handlers : ~Link(h)
  PROVE  OthersAreKnown'
<1> SUFFICES ASSUME NEW h \in Handlers, req[h].pc \in {"unlinking", "linking"}
             PROVE  /\ OthersOf(h)' \subseteq OthersOf(h)
                    /\ req[h].pc = "linking" => OthersOf(h) \subseteq OthersOf(h)'
  BY DEF OthersAreKnown
<1> DEFINE k == req[h].code
           u == codes[k].user
<1>1. k \in 1..Len(codes) /\ u # NoUser /\ codes'[k].user = u
  BY HeldCode DEF CodesKept
<1>2. CASE \A c \in Contacts : contact'[c].linked = contact[c].linked
  BY <1>1, <1>2 DEF OthersOf
<1>3. ASSUME NEW c \in Contacts, ContactFree(c), contact' = [contact EXCEPT ![c] = Blocked(@)]
      PROVE  /\ OthersOf(h)' \subseteq OthersOf(h)
             /\ req[h].pc = "linking" => OthersOf(h) \subseteq OthersOf(h)'
  <2>1. contact \in [Contacts -> ContactRow] /\ Blocked(contact[c]).linked = NoUser
    BY BlockedRow DEF IInv, TypeOK
  <2>2. \A d \in Contacts : contact'[d].linked = IF d = c THEN NoUser ELSE contact[d].linked
    BY <1>3, <2>1
  <2>3. OthersOf(h)' \subseteq OthersOf(h)
    BY <1>1, <2>2 DEF OthersOf
  <2>4. req[h].pc = "linking" => c \notin OthersOf(h)
    BY <1>3 DEF ContactFree, HoldsContact, OthersAreKnown
  <2>5. req[h].pc = "linking" => OthersOf(h) \subseteq OthersOf(h)'
    BY <1>1, <2>2, <2>4 DEF OthersOf
  <2> QED BY <2>3, <2>5
<1> QED BY <1>2, <1>3, HandsStep

LEMMA NextKnowsOthers ==
  ASSUME IInv, OthersAreKnown, OneHandler, [Next]_vars
  PROVE  OthersAreKnown'
<1>1. CASE \E h \in Handlers : Handle(h)
  BY <1>1, HandlerKnowsOthers
<1>2. CASE Next /\ \A h \in Handlers : ~Handle(h)
  <2>1. CodesKept
    BY <1>2, OtherStep
  <2>2. UNCHANGED req
    BY <1>2 DEF Next, UserRequest, StartCode, InsertCode, InsertCodeFails, RevokeLinked, AllowContact,
       RemoveAllowed, SetStatus, Due
  <2>3. \A h \in Handlers : ~Link(h)
    BY <1>2 DEF Handle
  <2> QED BY <1>2, <2>1, <2>2, <2>3, OthersStayKnown
<1>3. CASE UNCHANGED vars
  BY <1>3 DEF vars, OthersAreKnown, OthersOf
<1> QED BY <1>1, <1>2, <1>3

\* The last UPDATE and the COMMIT take the number in one step.
LEMMA LinkTakes ==
  ASSUME IInv, OthersAreKnown, NEW h \in Handlers, Link(h)
  PROVE  LET u == codes[req[h].code].user
         IN  /\ u \in Users /\ u # NoUser /\ req[h].contact \in Contacts
             /\ \A c \in Contacts :
                  contact'[c].linked = IF c = req[h].contact THEN u
                                       ELSE IF contact[c].linked = u THEN NoUser ELSE contact[c].linked
<1> DEFINE u == codes[req[h].code].user
<1>1. u \in Users /\ u # NoUser /\ req[h].contact \in Contacts
  BY HeldCode DEF Link
<1>2. contact'[req[h].contact].linked = u
  BY LinkEffect
<1>3. ASSUME NEW c \in Contacts, c # req[h].contact
      PROVE  contact'[c].linked = IF contact[c].linked = u THEN NoUser ELSE contact[c].linked
  <2>1. contact'[c] = IF c \in req[h].others THEN Blocked(contact[c]) ELSE contact[c]
    BY <1>3 DEF Link
  <2>2. c \in req[h].others <=> contact[c].linked = u
    BY <1>3 DEF Link, OthersAreKnown, OthersOf
  <2>3. Blocked(contact[c]).linked = NoUser
    BY BlockedRow DEF IInv, TypeOK
  <2> QED BY <2>1, <2>2, <2>3
<1> QED BY <1>1, <1>2, <1>3

LEMMA RegistryInit == Init => Registry!Init
  BY DEF Init, Registry!Init, Blank

LEMMA RegistryStep ==
  ASSUME IInv, OthersAreKnown, [Next]_vars
  PROVE  Registry!Next \/ UNCHANGED [c \in Contacts |-> contact[c].linked]
<1>1. CASE \E h \in Handlers : Link(h)
  <2> PICK h \in Handlers : Link(h)
    BY <1>1
  <2>1. PICK u \in Users, c \in Contacts : u = codes[req[h].code].user /\ c = req[h].contact
    BY LinkTakes
  <2>2. \A d \in Contacts :
          contact'[d].linked = IF d = c THEN u ELSE IF contact[d].linked = u THEN NoUser ELSE contact[d].linked
    BY <2>1, LinkTakes
  <2>3. Registry!Take(u, c)
    BY <2>2 DEF Registry!Take
  <2> QED BY <2>3 DEF Registry!Next
<1>2. CASE Next /\ \A h \in Handlers : ~Link(h)
  <2>1. CASE \A c \in Contacts : contact'[c].linked = contact[c].linked
    BY <2>1
  <2>2. ASSUME NEW c \in Contacts, contact' = [contact EXCEPT ![c] = Blocked(@)]
        PROVE  Registry!Release(c)
    <3>1. contact \in [Contacts -> ContactRow] /\ Blocked(contact[c]).linked = NoUser
      BY BlockedRow DEF IInv, TypeOK
    <3>2. \A d \in Contacts : contact'[d].linked = IF d = c THEN NoUser ELSE contact[d].linked
      BY <2>2, <3>1
    <3> QED BY <3>2 DEF Registry!Release
  <2> QED BY <1>2, <2>1, <2>2, HandsStep DEF Registry!Next
<1>3. CASE UNCHANGED vars
  BY <1>3 DEF vars
<1> QED BY <1>1, <1>2, <1>3

\* With messages handled one at a time, linking is the registry: a number changes hands in one step, which
\* releases the number its user had (VerifyWhatsAppLinkCode, RevokeLinkedWhatsAppContact).
THEOREM LinkingIsRegistry ==
  ASSUME OneHandler
  PROVE  Spec => RefinesRegistry
<1>1. Init => OthersAreKnown
  BY DEF Init, OthersAreKnown, Idle
<1>2. IInv /\ OthersAreKnown /\ [Next]_vars => OthersAreKnown'
  BY NextKnowsOthers
<1>3. IInv /\ OthersAreKnown /\ [Next]_vars =>
        [Registry!Next]_([c \in Contacts |-> contact[c].linked])
  BY RegistryStep
<1> QED BY <1>1, <1>2, <1>3, RegistryInit, RowLocksWork, PTL DEF Spec, RefinesRegistry, Registry!Spec

LEMMA OneNumberStep ==
  ASSUME IInv, OthersAreKnown, OneNumberPerUser, [Next]_vars
  PROVE  OneNumberPerUser'
<1>1. CASE \E h \in Handlers : Link(h)
  <2> PICK h \in Handlers : Link(h)
    BY <1>1
  <2> QED BY LinkTakes DEF OneNumberPerUser
<1>2. CASE Next /\ \A h \in Handlers : ~Link(h)
  <2>1. \A c \in Contacts : contact'[c].linked \in {contact[c].linked, NoUser}
    BY <1>2, HandsStep, BlockedRow DEF IInv, TypeOK
  <2> QED BY <2>1 DEF OneNumberPerUser
<1>3. CASE UNCHANGED vars
  BY <1>3 DEF vars, OneNumberPerUser
<1> QED BY <1>1, <1>2, <1>3

\* With messages handled one at a time, a user has one number at most, though any number of link codes be
\* about (whatsapp_store.go:596): it takes two messages at once to break it.
THEOREM OneNumberOneAtATime ==
  ASSUME OneHandler
  PROVE  Spec => []OneNumberPerUser
<1>1. Init => OthersAreKnown /\ OneNumberPerUser
  BY DEF Init, OthersAreKnown, Idle, OneNumberPerUser, Blank
<1>2. IInv /\ OthersAreKnown /\ OneNumberPerUser /\ [Next]_vars => OthersAreKnown' /\ OneNumberPerUser'
  BY NextKnowsOthers, OneNumberStep
<1> QED BY <1>1, <1>2, RowLocksWork, PTL DEF Spec

=============================================================================
