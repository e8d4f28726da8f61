--------------------------- MODULE Billing_proofs ---------------------------
(***************************************************************************)
(* Theorems of Billing, for every number of requests, users, orders and    *)
(* products, and every clock.                                              *)
(***************************************************************************)
EXTENDS Billing, FiniteSetTheorems, WellFoundedInduction, TLAPS

-----------------------------------------------------------------------------
(* The plan that follows from the rows.                                    *)

LEMMA LeastExists ==
  ASSUME NEW T \in SUBSET Nat, T # {}
  PROVE  \E x \in T : \A y \in T : x <= y
<1> DEFINE R == {ss \in Nat \X Nat : ss[1] < ss[2]}
<1>1. IsWellFoundedOn(R, Nat)
  BY NatLessThanWellFounded DEF OpToRel
<1>2. \E x \in T : \A y \in T : ~(<<y, x>> \in R)
  <2> HIDE DEF R
  <2> QED BY <1>1, WFMin, Zenon
<1>3. \A x, y \in T : <<y, x>> \notin R => x <= y
  OBVIOUS
<1> QED BY <1>2, <1>3

LEMMA LeastValueExists ==
  ASSUME NEW S, S # {}, NEW f \in [S -> Nat]
  PROVE  \E x \in S : \A y \in S : f[x] <= f[y]
<1> DEFINE T == {f[x] : x \in S}
<1>1. T \in SUBSET Nat /\ T # {}
  OBVIOUS
<1>2. PICK n \in T : \A m \in T : n <= m
  <2> HIDE DEF T
  <2> QED BY <1>1, LeastExists
<1> QED BY <1>2

LEMMA ShownIsStatus ==
  ASSUME NEW row \in SubRow
  PROVE  Shown(row) \in SubStatuses
BY DEF Shown, SubRow, SubStatuses, Paying

LEMMA EntitlementFollowsRows ==
  ASSUME NEW rows \in [Keys -> SubRow], NEW t \in Nat
  PROVE  /\ Entitlement(rows, t) \in Account
         /\ Entitlement(rows, t).plan = "pro" => \E k \in Keys : rows[k].age # 0
<1> DEFINE live == {k \in Keys : Live(rows[k], t)}
           newest == CHOOSE k \in live : \A j \in live : rows[k].age <= rows[j].age
           shown == {Shown(rows[k]) : k \in {j \in Keys : Counts(rows[j])}}
           worst == CHOOSE s \in shown : \A x \in shown : Rank(s) <= Rank(x)
<1>1. CASE live # {}
  <2> DEFINE age == [k \in live |-> rows[k].age]
  <2>1. age \in [live -> Nat]
    BY DEF SubRow
  <2>2. \E k \in live : \A j \in live : rows[k].age <= rows[j].age
    <3>1. \E k \in live : \A j \in live : age[k] <= age[j]
      <4> HIDE DEF live, age
      <4> QED BY <1>1, <2>1, LeastValueExists
    <3> QED BY <3>1
  <2>3. newest \in live
    BY <2>2
  <2>4. /\ rows[newest].status \in SubStatuses /\ rows[newest].end \in Nat /\ rows[newest].age # 0
        /\ newest \in Keys
    BY <2>3 DEF SubRow, Live
  <2>5. Entitlement(rows, t) = [plan |-> "pro", status |-> rows[newest].status, until |-> rows[newest].end]
    BY <1>1 DEF Entitlement
  <2> QED BY <2>4, <2>5 DEF Account
<1>2. CASE live = {}
  <2> DEFINE status == IF shown = {} THEN "none" ELSE worst
  <2>1. shown \subseteq SubStatuses
    BY ShownIsStatus
  <2>2. shown # {} => worst \in shown
    <3> DEFINE rank == [s \in shown |-> Rank(s)]
    <3> HIDE DEF shown
    <3>1. rank \in [shown -> Nat]
      BY DEF Rank
    <3>2. shown # {} => \E s \in shown : \A x \in shown : rank[s] <= rank[x]
      <4> HIDE DEF rank
      <4> QED BY <3>1, LeastValueExists
    <3>3. shown # {} => \E s \in shown : \A x \in shown : Rank(s) <= Rank(x)
      BY <3>2
    <3> QED BY <3>3
  <2>3. status \in SubStatuses
    BY <2>1, <2>2 DEF SubStatuses
  <2>4. Entitlement(rows, t) = [plan |-> "free", status |-> status, until |-> NoEnd]
    BY <1>2 DEF Entitlement
  <2> HIDE DEF status
  <2> QED BY <2>3, <2>4 DEF Account, NoEnd
<1> QED BY <1>1, <1>2

LEMMA NormalizedIsStatus ==
  ASSUME NEW s
  PROVE  NormalizeSubscriptionStatus(s) \in SubStatuses
BY DEF NormalizeSubscriptionStatus, SubStatuses, Paying

\* A touched table is a table, and no row is there that was not, but the one touched.
LEMMA TouchedRows ==
  ASSUME NEW rows \in [Keys -> SubRow], NEW k, NEW s \in SubStatuses, NEW e \in Nat
  PROVE  /\ Touched(rows, k, s, e) \in [Keys -> SubRow]
         /\ \A j \in Keys : rows[j].age # 0 => Touched(rows, k, s, e)[j].age # 0
         /\ \A j \in Keys : Touched(rows, k, s, e)[j].age # 0 => j = k \/ rows[j].age # 0
<1> DEFINE new(j) == IF j = k THEN [status |-> s, end |-> e, age |-> 1]
                     ELSE IF rows[j].age # 0 /\ (rows[k].age = 0 \/ rows[j].age < rows[k].age)
                     THEN [rows[j] EXCEPT !.age = @ + 1]
                     ELSE rows[j]
<1>1. Touched(rows, k, s, e) = [j \in Keys |-> new(j)]
  BY DEF Touched
<1>2. ASSUME NEW j \in Keys
      PROVE  /\ new(j) \in SubRow
             /\ rows[j].age # 0 => new(j).age # 0
             /\ new(j).age # 0 => j = k \/ rows[j].age # 0
  BY DEF SubRow
<1> HIDE DEF new
<1> QED BY <1>1, <1>2

-----------------------------------------------------------------------------
(* The invariant, and what steps leave of it.                              *)

Sound(q) == Fits(q) /\ Told(q) /\ Matches(q) /\ Backed(q)

LEMMA IdleIsSound == Idle \in Request /\ Sound(Idle) /\ Idle.pc = "idle"
  BY DEF Idle, Request, Account, Free, SubStatuses, Sound, Fits, Told, Matches, Backed, NoEnd

LEMMA InitIInv == Init => IInv
<1> SUFFICES ASSUME Init PROVE IInv
  OBVIOUS
<1> USE BillingAssumption
<1>1. TypeOK
  <2>1. subs \in [Users -> [Keys -> SubRow]]
    BY DEF Init, SubRow, NoRow, SubStatuses, NoEnd
  <2>2. users \in [Users -> Account]
    BY DEF Init, Account, Free, SubStatuses, NoEnd
  <2>3. txns \in [Orders -> Txn]
    BY DEF Init, Txn, NoTxn, OrderStatuses
  <2>4. reqs \in [Requests -> Request]
    BY IdleIsSound DEF Init
  <2> QED BY <2>1, <2>2, <2>3, <2>4 DEF Init, TypeOK
<1>2. OrdersAreWhole /\ StatusesAreSent
  BY DEF Init, OrdersAreWhole, StatusesAreSent, GatewayStatuses
<1>3. InsertsAreFresh
  BY IdleIsSound DEF Init, InsertsAreFresh
<1>4. RequestsAreSound
  BY IdleIsSound DEF Init, RequestsAreSound, Sound
<1>5. NothingUnpaid
  BY DEF Init, NothingUnpaid, Settled, Payments, NoTxn, NoRow, Free, Keys
<1> QED BY <1>1, <1>2, <1>3, <1>4, <1>5 DEF IInv

\* A step of one request that leaves the tables and Midtrans as they are, but for the account.
LEMMA QuietStep ==
  ASSUME IInv, NEW r \in Requests, NEW row \in Request, Sound(row), row.pc # "insert",
         reqs' = [reqs EXCEPT ![r] = row],
         UNCHANGED <<now, subs, txns, gateway, sent, paidAt, activated, slips>>,
         acked' \in [Orders -> SUBSET Payments],
         users' \in [Users -> Account],
         \A u \in Users : users'[u].plan = "pro" => \E k \in Keys : subs[u][k].age # 0
  PROVE  IInv'
<1>1. TypeOK'
  BY DEF IInv, TypeOK
<1>2. OrdersAreWhole' /\ StatusesAreSent'
  BY DEF IInv, OrdersAreWhole, StatusesAreSent
<1>3. \A q \in Requests : reqs'[q] = IF q = r THEN row ELSE reqs[q]
  BY DEF IInv, TypeOK
<1>4. InsertsAreFresh'
  BY <1>3 DEF IInv, InsertsAreFresh
<1>5. RequestsAreSound'
  <2> SUFFICES ASSUME NEW q \in Requests
               PROVE  (Fits(reqs[q]) /\ Told(reqs[q]) /\ Matches(reqs[q]) /\ Backed(reqs[q]))'
    BY DEF RequestsAreSound
  <2>1. CASE q = r
    BY <1>3, <2>1 DEF Sound, Fits, Told, Matches, Backed, WasPaid
  <2>2. CASE q # r
    <3>1. reqs'[q] = reqs[q]
      BY <1>3, <2>2
    <3>2. Fits(reqs[q]) /\ Told(reqs[q]) /\ Matches(reqs[q]) /\ Backed(reqs[q])
      BY DEF IInv, RequestsAreSound
    <3> QED BY <3>1, <3>2 DEF Fits, Told, Matches, Backed, WasPaid
  <2> QED BY <2>1, <2>2
<1>6. NothingUnpaid'
  BY DEF IInv, NothingUnpaid, Bought, WasPaid
<1> QED BY <1>1, <1>2, <1>4, <1>5, <1>6 DEF IInv

\* Nothing changes in the account.
LEMMA SameAccount ==
  ASSUME IInv, UNCHANGED users
  PROVE  /\ users' \in [Users -> Account]
         /\ \A u \in Users : users'[u].plan = "pro" => \E k \in Keys : subs[u][k].age # 0
  BY DEF IInv, TypeOK, NothingUnpaid

LEMMA RequestIsSound ==
  ASSUME IInv, NEW r \in Requests
  PROVE  reqs[r] \in Request /\ Sound(reqs[r])
  BY DEF IInv, TypeOK, RequestsAreSound, Sound

\* What an answer acknowledges.
LEMMA Acknowledged ==
  ASSUME IInv, NEW r \in Requests, Done(r) \/ UNCHANGED acked
  PROVE  acked' \in [Orders -> SUBSET Payments]
  BY DEF IInv, TypeOK, Done, Settled

Pcs == {"idle", "select", "update", "snap", "insert", "find", "ask", "record", "load", "check",
        "verify", "date", "upsert"}
Thens == {"none", "snap", "find", "load", "verify", "upsert", "reload", "end"}

\* Request q moves on to p, and to t after that, having seen a; what it becomes when it begins.
Moved(q, p) == [q EXCEPT !.pc = p]
MovedSeeing(q, a, p) == [q EXCEPT !.seen = a, !.pc = p]
MovedThen(q, a, t, p) == [q EXCEPT !.seen = a, !.then = t, !.pc = p]
BegunBy(kind, u, t) == [Idle EXCEPT !.kind = kind, !.user = u, !.then = t, !.pc = "select"]
Hooked(u) == [Idle EXCEPT !.kind = "webhook", !.user = u, !.pc = "upsert"]
FoundBy(q, o, u, p, pc) == [q EXCEPT !.order = o, !.user = u, !.product = p, !.pc = pc]
Answered(q, s) == [q EXCEPT !.told = s, !.pc = "record"]
Noticed(o, s) == [Idle EXCEPT !.kind = "notice", !.order = o, !.told = s, !.pc = "find"]

\* All but where it is, and then, and what it has seen of the account.
SameCase(row, q) ==
  /\ row.kind = q.kind /\ row.user = q.user /\ row.order = q.order /\ row.product = q.product
  /\ row.told = q.told

LEMMA MovedOn ==
  ASSUME NEW q \in Request, NEW p \in Pcs
  PROVE  /\ Moved(q, p) \in Request /\ SameCase(Moved(q, p), q)
         /\ Moved(q, p).pc = p /\ Moved(q, p).seen = q.seen /\ Moved(q, p).then = q.then
  BY DEF Request, Pcs, Moved, SameCase

LEMMA MovedOnSeeing ==
  ASSUME NEW q \in Request, NEW p \in Pcs, NEW a \in Account
  PROVE  /\ MovedSeeing(q, a, p) \in Request /\ SameCase(MovedSeeing(q, a, p), q)
         /\ MovedSeeing(q, a, p).pc = p /\ MovedSeeing(q, a, p).seen = a
         /\ MovedSeeing(q, a, p).then = q.then
  BY ZenonT(60) DEF Request, Pcs, MovedSeeing, SameCase

LEMMA MovedOnThen ==
  ASSUME NEW q \in Request, NEW p \in Pcs, NEW a \in Account, NEW t \in Thens
  PROVE  /\ MovedThen(q, a, t, p) \in Request /\ SameCase(MovedThen(q, a, t, p), q)
         /\ MovedThen(q, a, t, p).pc = p /\ MovedThen(q, a, t, p).seen = a
         /\ MovedThen(q, a, t, p).then = t
<1>1. MovedThen(q, a, t, p) \in Request
  BY ZenonT(60) DEF Request, Pcs, Thens, MovedThen
<1>2. SameCase(MovedThen(q, a, t, p), q)
  BY DEF Request, MovedThen, SameCase
<1>3. /\ MovedThen(q, a, t, p).pc = p /\ MovedThen(q, a, t, p).seen = a
      /\ MovedThen(q, a, t, p).then = t
  BY DEF Request, MovedThen
<1> QED BY <1>1, <1>2, <1>3

LEMMA IdleFields ==
  /\ Idle \in Request /\ Idle.seen = Free /\ Idle.then = "none" /\ Idle.told = "none"
  BY IdleIsSound DEF Idle

LEMMA Begun ==
  ASSUME NEW kind \in Kinds, NEW u \in Users, NEW t \in Thens
  PROVE  LET row == BegunBy(kind, u, t)
         IN  /\ row \in Request /\ row.pc = "select" /\ row.seen = Free /\ row.then = t
             /\ row.kind = kind /\ row.user = u /\ row.told = "none"
<1>1. BegunBy(kind, u, t) \in Request
  BY IdleFields DEF Request, Thens, BegunBy
<1> QED BY <1>1, IdleFields DEF Request, BegunBy

LEMMA HookedRow ==
  ASSUME NEW u \in Users, "webhook" \in Kinds
  PROVE  LET row == Hooked(u)
         IN  /\ row \in Request /\ row.pc = "upsert" /\ row.seen = Free /\ row.then = "none"
             /\ row.kind = "webhook" /\ row.user = u /\ row.told = "none"
<1>1. Hooked(u) \in Request
  BY IdleFields DEF Request, Hooked
<1> QED BY <1>1, IdleFields DEF Request, Hooked

LEMMA NoticedRow ==
  ASSUME NEW o \in Orders, NEW s \in GatewayStatuses, "notice" \in Kinds
  PROVE  LET row == Noticed(o, s)
         IN  /\ row \in Request /\ row.pc = "find" /\ row.seen = Free /\ row.then = "none"
             /\ row.kind = "notice" /\ row.order = o /\ row.told = s
<1>1. Noticed(o, s) \in Request
  BY IdleFields DEF Request, Noticed
<1> QED BY <1>1, IdleFields DEF Request, Noticed

LEMMA FoundRow ==
  ASSUME NEW q \in Request, NEW o \in Orders, NEW u \in Users, NEW p \in Products, NEW pc \in {"ask", "record"}
  PROVE  LET row == FoundBy(q, o, u, p, pc)
         IN  /\ row \in Request /\ row.pc = pc /\ row.seen = q.seen /\ row.then = q.then
             /\ row.kind = q.kind /\ row.told = q.told
             /\ row.order = o /\ row.user = u /\ row.product = p
<1>1. FoundBy(q, o, u, p, pc) \in Request
  BY DEF Request, FoundBy
<1> QED BY <1>1 DEF Request, FoundBy

LEMMA AnsweredRow ==
  ASSUME NEW q \in Request, NEW s \in GatewayStatuses
  PROVE  LET row == Answered(q, s)
         IN  /\ row \in Request /\ row.pc = "record" /\ row.seen = q.seen /\ row.then = q.then
             /\ row.kind = q.kind /\ row.told = s
             /\ row.order = q.order /\ row.user = q.user /\ row.product = q.product
<1>1. Answered(q, s) \in Request
  BY DEF Request, Answered
<1> QED BY <1>1 DEF Request, Answered

LEMMA FreeAccount == Free \in Account /\ Free.plan # "pro"
  BY DEF Free, Account, SubStatuses, NoEnd

LEMMA BeginKeepsIInv ==
  ASSUME IInv, NEW r \in Requests, Begin(r)
  PROVE  IInv'
<1>1. PICK kind \in Kinds \cap UserKinds, u \in Users :
        reqs' = [reqs EXCEPT ![r] = BegunBy(kind, u, First(kind))]
  BY DEF Begin, Goto, BegunBy
<1> DEFINE row == BegunBy(kind, u, First(kind))
<1>2. First(kind) \in Thens \ {"none"}
  BY DEF First, Thens
<1>3. /\ row \in Request /\ row.pc = "select" /\ row.seen = Free /\ row.then = First(kind)
      /\ row.kind = kind /\ row.user = u /\ row.told = "none"
  BY <1>2, Begun
<1> HIDE DEF row
<1>4. Sound(row) /\ row.pc # "insert"
  BY <1>2, <1>3, FreeAccount DEF Sound, Fits, Told, Matches, Backed, UserKinds
<1>5. UNCHANGED <<now, subs, users, txns, gateway, sent, paidAt, acked, activated, slips>>
  BY DEF Begin
<1>6. reqs' = [reqs EXCEPT ![r] = row]
  BY <1>1 DEF row
<1> QED BY <1>3, <1>4, <1>5, <1>6, SameAccount, Acknowledged, QuietStep

LEMMA WebhookKeepsIInv ==
  ASSUME IInv, NEW r \in Requests, Webhook(r)
  PROVE  IInv'
<1>1. "webhook" \in Kinds /\ \E u \in Users : reqs' = [reqs EXCEPT ![r] = Hooked(u)]
  BY DEF Webhook, Goto, Hooked
<1>2. PICK u \in Users : reqs' = [reqs EXCEPT ![r] = Hooked(u)]
  BY <1>1
<1> DEFINE row == Hooked(u)
<1>3. /\ row \in Request /\ row.pc = "upsert" /\ row.seen = Free /\ row.then = "none"
      /\ row.kind = "webhook" /\ row.user = u /\ row.told = "none"
  BY <1>1, HookedRow
<1> HIDE DEF row
<1>4. Sound(row) /\ row.pc # "insert"
  BY <1>3, FreeAccount DEF Sound, Fits, Told, Matches, Backed, Stages
<1>5. UNCHANGED <<now, subs, users, txns, gateway, sent, paidAt, acked, activated, slips>>
  BY DEF Webhook
<1>6. reqs' = [reqs EXCEPT ![r] = row]
  BY <1>2 DEF row
<1> QED BY <1>3, <1>4, <1>5, <1>6, SameAccount, Acknowledged, QuietStep

LEMMA NoticeKeepsIInv ==
  ASSUME IInv, NEW r \in Requests, NEW o \in Orders, NEW s \in GatewayStatuses, Notice(r, o, s)
  PROVE  IInv'
<1> DEFINE row == Noticed(o, s)
<1>1. "notice" \in Kinds /\ s \in sent[o]
  BY DEF Notice
<1>2. reqs' = [reqs EXCEPT ![r] = row]
  BY DEF Notice, Goto, Noticed
<1>3. /\ row \in Request /\ row.pc = "find" /\ row.seen = Free /\ row.then = "none"
      /\ row.kind = "notice" /\ row.order = o /\ row.told = s
  BY <1>1, NoticedRow
<1> HIDE DEF row
<1>4. Sound(row) /\ row.pc # "insert"
  BY <1>1, <1>3, FreeAccount DEF Sound, Fits, Told, Matches, Backed, Stages, GatewayStatuses
<1>5. UNCHANGED <<now, subs, users, txns, gateway, sent, paidAt, acked, activated, slips>>
  BY DEF Notice
<1> QED BY <1>2, <1>3, <1>4, <1>5, SameAccount, Acknowledged, QuietStep

\* A request that ends.
LEMMA EndKeepsIInv ==
  ASSUME IInv, NEW r \in Requests, Done(r) \/ Refused(r),
         UNCHANGED <<now, subs, users, txns, gateway, sent, paidAt, activated, slips>>
  PROVE  IInv'
<1>1. reqs' = [reqs EXCEPT ![r] = Idle] /\ (Done(r) \/ UNCHANGED acked)
  BY DEF Done, Refused, Goto
<1> QED BY <1>1, IdleIsSound, SameAccount, Acknowledged, QuietStep

LEMMA SelectRowsKeepsIInv ==
  ASSUME IInv, NEW r \in Requests, SelectRows(r)
  PROVE  IInv'
<1> DEFINE seen == Entitlement(subs[reqs[r].user], now)
           row == MovedSeeing(reqs[r], seen, "update")
<1>1. reqs' = [reqs EXCEPT ![r] = row] /\ reqs[r].pc = "select"
  BY DEF SelectRows, Goto, MovedSeeing
<1>2. reqs[r] \in Request /\ Sound(reqs[r])
  BY RequestIsSound
<1>3. reqs[r].user \in Users
  BY <1>1, <1>2 DEF Sound, Fits
<1>4. seen \in Account /\ (seen.plan = "pro" => \E k \in Keys : subs[reqs[r].user][k].age # 0)
  <2>1. subs[reqs[r].user] \in [Keys -> SubRow] /\ now \in Nat
    BY <1>3 DEF IInv, TypeOK
  <2> QED BY <2>1, EntitlementFollowsRows
<1> HIDE DEF seen
<1>5. /\ row \in Request /\ SameCase(row, reqs[r])
      /\ row.pc = "update" /\ row.seen = seen /\ row.then = reqs[r].then
  <2>1. "update" \in Pcs
    BY DEF Pcs
  <2> QED BY <1>2, <1>4, <2>1, MovedOnSeeing
<1> HIDE DEF row
<1>6. Sound(row) /\ row.pc # "insert"
  BY <1>1, <1>2, <1>3, <1>4, <1>5 DEF SameCase, Sound, Fits, Told, Matches, Backed
<1>7. UNCHANGED <<now, subs, users, txns, gateway, sent, paidAt, acked, activated, slips>>
  BY DEF SelectRows
<1> QED BY <1>1, <1>5, <1>6, <1>7, SameAccount, Acknowledged, QuietStep

LEMMA UpdateUserKeepsIInv ==
  ASSUME IInv, NEW r \in Requests, UpdateUser(r)
  PROVE  IInv'
<1>1. /\ reqs[r].pc = "update"
      /\ users' = [users EXCEPT ![reqs[r].user] = reqs[r].seen]
      /\ UNCHANGED <<now, subs, txns, gateway, sent, paidAt, activated, slips>>
      /\ Done(r) \/ UNCHANGED acked
  BY DEF UpdateUser
<1>2. reqs[r] \in Request /\ Sound(reqs[r])
  BY RequestIsSound
<1>3. reqs[r].user \in Users
  BY <1>1, <1>2 DEF Sound, Fits
<1>4. users' \in [Users -> Account]
  BY <1>1, <1>2 DEF IInv, TypeOK, Request
<1>5. \A u \in Users : users'[u].plan = "pro" => \E k \in Keys : subs[u][k].age # 0
  BY <1>1, <1>2 DEF IInv, TypeOK, NothingUnpaid, Sound, Backed
<1>6. ASSUME NEW t \in Thens, NEW p \in Pcs, p = "select" \/ p = reqs[r].then,
             t = "none" \/ (t = "end" /\ p = "select"), p = "select" => t # "none",
             p \notin {"reload", "end", "none"},
             reqs' = [reqs EXCEPT ![r] = MovedThen(reqs[r], Free, t, p)]
      PROVE  IInv'
  <2> DEFINE row == MovedThen(reqs[r], Free, t, p)
  <2>1. /\ row \in Request /\ SameCase(row, reqs[r])
        /\ row.pc = p /\ row.seen = Free /\ row.then = t
    BY <1>2, FreeAccount, MovedOnThen
  <2>2. reqs' = [reqs EXCEPT ![r] = row]
    BY <1>6
  <2> HIDE DEF row
  <2>3. row.pc = "select" \/ row.pc = First(row.kind)
    BY <1>2, <1>6, <2>1 DEF Sound, Fits, SameCase
  <2>4. row.pc = "select" \/ row.pc \in Stages(row.kind) \ {"insert"}
    BY <1>6, <2>1, <2>3 DEF First, Stages
  <2>5. row.pc # "insert" /\ row.user \in Users
    BY <1>3, <2>1, <2>4 DEF SameCase
  <2>6. row.pc \notin {"select", "update"} => row.pc \in Stages(row.kind)
    BY <2>4
  <2>7. row.then \in {"none", "end"} /\ (row.pc = "select" <=> row.then # "none") /\ row.pc # "update"
    BY <1>6, <2>1, <2>4 DEF Stages
  <2>8. Fits(row)
    BY <2>5, <2>6, <2>7 DEF Fits
  <2>9. Told(row)
    BY <1>1, <1>2, <1>6, <2>1 DEF Sound, Told, Fits, First, SameCase
  <2>10. row.pc \notin {"ask", "record", "date"} /\ (row.pc = "upsert" => row.kind = "platform")
    BY <2>1, <2>3 DEF First
  <2>11. Matches(row) /\ Backed(row)
    BY <2>1, <2>10, FreeAccount DEF Matches, Backed
  <2> QED BY <1>1, <1>4, <1>5, <2>1, <2>2, <2>5, <2>8, <2>9, <2>11, Acknowledged, QuietStep DEF Sound
<1>7. CASE reqs[r].then = "end"
  <2>1. reqs' = [reqs EXCEPT ![r] = Idle]
    BY <1>7 DEF UpdateUser, Done, Goto
  <2> QED BY <1>1, <1>4, <1>5, <2>1, IdleIsSound, Acknowledged, QuietStep
<1>8. CASE reqs[r].then = "reload"
  <2>1. reqs' = [reqs EXCEPT ![r] = MovedThen(reqs[r], Free, "end", "select")]
    BY <1>8 DEF UpdateUser, Goto, MovedThen
  <2>2. "end" \in Thens /\ "select" \in Pcs
    BY DEF Thens, Pcs
  <2> QED BY <1>6, <2>1, <2>2
<1>9. CASE reqs[r].then \notin {"reload", "end"}
  <2>1. reqs' = [reqs EXCEPT ![r] = MovedThen(reqs[r], Free, "none", reqs[r].then)]
    BY <1>9 DEF UpdateUser, Goto, MovedThen
  <2>2. "none" \in Thens /\ reqs[r].then \in Pcs /\ reqs[r].then \notin {"reload", "end", "none", "select"}
    BY <1>1, <1>2, <1>9 DEF Thens, Pcs, Request, Sound, Fits
  <2> QED BY <1>6, <2>1, <2>2
<1> QED BY <1>7, <1>8, <1>9

LEMMA FindKeepsIInv ==
  ASSUME IInv, NEW r \in Requests, Find(r)
  PROVE  IInv'
<1> DEFINE q == reqs[r]
<1>1. q \in Request /\ Sound(q) /\ q.pc = "find"
  BY RequestIsSound DEF Find
<1>2. UNCHANGED <<now, subs, users, txns, gateway, sent, paidAt, acked, activated, slips>>
  BY DEF Find
<1>3. CASE reqs' = [reqs EXCEPT ![r] = Idle]
  BY <1>2, <1>3, IdleIsSound, SameAccount, Acknowledged, QuietStep
<1>4. ASSUME NEW o \in Orders, MayAccess(r, o), q.kind = "notice" => o = q.order,
             NEW pc \in {"ask", "record"}, pc = IF q.kind = "sync" THEN "ask" ELSE "record",
             reqs' = [reqs EXCEPT ![r] = FoundBy(q, o, txns[o].user, txns[o].product, pc)]
      PROVE  IInv'
  <2> DEFINE row == FoundBy(q, o, txns[o].user, txns[o].product, pc)
  <2>1. txns[o].user \in Users /\ txns[o].product \in Products
    BY <1>4 DEF IInv, OrdersAreWhole, MayAccess
  <2> HIDE DEF q
  <2>2. /\ row \in Request /\ row.pc = pc /\ row.seen = q.seen /\ row.then = q.then
        /\ row.kind = q.kind /\ row.told = q.told
        /\ row.order = o /\ row.user = txns[o].user /\ row.product = txns[o].product
    BY <1>1, <2>1, FoundRow
  <2>3. reqs' = [reqs EXCEPT ![r] = row]
    BY <1>4
  <2> HIDE DEF row
  <2>4. q.kind \in {"sync", "notice"} /\ q.then = "none" /\ q.seen.plan # "pro"
    BY <1>1 DEF Sound, Fits, Stages, Backed
  <2>5. Fits(row)
    BY <1>4, <2>1, <2>2, <2>4 DEF Fits, Stages
  <2>6. Told(row)
    BY <1>1, <1>4, <2>2, <2>4 DEF Sound, Told
  <2>7. Matches(row) /\ Backed(row) /\ row.pc # "insert"
    BY <1>4, <2>2, <2>4 DEF Matches, Backed
  <2> QED BY <1>2, <2>2, <2>3, <2>5, <2>6, <2>7, SameAccount, Acknowledged, QuietStep DEF Sound
<1>5. PICK o \in Orders :
        /\ q.kind = "notice" => o = q.order
        /\ \/ reqs' = [reqs EXCEPT ![r] = Idle]
           \/ /\ MayAccess(r, o)
              /\ reqs' = [reqs EXCEPT ![r] = FoundBy(q, o, txns[o].user, txns[o].product,
                                                    IF q.kind = "sync" THEN "ask" ELSE "record")]
  BY DEF Find, Goto, FoundBy
<1> HIDE DEF q
<1> QED BY <1>3, <1>4, <1>5

LEMMA AskKeepsIInv ==
  ASSUME IInv, NEW r \in Requests, Ask(r)
  PROVE  IInv'
<1> DEFINE q == reqs[r]
           row == Answered(q, gateway[q.order])
<1>1. q \in Request /\ Sound(q) /\ q.pc = "ask"
  BY RequestIsSound DEF Ask
<1>2. UNCHANGED <<now, subs, users, txns, gateway, sent, paidAt, acked, activated, slips>>
  BY DEF Ask
<1>3. CASE reqs' = [reqs EXCEPT ![r] = Idle]
  BY <1>2, <1>3, IdleIsSound, SameAccount, Acknowledged, QuietStep
<1>4. CASE gateway[q.order] \in GatewayStatuses /\ reqs' = [reqs EXCEPT ![r] = row]
  <2>1. q.kind = "sync" /\ q.order \in Orders /\ q.then = "none" /\ q.seen.plan # "pro" /\ q.user \in Users
    BY <1>1 DEF Sound, Fits, Stages, Backed, Matches
  <2>2. gateway[q.order] \in sent[q.order] /\ gateway[q.order] # "none"
    BY <1>4, <2>1 DEF IInv, StatusesAreSent, GatewayStatuses
  <2> HIDE DEF q
  <2>3. /\ row \in Request /\ row.pc = "record" /\ row.seen = q.seen /\ row.then = q.then
        /\ row.kind = q.kind /\ row.told = gateway[q.order]
        /\ row.order = q.order /\ row.user = q.user /\ row.product = q.product
    BY <1>1, <1>4, AnsweredRow
  <2>4. reqs' = [reqs EXCEPT ![r] = row]
    BY <1>4
  <2> HIDE DEF row
  <2>5. Fits(row)
    BY <2>1, <2>3 DEF Fits, Stages
  <2>6. Told(row)
    BY <2>1, <2>2, <2>3 DEF Told
  <2>7. Matches(row) /\ Backed(row) /\ row.pc # "insert"
    BY <1>1, <2>1, <2>3 DEF Sound, Matches, Backed
  <2> QED BY <1>2, <2>3, <2>4, <2>5, <2>6, <2>7, SameAccount, Acknowledged, QuietStep DEF Sound
<1>5. \/ reqs' = [reqs EXCEPT ![r] = Idle]
      \/ gateway[q.order] \in GatewayStatuses /\ reqs' = [reqs EXCEPT ![r] = row]
  BY DEF Ask, Goto, Answered
<1> QED BY <1>3, <1>4, <1>5

\* The trial: nothing but the place in the handler changes.
LEMMA TrialKeepsIInv ==
  ASSUME IInv, NEW r \in Requests, Load(r) \/ Check(r)
  PROVE  IInv'
<1> DEFINE q == reqs[r]
<1>1. q \in Request /\ Sound(q) /\ q.pc \in {"load", "check"}
  BY RequestIsSound DEF Load, Check
<1>2. UNCHANGED <<now, subs, users, txns, gateway, sent, paidAt, acked, activated, slips>>
  BY DEF Load, Check
<1>3. CASE reqs' = [reqs EXCEPT ![r] = Idle]
  BY <1>2, <1>3, IdleIsSound, SameAccount, Acknowledged, QuietStep
<1>4. ASSUME NEW p \in {"check", "date"}, reqs' = [reqs EXCEPT ![r] = Moved(q, p)]
      PROVE  IInv'
  <2> DEFINE row == Moved(q, p)
  <2>0. p \in Pcs
    BY DEF Pcs
  <2>1. /\ row \in Request /\ SameCase(row, q)
        /\ row.pc = p /\ row.seen = q.seen /\ row.then = q.then
    BY <1>1, <2>0, MovedOn
  <2>2. reqs' = [reqs EXCEPT ![r] = row]
    BY <1>4
  <2> HIDE DEF row, q
  <2>3. q.kind = "trial" /\ q.then = "none" /\ q.seen.plan # "pro" /\ q.user \in Users
    BY <1>1 DEF Sound, Fits, Stages, Backed
  <2>4. Fits(row)
    BY <2>1, <2>3 DEF Fits, Stages, SameCase
  <2>5. Told(row) /\ Matches(row) /\ Backed(row) /\ row.pc # "insert"
    BY <1>1, <2>1, <2>3 DEF Sound, Told, Matches, Backed, SameCase
  <2> QED BY <1>2, <2>1, <2>2, <2>4, <2>5, SameAccount, Acknowledged, QuietStep DEF Sound
<1>5. \/ reqs' = [reqs EXCEPT ![r] = Idle]
      \/ \E p \in {"check", "date"} : reqs' = [reqs EXCEPT ![r] = Moved(q, p)]
  BY DEF Load, Check, Goto, Moved
<1> HIDE DEF q
<1> QED BY <1>3, <1>4, <1>5

-----------------------------------------------------------------------------
(* Steps that change the tables or Midtrans.                               *)

\* What no step takes back.
Kept ==
  /\ \A o \in Orders : txns[o] # NoTxn =>
       txns'[o].user = txns[o].user /\ txns'[o].product = txns[o].product
  /\ \A o \in Orders : sent[o] \subseteq sent'[o] /\ (gateway[o] = "token" => gateway'[o] = "token")
  /\ \A u \in Users, k \in Keys : subs[u][k].age # 0 => subs'[u][k].age # 0

LEMMA OrdersOfUsers ==
  ASSUME IInv, NEW o \in Orders, txns[o].user \in Users
  PROVE  txns[o] # NoTxn
  BY BillingAssumption DEF NoTxn

LEMMA PaidStays ==
  ASSUME IInv, Kept
  PROVE  /\ \A o \in Orders : WasPaid(o) => WasPaid(o)'
         /\ \A u \in Users, p \in SubProducts : Bought(u, p) => Bought(u, p)'
<1>1. \A o \in Orders : WasPaid(o) => WasPaid(o)'
  BY DEF Kept, WasPaid
<1>2. ASSUME NEW u \in Users, NEW p \in SubProducts, Bought(u, p)
      PROVE  Bought(u, p)'
  <2>1. PICK o \in Orders : txns[o].user = u /\ txns[o].product = p /\ WasPaid(o)
    BY <1>2 DEF Bought
  <2>2. txns'[o].user = u /\ txns'[o].product = p
    BY <2>1, OrdersOfUsers DEF Kept
  <2>3. WasPaid(o)'
    BY <1>1, <2>1
  <2> QED BY <2>2, <2>3 DEF Bought
<1> QED BY <1>1, <1>2

LEMMA SoundStays ==
  ASSUME IInv, Kept, NEW q \in Request, Sound(q)
  PROVE  Sound(q)'
<1>1. Fits(q)'
  BY DEF Sound, Fits
<1>2. Told(q)'
  BY DEF Sound, Told, Kept
<1>3. Matches(q)'
  <2> SUFFICES ASSUME q.pc \in {"ask", "record"} \/ (q.pc \in {"date", "upsert"} /\ q.kind \in {"sync", "notice"})
               PROVE  /\ q.order \in Orders
                      /\ txns'[q.order].user = q.user /\ txns'[q.order].product = q.product
                      /\ q.pc \in {"date", "upsert"} => WasPaid(q.order)'
    BY DEF Matches
  <2>1. /\ q.order \in Orders /\ q.user \in Users
        /\ txns[q.order].user = q.user /\ txns[q.order].product = q.product
        /\ q.pc \in {"date", "upsert"} => WasPaid(q.order)
    BY DEF Sound, Fits, Matches
  <2>2. txns'[q.order].user = q.user /\ txns'[q.order].product = q.product
    BY <2>1, OrdersOfUsers DEF Kept
  <2> QED BY <2>1, <2>2, PaidStays
<1>4. Backed(q)'
  BY DEF Sound, Fits, Backed, Kept
<1> QED BY <1>1, <1>2, <1>3, <1>4 DEF Sound

\* The requests after a step in which those of R end, and r, if it is another one, becomes row.
LEMMA RequestsStaySound ==
  ASSUME IInv, Kept,
         \A q \in Requests : \/ reqs'[q] = reqs[q]
                             \/ reqs'[q] \in Request /\ Sound(reqs[q])'
  PROVE  RequestsAreSound'
<1> SUFFICES ASSUME NEW q \in Requests PROVE Sound(reqs[q])'
  BY DEF RequestsAreSound, Sound
<1>1. CASE reqs'[q] = reqs[q]
  <2>1. PICK row \in Request : row = reqs[q] /\ Sound(row)
    BY RequestIsSound
  <2>2. Sound(row)'
    BY <2>1, SoundStays
  <2> QED BY <1>1, <2>1, <2>2 DEF Sound, Fits, Told, Matches, Backed
<1> QED BY <1>1

\* A request moves on with an order; it goes on with the refresh, and with t after it.
Ordered(q, o, p, pc) == [q EXCEPT !.order = o, !.product = p, !.pc = pc]
Purchased(q, o, p, e) == [q EXCEPT !.order = o, !.product = p, !.end = e, !.pc = "upsert"]
Refreshing(q, t) == [q EXCEPT !.pc = "select", !.then = t]
Renewed(q, t) == [q EXCEPT !.end = NoEnd, !.pc = "select", !.then = t]

LEMMA OrderedRow ==
  ASSUME NEW q \in Request, NEW o \in Orders, NEW p \in Products
  PROVE  LET row == Ordered(q, o, p, "insert")
         IN  /\ row \in Request /\ row.pc = "insert" /\ row.seen = q.seen /\ row.then = q.then
             /\ row.kind = q.kind /\ row.told = q.told
             /\ row.order = o /\ row.user = q.user /\ row.product = p
<1>1. Ordered(q, o, p, "insert") \in Request
  BY DEF Request, Ordered
<1> QED BY <1>1 DEF Request, Ordered

LEMMA PurchasedRow ==
  ASSUME NEW q \in Request, NEW o \in Orders, NEW p \in Products, NEW e \in Nat
  PROVE  LET row == Purchased(q, o, p, e)
         IN  /\ row \in Request /\ row.pc = "upsert" /\ row.seen = q.seen /\ row.then = q.then
             /\ row.kind = q.kind /\ row.told = q.told
             /\ row.order = o /\ row.user = q.user /\ row.product = p
<1>1. Purchased(q, o, p, e) \in Request
  BY DEF Request, Purchased
<1> QED BY <1>1 DEF Request, Purchased

LEMMA RefreshingRow ==
  ASSUME NEW q \in Request, NEW t \in Thens
  PROVE  LET row == Refreshing(q, t)
         IN  /\ row \in Request /\ SameCase(row, q)
             /\ row.pc = "select" /\ row.seen = q.seen /\ row.then = t
<1>1. Refreshing(q, t) \in Request
  BY DEF Request, Thens, Refreshing
<1> QED BY <1>1 DEF Request, Refreshing, SameCase

LEMMA RenewedRow ==
  ASSUME NEW q \in Request, NEW t \in Thens
  PROVE  LET row == Renewed(q, t)
         IN  /\ row \in Request /\ SameCase(row, q)
             /\ row.pc = "select" /\ row.seen = q.seen /\ row.then = t
<1>1. Renewed(q, t) \in Request
  BY DEF Request, Thens, Renewed, NoEnd
<1> QED BY <1>1 DEF Request, Renewed, SameCase

\* What a step must leave to keep NothingUnpaid, if it is not the update of an account.
LEMMA NothingUnpaidStays ==
  ASSUME IInv, Kept, UNCHANGED users,
         \A o \in Orders : txns'[o].status = txns[o].status
                            \/ (Settled(txns'[o].status) => WasPaid(o)'),
         \A u \in Users, p \in SubProducts :
           subs'[u][OfMidtrans(p)].age # 0 => subs[u][OfMidtrans(p)].age # 0 \/ Bought(u, p)
  PROVE  NothingUnpaid'
<1>1. \A o \in Orders : Settled(txns'[o].status) => WasPaid(o)'
  BY PaidStays DEF IInv, NothingUnpaid
<1>2. \A u \in Users, p \in SubProducts : subs'[u][OfMidtrans(p)].age # 0 => Bought(u, p)'
  BY PaidStays DEF IInv, NothingUnpaid
<1>3. \A u \in Users : users'[u].plan = "pro" => \E k \in Keys : subs'[u][k].age # 0
  BY DEF IInv, NothingUnpaid, Kept
<1> QED BY <1>1, <1>2, <1>3 DEF NothingUnpaid, Settled

\* A step of r that becomes row, the others staying where they are.
LEMMA TableStep ==
  ASSUME IInv, Kept, NEW r \in Requests, NEW row \in Request,
         reqs' = [reqs EXCEPT ![r] = row], Sound(row)'
  PROVE  /\ reqs' \in [Requests -> Request]
         /\ \A q \in Requests : reqs'[q] = IF q = r THEN row ELSE reqs[q]
         /\ RequestsAreSound'
<1>1. reqs' \in [Requests -> Request] /\ \A q \in Requests : reqs'[q] = IF q = r THEN row ELSE reqs[q]
  BY DEF IInv, TypeOK
<1>2. Sound(reqs[r])'
  BY <1>1 DEF Sound, Fits, Told, Matches, Backed
<1>3. RequestsAreSound'
  BY <1>1, <1>2, RequestsStaySound
<1> QED BY <1>1, <1>3

LEMMA InterruptedKeepsIInv ==
  ASSUME IInv, NEW R \in SUBSET Requests, Interrupted(R)
  PROVE  IInv'
<1>1. /\ UNCHANGED <<now, subs, users, txns, gateway, sent, paidAt, acked, activated>>
      /\ slips < MaxSlips /\ slips' = slips + 1
      /\ \A q \in Requests : reqs'[q] = IF q \in R THEN Idle ELSE reqs[q]
      /\ reqs' = [q \in Requests |-> IF q \in R THEN Idle ELSE reqs[q]]
  BY DEF Interrupted
<1>2. reqs' \in [Requests -> Request]
  BY <1>1, IdleIsSound DEF IInv, TypeOK
<1>3. slips' \in 0..MaxSlips
  BY <1>1, BillingAssumption DEF IInv, TypeOK
<1>4. TypeOK'
  BY <1>1, <1>2, <1>3 DEF IInv, TypeOK
<1>5. Kept
  BY <1>1 DEF Kept
<1>6. OrdersAreWhole' /\ StatusesAreSent'
  BY <1>1 DEF IInv, OrdersAreWhole, StatusesAreSent
<1>7. InsertsAreFresh'
  BY <1>1, IdleIsSound DEF IInv, InsertsAreFresh
<1>8. Sound(Idle)'
  BY <1>5, IdleIsSound, SoundStays
<1>9. RequestsAreSound'
  <2>1. ASSUME NEW q \in Requests, q \in R
        PROVE  reqs'[q] \in Request /\ Sound(reqs[q])'
    <3>1. reqs'[q] = Idle
      BY <1>1, <2>1
    <3> QED BY <3>1, <1>8, IdleIsSound DEF Sound, Fits, Told, Matches, Backed
  <2>2. \A q \in Requests : q \notin R => reqs'[q] = reqs[q]
    BY <1>1
  <2> QED BY <1>5, <2>1, <2>2, RequestsStaySound
<1>10. NothingUnpaid'
  BY <1>1, <1>5, NothingUnpaidStays
<1> QED BY <1>4, <1>6, <1>7, <1>9, <1>10 DEF IInv

LEMMA CreateSnapKeepsIInv ==
  ASSUME IInv, NEW r \in Requests, CreateSnap(r)
  PROVE  IInv'
<1> DEFINE q == reqs[r]
<1>1. q \in Request /\ Sound(q) /\ q.pc = "snap"
  BY RequestIsSound DEF CreateSnap
<1>2. UNCHANGED <<now, subs, users, txns, sent, paidAt, acked, activated, slips>>
  BY DEF CreateSnap
<1>3. PICK o \in Orders, p \in Products :
        /\ gateway[o] = "none" /\ gateway' = [gateway EXCEPT ![o] = "open"]
        /\ reqs' = [reqs EXCEPT ![r] = Ordered(q, o, p, "insert")]
  BY DEF CreateSnap, Goto, Ordered
<1> DEFINE row == Ordered(q, o, p, "insert")
<1>4. /\ row \in Request /\ row.pc = "insert" /\ row.seen = q.seen /\ row.then = q.then
      /\ row.kind = q.kind /\ row.told = q.told
      /\ row.order = o /\ row.user = q.user /\ row.product = p
  BY <1>1, OrderedRow
<1>5. reqs' = [reqs EXCEPT ![r] = row]
  BY <1>3
<1> HIDE DEF row, q
<1>6. \A x \in Orders : gateway'[x] = IF x = o THEN "open" ELSE gateway[x]
  BY <1>3 DEF IInv, TypeOK
<1>7. Kept
  BY <1>2, <1>3, <1>6 DEF Kept
<1>8. q.kind = "checkout" /\ q.then = "none" /\ q.told = "none" /\ q.seen.plan # "pro" /\ q.user \in Users
  BY <1>1 DEF Sound, Fits, Stages, Told, Backed
<1>9. Sound(row)
  BY <1>4, <1>8 DEF Sound, Fits, Stages, Told, Matches, Backed
<1>10. /\ reqs' \in [Requests -> Request]
       /\ \A x \in Requests : reqs'[x] = IF x = r THEN row ELSE reqs[x]
       /\ RequestsAreSound'
  BY <1>4, <1>5, <1>7, <1>9, SoundStays, TableStep
<1>11. gateway' \in [Orders -> GatewayStatuses \cup {"none", "open", "token"}]
  BY <1>3 DEF IInv, TypeOK
<1>12. TypeOK'
  BY <1>2, <1>10, <1>11 DEF IInv, TypeOK
<1>13. OrdersAreWhole' /\ StatusesAreSent'
  BY <1>2, <1>6 DEF IInv, OrdersAreWhole, StatusesAreSent, GatewayStatuses
<1>14. InsertsAreFresh'
  <2>1. txns[o] = NoTxn
    BY <1>3 DEF IInv, OrdersAreWhole
  <2> QED BY <1>2, <1>3, <1>4, <1>6, <1>10, <2>1 DEF IInv, InsertsAreFresh
<1>15. NothingUnpaid'
  BY <1>2, <1>7, NothingUnpaidStays
<1> QED BY <1>10, <1>12, <1>13, <1>14, <1>15 DEF IInv

LEMMA InsertOrderKeepsIInv ==
  ASSUME IInv, NEW r \in Requests, InsertOrder(r)
  PROVE  IInv'
<1> DEFINE q == reqs[r]
           o == q.order
           new == [user |-> q.user, product |-> q.product, status |-> "pending"]
<1>1. q \in Request /\ Sound(q) /\ q.pc = "insert"
  BY RequestIsSound DEF InsertOrder
<1>2. /\ UNCHANGED <<now, subs, users, gateway, sent, paidAt, activated, slips>>
      /\ txns[o] = NoTxn /\ txns' = [txns EXCEPT ![o] = new]
      /\ reqs' = [reqs EXCEPT ![r] = Idle] /\ Done(r)
  BY DEF InsertOrder, Done, Goto
<1>3. o \in Orders /\ gateway[o] = "open" /\ q.product \in Products /\ q.user \in Users
  BY <1>1 DEF IInv, InsertsAreFresh, Sound, Fits
<1>4. new \in Txn /\ new.user = q.user /\ new.product = q.product /\ new.status = "pending"
  BY <1>3 DEF Txn, OrderStatuses
<1> HIDE DEF new, q
<1>5. \A x \in Orders : txns'[x] = IF x = o THEN new ELSE txns[x]
  BY <1>2 DEF IInv, TypeOK
<1>6. Kept
  BY <1>2, <1>5 DEF Kept
<1>7. /\ reqs' \in [Requests -> Request]
      /\ \A x \in Requests : reqs'[x] = IF x = r THEN Idle ELSE reqs[x]
      /\ RequestsAreSound'
  BY <1>2, <1>6, IdleIsSound, SoundStays, TableStep
<1>8. TypeOK'
  <2>1. txns' \in [Orders -> Txn]
    BY <1>2, <1>4 DEF IInv, TypeOK
  <2> QED BY <1>2, <1>7, <2>1, Acknowledged DEF IInv, TypeOK
<1>9. OrdersAreWhole' /\ StatusesAreSent'
  BY <1>2, <1>3, <1>4, <1>5 DEF IInv, OrdersAreWhole, StatusesAreSent
<1>10. InsertsAreFresh'
  <2>1. ASSUME NEW x \in Requests, x # r, reqs[x].pc = "insert"
        PROVE  reqs[x].order # o
    BY <1>1, <2>1 DEF IInv, InsertsAreFresh, q
  <2> QED BY <1>2, <1>5, <1>7, <2>1, IdleIsSound DEF IInv, InsertsAreFresh
<1>11. NothingUnpaid'
  <2>1. ~Settled(new.status)
    BY <1>4 DEF Settled, Payments
  <2> QED BY <1>2, <1>5, <1>6, <2>1, NothingUnpaidStays DEF Settled
<1> QED BY <1>7, <1>8, <1>9, <1>10, <1>11 DEF IInv

LEMMA NormalizedStatus ==
  ASSUME NEW s \in GatewayStatuses
  PROVE  /\ NormalizeMidtransStatus(s) \in OrderStatuses
         /\ Settled(NormalizeMidtransStatus(s)) => s \in Payments
  BY DEF NormalizeMidtransStatus, GatewayStatuses, OrderStatuses, Settled, Payments

LEMMA RecordKeepsIInv ==
  ASSUME IInv, NEW r \in Requests, Record(r)
  PROVE  IInv'
<1> DEFINE q == reqs[r]
           o == q.order
           status == NormalizeMidtransStatus(q.told)
           new == [txns[o] EXCEPT !.status = status]
<1>1. q \in Request /\ Sound(q) /\ q.pc = "record"
  BY RequestIsSound DEF Record
<1>2. /\ UNCHANGED <<now, subs, users, gateway, sent, paidAt, activated, slips>>
      /\ txns' = [txns EXCEPT ![o] = new]
  BY DEF Record
<1>3. /\ Done(r) \/ UNCHANGED acked
      /\ \/ reqs' = [reqs EXCEPT ![r] = Idle]
         \/ Settled(status) /\ reqs' = [reqs EXCEPT ![r] = Moved(q, "date")]
         \/ q.kind = "sync" /\ reqs' = [reqs EXCEPT ![r] = Refreshing(q, "end")]
  BY DEF Record, Done, Goto, Moved, Refreshing
<1>4. /\ o \in Orders /\ q.user \in Users /\ txns[o].user = q.user /\ txns[o].product = q.product
      /\ q.kind \in {"sync", "notice"} /\ q.then = "none" /\ q.seen.plan # "pro"
      /\ q.told # "none" /\ q.told \in sent[o]
  BY <1>1 DEF Sound, Fits, Stages, Told, Matches, Backed
<1>5. q.told \in GatewayStatuses
  BY <1>1, <1>4 DEF Request
<1>6. txns[o] # NoTxn /\ txns[o] \in Txn
  BY <1>4, OrdersOfUsers DEF IInv, TypeOK
<1>7. new \in Txn /\ new.user = q.user /\ new.product = q.product /\ new.status = status
  BY <1>4, <1>5, <1>6, NormalizedStatus DEF Txn
<1>8. Settled(status) => WasPaid(o)
  BY <1>4, <1>5, NormalizedStatus DEF WasPaid
<1> HIDE DEF new, status, q
<1>9. \A x \in Orders : txns'[x] = IF x = o THEN new ELSE txns[x]
  BY <1>2 DEF IInv, TypeOK
<1>10. Kept
  BY <1>2, <1>4, <1>7, <1>9 DEF Kept
<1>11. OrdersAreWhole' /\ StatusesAreSent'
  BY <1>2, <1>4, <1>6, <1>7, <1>9 DEF IInv, OrdersAreWhole, StatusesAreSent
<1>12. NothingUnpaid'
  <2>1. \A x \in Orders : WasPaid(x) => WasPaid(x)'
    BY <1>10, PaidStays
  <2>2. ASSUME NEW x \in Orders
        PROVE  txns'[x].status = txns[x].status \/ (Settled(txns'[x].status) => WasPaid(x)')
    <3>1. CASE x = o
      <4>1. txns'[x].status = status
        BY <1>7, <1>9, <3>1
      <4>2. Settled(status) => WasPaid(x)
        BY <1>8, <3>1
      <4>3. Settled(txns'[x].status) => Settled(status)
        BY <4>1 DEF Settled
      <4> QED BY <2>1, <4>2, <4>3
    <3>2. CASE x # o
      BY <1>9, <3>2
    <3> QED BY <3>1, <3>2
  <2> QED BY <1>2, <1>10, <2>2, NothingUnpaidStays
<1>13. ASSUME NEW row \in Request, row.pc # "insert", Sound(row)', reqs' = [reqs EXCEPT ![r] = row]
       PROVE  IInv'
  <2>1. /\ reqs' \in [Requests -> Request]
        /\ \A x \in Requests : reqs'[x] = IF x = r THEN row ELSE reqs[x]
        /\ RequestsAreSound'
    BY <1>10, <1>13, TableStep
  <2>2. TypeOK'
    <3>1. txns' \in [Orders -> Txn]
      BY <1>2, <1>7 DEF IInv, TypeOK
    <3> QED BY <1>2, <1>3, <2>1, <3>1, Acknowledged DEF IInv, TypeOK
  <2>3. InsertsAreFresh'
    <3>1. \A x \in Requests : reqs[x].pc = "insert" => reqs[x].order # o
      BY <1>6 DEF IInv, InsertsAreFresh
    <3> QED BY <1>2, <1>9, <1>13, <2>1, <3>1 DEF IInv, InsertsAreFresh
  <2> QED BY <1>11, <1>12, <2>1, <2>2, <2>3 DEF IInv
<1>14. CASE reqs' = [reqs EXCEPT ![r] = Idle]
  BY <1>10, <1>13, <1>14, IdleIsSound, SoundStays
<1>15. CASE Settled(status) /\ reqs' = [reqs EXCEPT ![r] = Moved(q, "date")]
  <2> DEFINE row == Moved(q, "date")
  <2>1. "date" \in Pcs
    BY DEF Pcs
  <2>2. /\ row \in Request /\ SameCase(row, q)
        /\ row.pc = "date" /\ row.seen = q.seen /\ row.then = q.then
    BY <1>1, <2>1, MovedOn
  <2>3. reqs' = [reqs EXCEPT ![r] = row]
    BY <1>15
  <2> HIDE DEF row
  <2>4. Fits(row) /\ Told(row)
    BY <1>4, <2>2 DEF Fits, Told, Stages, SameCase
  <2>5. Matches(row) /\ Backed(row)
    BY <1>4, <1>8, <1>15, <2>2 DEF Matches, Backed, SameCase
  <2> QED BY <1>10, <1>13, <2>2, <2>3, <2>4, <2>5, SoundStays DEF Sound
<1>16. CASE q.kind = "sync" /\ reqs' = [reqs EXCEPT ![r] = Refreshing(q, "end")]
  <2> DEFINE row == Refreshing(q, "end")
  <2>1. "end" \in Thens
    BY DEF Thens
  <2>2. /\ row \in Request /\ SameCase(row, q)
        /\ row.pc = "select" /\ row.seen = q.seen /\ row.then = "end"
    BY <1>1, <2>1, RefreshingRow
  <2>3. reqs' = [reqs EXCEPT ![r] = row]
    BY <1>16
  <2> HIDE DEF row
  <2>4. Fits(row) /\ Told(row) /\ Matches(row) /\ Backed(row)
    BY <1>4, <2>2 DEF Fits, Told, Matches, Backed, SameCase
  <2> QED BY <1>10, <1>13, <2>2, <2>3, <2>4, SoundStays DEF Sound
<1> QED BY <1>3, <1>14, <1>15, <1>16

\* Every period ends, and later than it begins.
LEMMA PeriodsEnd ==
  ASSUME NEW t \in 1..MaxTime, NEW p
  PROVE  PeriodEnd(p, t) \in Nat /\ PeriodEnd(p, t) > t
<1>1. Month[t] \in Nat \ {0} /\ Year[t] \in Nat \ {0}
  BY BillingAssumption
<1> QED BY <1>1 DEF PeriodEnd

\* The end is reckoned: nothing else changes in the request, and nothing outside it.
DatedRow(q, e) == [q EXCEPT !.pc = "upsert", !.end = e]

LEMMA DateKeepsIInv ==
  ASSUME IInv, NEW r \in Requests, Date(r)
  PROVE  IInv'
<1> DEFINE q == reqs[r]
           e == IF q.kind = "trial" THEN now + TrialLength ELSE PeriodEnd(q.product, now)
           row == DatedRow(q, e)
<1>1. q \in Request /\ Sound(q) /\ q.pc = "date"
  BY RequestIsSound DEF Date
<1>2. UNCHANGED <<now, subs, users, txns, gateway, sent, paidAt, acked, activated, slips>>
  BY DEF Date
<1>3. reqs' = [reqs EXCEPT ![r] = row]
  BY DEF Date, Goto, DatedRow
<1>4. e \in Nat
  <2>1. now \in 1..MaxTime /\ now + TrialLength \in Nat
    BY BillingAssumption DEF IInv, TypeOK
  <2> QED BY <2>1, PeriodsEnd
<1> HIDE DEF e, q
<1>5. row \in Request
  BY <1>1, <1>4 DEF Request, DatedRow
<1>6. SameCase(row, q) /\ row.pc = "upsert" /\ row.seen = q.seen /\ row.then = q.then
  BY <1>1 DEF Request, DatedRow, SameCase
<1> HIDE DEF row
<1>7. /\ q.kind \in {"sync", "notice", "trial"} /\ q.then = "none" /\ q.seen.plan # "pro"
      /\ q.user \in Users
  BY <1>1 DEF Sound, Fits, Stages, Backed
<1>8. Fits(row) /\ Told(row)
  BY <1>1, <1>6, <1>7 DEF Sound, Fits, Told, Stages, SameCase
<1>9. Matches(row) /\ Backed(row) /\ row.pc # "insert"
  BY <1>1, <1>6, <1>7 DEF Sound, Matches, Backed, SameCase
<1> QED BY <1>2, <1>3, <1>5, <1>8, <1>9, SameAccount, Acknowledged, QuietStep DEF Sound

LEMMA VerifyKeepsIInv ==
  ASSUME IInv, NEW r \in Requests, Verify(r)
  PROVE  IInv'
<1> DEFINE q == reqs[r]
           new(p) == [user |-> q.user, product |-> p, status |-> "settlement"]
<1>1. q \in Request /\ Sound(q) /\ q.pc = "verify"
  BY RequestIsSound DEF Verify
<1>2. UNCHANGED <<now, subs, users, sent, paidAt, acked, activated, slips>>
  BY DEF Verify
<1>3. PICK o \in Orders, p \in PlayProducts :
        /\ gateway[o] \in {"none", "token"} /\ gateway' = [gateway EXCEPT ![o] = "token"]
        /\ \/ UNCHANGED txns
           \/ txns[o] = NoTxn /\ txns' = [txns EXCEPT ![o] = new(p)]
        /\ reqs' = [reqs EXCEPT ![r] = Purchased(q, o, p, PeriodEnd(p, now))]
  BY DEF Verify, Goto, Purchased
<1> DEFINE row == Purchased(q, o, p, PeriodEnd(p, now))
           txn == new(p)
<1>4. p \in Products /\ PeriodEnd(p, now) \in Nat
  BY BillingAssumption, PeriodsEnd DEF Products, IInv, TypeOK
<1>5. q.kind = "android" /\ q.then = "none" /\ q.told = "none" /\ q.seen.plan # "pro" /\ q.user \in Users
  BY <1>1 DEF Sound, Fits, Stages, Told, Backed
<1>6. /\ row \in Request /\ row.pc = "upsert" /\ row.seen = q.seen /\ row.then = q.then
      /\ row.kind = q.kind /\ row.told = q.told
      /\ row.order = o /\ row.user = q.user /\ row.product = p
  BY <1>1, <1>4, PurchasedRow
<1>7. txn \in Txn /\ txn.user = q.user /\ txn.product = p
  BY <1>4, <1>5 DEF Txn, OrderStatuses
<1>8. reqs' = [reqs EXCEPT ![r] = row]
  BY <1>3
<1>9. \/ UNCHANGED txns
      \/ /\ txns[o] = NoTxn /\ txns' = [txns EXCEPT ![o] = txn]
         /\ \A x \in Orders : txns'[x] = IF x = o THEN txn ELSE txns[x]
  BY <1>3 DEF IInv, TypeOK
<1> HIDE DEF row, txn, q
<1>10. \A x \in Orders : gateway'[x] = IF x = o THEN "token" ELSE gateway[x]
  BY <1>3 DEF IInv, TypeOK
<1>11. Kept
  BY <1>2, <1>9, <1>10 DEF Kept
<1>12. Sound(row)
  BY <1>5, <1>6 DEF Sound, Fits, Stages, Told, Matches, Backed
<1>13. /\ reqs' \in [Requests -> Request]
       /\ \A x \in Requests : reqs'[x] = IF x = r THEN row ELSE reqs[x]
       /\ RequestsAreSound'
  BY <1>6, <1>8, <1>11, <1>12, SoundStays, TableStep
<1>14. TypeOK'
  <2>1. gateway' \in [Orders -> GatewayStatuses \cup {"none", "open", "token"}]
    BY <1>3 DEF IInv, TypeOK
  <2>2. txns' \in [Orders -> Txn]
    BY <1>7, <1>9 DEF IInv, TypeOK
  <2> QED BY <1>2, <1>13, <2>1, <2>2 DEF IInv, TypeOK
<1>15. OrdersAreWhole' /\ StatusesAreSent'
  BY <1>2, <1>4, <1>5, <1>7, <1>9, <1>10 DEF IInv, OrdersAreWhole, StatusesAreSent, GatewayStatuses
<1>16. InsertsAreFresh'
  <2>1. \A x \in Requests : reqs[x].pc = "insert" => reqs[x].order # o
    BY <1>3 DEF IInv, InsertsAreFresh
  <2> QED BY <1>6, <1>9, <1>10, <1>13, <2>1 DEF IInv, InsertsAreFresh
<1>17. NothingUnpaid'
  <2>1. WasPaid(o)'
    BY <1>10 DEF WasPaid
  <2>2. \A x \in Orders : txns'[x].status = txns[x].status \/ (Settled(txns'[x].status) => WasPaid(x)')
    BY <1>9, <2>1
  <2> QED BY <1>2, <1>11, <2>2, NothingUnpaidStays
<1> QED BY <1>13, <1>14, <1>15, <1>16, <1>17 DEF IInv

\* What a request asks for ends at some time, and is a row of Midtrans only if its order is.
LEMMA WantedRow ==
  ASSUME IInv, NEW r \in Requests, NEW w \in Wanted(r)
  PROVE  /\ w[3] \in Nat
         /\ reqs[r].kind \in {"sync", "notice"} => w[1] = OfMidtrans(reqs[r].product)
         /\ reqs[r].kind \notin {"sync", "notice"} => \A p : w[1] # OfMidtrans(p)
<1>1. reqs[r].end \in Nat
  BY RequestIsSound DEF Request
<1>2. now \in Nat /\ now + Month[now] \in Nat /\ NoEnd \in Nat
  BY BillingAssumption DEF IInv, TypeOK, NoEnd
<1>3. CASE reqs[r].kind \in {"sync", "notice"}
  BY <1>1, <1>3 DEF Wanted
<1>4. CASE reqs[r].kind = "android"
  BY <1>1, <1>4 DEF Wanted, OfPlay, OfMidtrans
<1>5. CASE reqs[r].kind = "trial"
  BY <1>1, <1>5 DEF Wanted, Trial, OfMidtrans
<1>6. CASE reqs[r].kind \notin {"sync", "notice", "android", "trial"}
  BY <1>2, <1>6 DEF Wanted, OfStore, OfMidtrans
<1> QED BY <1>3, <1>4, <1>5, <1>6

LEMMA UpsertKeepsIInv ==
  ASSUME IInv, NEW r \in Requests, Upsert(r)
  PROVE  IInv'
<1> DEFINE q == reqs[r]
           u == q.user
<1>1. q \in Request /\ Sound(q) /\ q.pc = "upsert"
  BY RequestIsSound DEF Upsert
<1>2. /\ UNCHANGED <<now, users, txns, gateway, sent, paidAt, acked, slips>>
      /\ activated' \in SUBSET Orders
  <2>1. q.kind \in {"sync", "notice"} => q.order \in Orders
    BY <1>1 DEF Sound, Matches
  <2> QED BY <2>1 DEF Upsert, IInv, TypeOK
<1>3. PICK w \in Wanted(r) :
        subs' = [subs EXCEPT ![u] = Touched(@, w[1], NormalizeSubscriptionStatus(w[2]), w[3])]
  BY DEF Upsert
<1>4. PICK t \in {"reload", "end"} : reqs' = [reqs EXCEPT ![r] = Renewed(q, t)]
  BY DEF Upsert, Goto, Renewed
<1> DEFINE rows == Touched(subs[u], w[1], NormalizeSubscriptionStatus(w[2]), w[3])
           row == Renewed(q, t)
<1>5. u \in Users /\ q.seen.plan # "pro"
  BY <1>1 DEF Sound, Fits, Backed
<1>6. subs[u] \in [Keys -> SubRow]
  BY <1>5 DEF IInv, TypeOK
<1>7. /\ rows \in [Keys -> SubRow]
      /\ \A j \in Keys : subs[u][j].age # 0 => rows[j].age # 0
      /\ \A j \in Keys : rows[j].age # 0 => j = w[1] \/ subs[u][j].age # 0
  <2>1. NormalizeSubscriptionStatus(w[2]) \in SubStatuses /\ w[3] \in Nat
    BY NormalizedIsStatus, WantedRow
  <2> QED BY <1>6, <2>1, TouchedRows
<1>8. t \in Thens
  BY DEF Thens
<1>9. /\ row \in Request /\ SameCase(row, q)
      /\ row.pc = "select" /\ row.seen = q.seen /\ row.then = t
  BY <1>1, <1>8, RenewedRow
<1>10. reqs' = [reqs EXCEPT ![r] = row] /\ subs' = [subs EXCEPT ![u] = rows]
  BY <1>3, <1>4
<1> HIDE DEF rows, row
<1>11. subs' \in [Users -> [Keys -> SubRow]]
  BY <1>7, <1>10 DEF IInv, TypeOK
<1>12. \A v \in Users : subs'[v] = IF v = u THEN rows ELSE subs[v]
  BY <1>10 DEF IInv, TypeOK
<1>13. Kept
  BY <1>2, <1>7, <1>12 DEF Kept
<1>14. Sound(row)
  <2>1. row.kind = "notice" => row.told # "none"
    BY <1>1, <1>9 DEF Sound, Told, SameCase
  <2>2. Told(row)
    BY <1>1, <1>9, <2>1 DEF Sound, Told, SameCase, First
  <2>3. Fits(row) /\ Matches(row) /\ Backed(row)
    BY <1>5, <1>9 DEF Fits, Matches, Backed, SameCase
  <2> QED BY <2>2, <2>3 DEF Sound
<1>15. /\ reqs' \in [Requests -> Request]
       /\ \A x \in Requests : reqs'[x] = IF x = r THEN row ELSE reqs[x]
       /\ RequestsAreSound'
  BY <1>9, <1>10, <1>13, <1>14, SoundStays, TableStep
<1>16. TypeOK'
  BY <1>2, <1>11, <1>15 DEF IInv, TypeOK
<1>17. OrdersAreWhole' /\ StatusesAreSent'
  BY <1>2 DEF IInv, OrdersAreWhole, StatusesAreSent
<1>18. InsertsAreFresh'
  BY <1>2, <1>9, <1>15 DEF IInv, InsertsAreFresh
<1>19. NothingUnpaid'
  <2>1. ASSUME NEW v \in Users, NEW p \in SubProducts, subs'[v][OfMidtrans(p)].age # 0
        PROVE  subs[v][OfMidtrans(p)].age # 0 \/ Bought(v, p)
    <3>1. CASE v = u /\ w[1] = OfMidtrans(p)
      <4>1. q.kind \in {"sync", "notice"} /\ OfMidtrans(q.product) = OfMidtrans(p)
        BY <3>1, WantedRow
      <4>2. q.product = p
        BY <4>1 DEF OfMidtrans
      <4>3. q.order \in Orders /\ txns[q.order].user = u /\ txns[q.order].product = p /\ WasPaid(q.order)
        BY <1>1, <4>1, <4>2 DEF Sound, Matches
      <4> QED BY <3>1, <4>3 DEF Bought
    <3>2. OfMidtrans(p) \in Keys
      BY DEF Keys
    <3>3. CASE ~(v = u /\ w[1] = OfMidtrans(p))
      BY <1>7, <1>12, <2>1, <3>2, <3>3
    <3> QED BY <3>1, <3>3
  <2> QED BY <1>2, <1>13, <2>1, NothingUnpaidStays
<1> QED BY <1>15, <1>16, <1>17, <1>18, <1>19 DEF IInv

\* Midtrans does not touch an order before its row is there, nor a purchase of Google Play.
LEMMA BecomesStatus ==
  ASSUME NEW o, NEW s \in Becomes(o)
  PROVE  /\ s \in GatewayStatuses /\ gateway[o] \notin {"none", "token"}
         /\ gateway[o] = "open" => txns[o] # NoTxn
  BY DEF Becomes, GatewayStatuses

LEMMA MidtransKeepsIInv ==
  ASSUME IInv, NEW o \in Orders, Midtrans(o)
  PROVE  IInv'
<1>1. PICK s \in Becomes(o) :
        /\ gateway' = [gateway EXCEPT ![o] = s]
        /\ sent' = [sent EXCEPT ![o] = @ \cup {s}]
        /\ paidAt' = [paidAt EXCEPT ![o] = IF s \in Payments /\ @ = 0 THEN now ELSE @]
        /\ UNCHANGED <<now, subs, users, txns, acked, reqs, activated, slips>>
  BY DEF Midtrans
<1>2. s \in GatewayStatuses /\ gateway[o] \notin {"none", "token"} /\ (gateway[o] = "open" => txns[o] # NoTxn)
  BY BecomesStatus
<1>3. s \notin {"none", "open", "token"}
  BY <1>2 DEF GatewayStatuses
<1>4. /\ \A x \in Orders : gateway'[x] = IF x = o THEN s ELSE gateway[x]
      /\ \A x \in Orders : sent'[x] = IF x = o THEN sent[o] \cup {s} ELSE sent[x]
  BY <1>1 DEF IInv, TypeOK
<1>5. Kept
  BY <1>1, <1>2, <1>4 DEF Kept
<1>6. TypeOK'
  BY <1>1, <1>2 DEF IInv, TypeOK
<1>7. OrdersAreWhole' /\ StatusesAreSent'
  BY <1>1, <1>3, <1>4 DEF IInv, OrdersAreWhole, StatusesAreSent
<1>8. InsertsAreFresh'
  BY <1>1, <1>2, <1>4 DEF IInv, InsertsAreFresh
<1>9. RequestsAreSound'
  BY <1>1, <1>5, RequestsStaySound
<1>10. NothingUnpaid'
  BY <1>1, <1>5, NothingUnpaidStays
<1> QED BY <1>6, <1>7, <1>8, <1>9, <1>10 DEF IInv

\* Time passes, or nothing happens.
LEMMA TimeKeepsIInv ==
  ASSUME IInv, Tick \/ UNCHANGED vars
  PROVE  IInv'
<1>1. /\ UNCHANGED <<subs, users, txns, gateway, sent, paidAt, acked, reqs, activated, slips>>
      /\ now' \in 1..MaxTime /\ now <= now'
  BY BillingAssumption DEF IInv, TypeOK, Tick, vars
<1>2. Kept
  BY <1>1 DEF Kept
<1>3. TypeOK'
  BY <1>1 DEF IInv, TypeOK
<1>4. OrdersAreWhole' /\ StatusesAreSent' /\ InsertsAreFresh'
  BY <1>1 DEF IInv, OrdersAreWhole, StatusesAreSent, InsertsAreFresh
<1>5. RequestsAreSound'
  BY <1>1, <1>2, RequestsStaySound
<1>6. NothingUnpaid'
  BY <1>1, <1>2, NothingUnpaidStays
<1> QED BY <1>3, <1>4, <1>5, <1>6 DEF IInv

LEMMA NextKeepsIInv ==
  ASSUME IInv, [Next]_vars
  PROVE  IInv'
<1>1. ASSUME NEW r \in Requests, Step(r)
      PROVE  IInv'
  <2>1. CASE NoOrderLeft(r) \/ VerifyFails(r)
    BY <2>1, EndKeepsIInv DEF NoOrderLeft, VerifyFails
  <2>2. CASE SelectRows(r) \/ UpdateUser(r) \/ CreateSnap(r) \/ InsertOrder(r) \/ Find(r) \/ Ask(r)
    BY <2>2, SelectRowsKeepsIInv, UpdateUserKeepsIInv, CreateSnapKeepsIInv, InsertOrderKeepsIInv,
       FindKeepsIInv, AskKeepsIInv
  <2>3. CASE Record(r) \/ Load(r) \/ Check(r) \/ Verify(r) \/ Date(r) \/ Upsert(r)
    BY <2>3, RecordKeepsIInv, TrialKeepsIInv, VerifyKeepsIInv, DateKeepsIInv, UpsertKeepsIInv
  <2> QED BY <1>1, <2>1, <2>2, <2>3 DEF Step
<1>2. CASE \E r \in Requests : Begin(r) \/ Webhook(r) \/ Step(r)
  BY <1>1, <1>2, BeginKeepsIInv, WebhookKeepsIInv
<1>3. CASE \E r \in Requests, o \in Orders, s \in GatewayStatuses : Notice(r, o, s)
  BY <1>3, NoticeKeepsIInv
<1>4. CASE \E R \in SUBSET Requests : Interrupted(R)
  BY <1>4, InterruptedKeepsIInv
<1>5. CASE \E o \in Orders : Midtrans(o)
  BY <1>5, MidtransKeepsIInv
<1>6. CASE Tick \/ UNCHANGED vars
  BY <1>6, TimeKeepsIInv
<1> QED BY <1>2, <1>3, <1>4, <1>5, <1>6 DEF Next

-----------------------------------------------------------------------------
(* Theorems.                                                               *)

\* The inductive invariant: the tables have their types; the requests, however many overlap, repeat, fail
\* half way or crash, know whose order they handle and were told of it only what Midtrans has said
\* (createCheckout, syncCheckout, midtransWebhook, verifyAndroidPurchase, UpsertSubscription).
THEOREM Invariance == Spec => []IInv
<1>1. IInv /\ [Next]_vars => IInv'
  BY NextKeepsIInv
<1> QED BY <1>1, InitIInv, PTL DEF Spec

\* Nothing is given that was not paid for: an order is settled, a subscription of Midtrans is there, and
\* a user is Pro, only behind a payment or a row of a store (UpdatePaymentTransactionStatus,
\* ActivateSubscription, refreshUserEntitlement).
THEOREM NothingIsGivenUnpaid == Spec => []NothingUnpaid
<1>1. IInv => NothingUnpaid
  BY DEF IInv
<1> QED BY <1>1, Invariance, PTL

-----------------------------------------------------------------------------
(* Requests one at a time: what their invariant adds, and what it shows.   *)

OneAtATime == \A q, r \in Requests : q = r

\* What Midtrans may have made of an order since it said s of it.
After(s) ==
  CASE s = "pending" -> {"pending", "settlement", "expire", "refund"}
    [] s = "reviewed" -> {"reviewed", "capture", "cancel", "settlement", "refund"}
    [] s = "capture" -> {"capture", "settlement", "cancel", "refund"}
    [] s = "settlement" -> {"settlement", "refund"}
    [] OTHER -> {s}

\* Where an order that was paid can go.
PaidOnce == {"settlement", "capture", "refund", "cancel"}

\* What q was told of its order is not older than what its row says.
UpToDate(q) ==
  q.told # "none" =>
    /\ gateway[q.order] \in After(q.told)
    /\ q.pc \in {"find", "record"} /\ Settled(txns[q.order].status) => q.told \in PaidOnce

\* Midtrans is never behind the table.
OrdersUpToDate ==
  /\ \A o \in Orders : Settled(txns[o].status) => gateway[o] \in PaidOnce \cup {"token"}
  /\ \A r \in Requests : UpToDate(reqs[r])

\* A trial is given only to one who has had none.
TrialsAreFirst ==
  \A r \in Requests :
    reqs[r].kind = "trial" /\ reqs[r].pc \in {"date", "upsert"} => subs[reqs[r].user][Trial].age = 0

\* The account of u says what the rows said at some time.
Follows(u) == \E t \in 1..now : users[u] = Entitlement(subs[u], t)

\* An account follows its rows, or a request is on its way to see to it.
AccountsFollow ==
  /\ \A r \in Requests : reqs[r].pc = "update" =>
       \E t \in 1..now : reqs[r].seen = Entitlement(subs[reqs[r].user], t)
  /\ \A u \in Users :
       Follows(u) \/ \E r \in Requests : reqs[r].user = u /\ reqs[r].pc \in {"select", "update"}

\* Where a step takes a request.
StepRow(r) ==
  LET q == reqs[r]  row == reqs'[r] IN
    \/ /\ row = Idle
       /\ UpdateUser(r) \/ InsertOrder(r) \/ Record(r) \/ UNCHANGED <<users, subs, txns, gateway>>
    \/ SelectRows(r) /\ SameCase(row, q) /\ row.pc = "update"
       /\ row.seen = Entitlement(subs[q.user], now)
    \/ UpdateUser(r) /\ SameCase(row, q) /\ row.pc = "select" /\ q.then = "reload"
    \/ UpdateUser(r) /\ SameCase(row, q) /\ row.pc = q.then /\ q.then \notin {"reload", "end"}
    \/ CreateSnap(r) /\ row.told = q.told /\ row.kind = q.kind /\ row.pc = "insert"
    \/ Find(r) /\ row.told = q.told /\ row.kind = q.kind /\ row.pc \in {"ask", "record"}
       /\ (q.kind = "notice" => row.order = q.order) /\ (q.kind = "sync" => row.pc = "ask")
    \/ Ask(r) /\ row.told = gateway[q.order] /\ row.order = q.order /\ row.kind = q.kind
       /\ row.pc = "record" /\ gateway[q.order] \in GatewayStatuses
    \/ Record(r) /\ SameCase(row, q) /\ row.pc \in {"date", "select"}
    \/ Load(r) /\ SameCase(row, q) /\ row.pc = "check"
    \/ Check(r) /\ SameCase(row, q) /\ row.pc = "date" /\ subs[q.user][Trial].age = 0
    \/ Verify(r) /\ row.told = q.told /\ row.kind = q.kind /\ row.pc = "upsert"
    \/ Date(r) /\ SameCase(row, q) /\ row.pc = "upsert"
       /\ (q.kind # "trial" => row.end = PeriodEnd(q.product, now))
    \/ Upsert(r) /\ SameCase(row, q) /\ row.pc = "select"

LEMMA StepsTakeRows ==
  ASSUME IInv, NEW r \in Requests, Step(r)
  PROVE  StepRow(r)
<1> DEFINE q == reqs[r]
<1>1. reqs \in [Requests -> Request] /\ q \in Request /\ Sound(q)
  BY RequestIsSound DEF IInv, TypeOK
<1>2. \A row : reqs' = [reqs EXCEPT ![r] = row] => reqs'[r] = row
  BY <1>1
<1>3. CASE SelectRows(r)
  <2> DEFINE seen == Entitlement(subs[q.user], now)
             row == MovedSeeing(q, seen, "update")
  <2>1. reqs'[r] = row /\ q.user \in Users
    BY <1>1, <1>2, <1>3 DEF SelectRows, Goto, MovedSeeing, Sound, Fits
  <2>2. seen \in Account
    BY <2>1, EntitlementFollowsRows DEF IInv, TypeOK
  <2>3. "update" \in Pcs
    BY DEF Pcs
  <2> HIDE DEF seen
  <2>4. SameCase(row, q) /\ row.pc = "update" /\ row.seen = seen
    BY <1>1, <2>2, <2>3, MovedOnSeeing
  <2> HIDE DEF row
  <2> QED BY <1>3, <2>1, <2>4 DEF StepRow, seen
<1>4. CASE UpdateUser(r)
  <2>1. CASE q.then = "end"
    BY <1>2, <1>4, <2>1 DEF UpdateUser, Done, Goto, StepRow
  <2>2. CASE q.then = "reload"
    <3> DEFINE row == MovedThen(q, Free, "end", "select")
    <3>1. reqs'[r] = row
      BY <1>2, <1>4, <2>2 DEF UpdateUser, Goto, MovedThen
    <3>2. "end" \in Thens /\ "select" \in Pcs
      BY DEF Thens, Pcs
    <3>3. SameCase(row, q) /\ row.pc = "select"
      BY <1>1, <3>2, FreeAccount, MovedOnThen
    <3> HIDE DEF row
    <3> QED BY <1>4, <2>2, <3>1, <3>3 DEF StepRow
  <2>3. CASE q.then \notin {"reload", "end"}
    <3> DEFINE row == MovedThen(q, Free, "none", q.then)
    <3>1. reqs'[r] = row
      BY <1>2, <1>4, <2>3 DEF UpdateUser, Goto, MovedThen
    <3>2. "none" \in Thens /\ q.then \in Pcs
      BY <1>1, <1>4, <2>3 DEF Thens, Pcs, Request, Sound, Fits, UpdateUser
    <3>3. SameCase(row, q) /\ row.pc = q.then
      BY <1>1, <3>2, FreeAccount, MovedOnThen
    <3> HIDE DEF row
    <3> QED BY <1>4, <2>3, <3>1, <3>3 DEF StepRow
  <2> QED BY <2>1, <2>2, <2>3
<1>5. CASE CreateSnap(r)
  <2>1. PICK o \in Orders, p \in Products : reqs'[r] = Ordered(q, o, p, "insert")
    BY <1>2, <1>5 DEF CreateSnap, Goto, Ordered
  <2> DEFINE row == Ordered(q, o, p, "insert")
  <2>2. row.told = q.told /\ row.kind = q.kind /\ row.pc = "insert"
    BY <1>1, OrderedRow
  <2> HIDE DEF row
  <2>3. reqs'[r] = row
    BY <2>1 DEF row
  <2> QED BY <1>5, <2>2, <2>3 DEF StepRow
<1>6. CASE NoOrderLeft(r) \/ VerifyFails(r)
  <2>1. reqs'[r] = Idle /\ UNCHANGED <<users, subs, txns, gateway>>
    BY <1>2, <1>6 DEF NoOrderLeft, VerifyFails, Refused, Goto
  <2> QED BY <2>1 DEF StepRow
<1>7. CASE InsertOrder(r)
  BY <1>2, <1>7 DEF InsertOrder, Done, Goto, StepRow
<1>8. CASE Find(r)
  <2>1. CASE reqs'[r] = Idle
    BY <1>8, <2>1 DEF Find, StepRow
  <2>2. CASE \E o \in Orders :
               /\ MayAccess(r, o) /\ (q.kind = "notice" => o = q.order)
               /\ reqs'[r] = FoundBy(q, o, txns[o].user, txns[o].product,
                                     IF q.kind = "sync" THEN "ask" ELSE "record")
    <3>1. PICK o \in Orders :
               /\ MayAccess(r, o) /\ (q.kind = "notice" => o = q.order)
               /\ reqs'[r] = FoundBy(q, o, txns[o].user, txns[o].product,
                                     IF q.kind = "sync" THEN "ask" ELSE "record")
      BY <2>2
    <3>2. PICK pc \in {"ask", "record"} : pc = IF q.kind = "sync" THEN "ask" ELSE "record"
      OBVIOUS
    <3>3. txns[o].user \in Users /\ txns[o].product \in Products
      BY <3>1 DEF IInv, OrdersAreWhole, MayAccess
    <3> DEFINE row == FoundBy(q, o, txns[o].user, txns[o].product, pc)
    <3>4. row.told = q.told /\ row.kind = q.kind /\ row.pc = pc /\ row.order = o
      BY <1>1, <3>3, FoundRow
    <3>5. reqs'[r] = row
      BY <3>1, <3>2
    <3> HIDE DEF row
    <3> QED BY <1>8, <3>1, <3>2, <3>4, <3>5 DEF StepRow
  <2> QED BY <1>2, <1>8, <2>1, <2>2 DEF Find, Goto, FoundBy
<1>9. CASE Ask(r)
  <2>1. CASE reqs'[r] = Idle
    BY <1>9, <2>1 DEF Ask, StepRow
  <2>2. CASE gateway[q.order] \in GatewayStatuses /\ reqs'[r] = Answered(q, gateway[q.order])
    <3> DEFINE row == Answered(q, gateway[q.order])
    <3>1. row.told = gateway[q.order] /\ row.order = q.order /\ row.kind = q.kind /\ row.pc = "record"
      BY <1>1, <2>2, AnsweredRow
    <3>2. reqs'[r] = row
      BY <2>2
    <3> HIDE DEF row
    <3> QED BY <1>9, <2>2, <3>1, <3>2 DEF StepRow
  <2> QED BY <1>2, <1>9, <2>1, <2>2 DEF Ask, Goto, Answered
<1>10. CASE Record(r)
  <2>1. CASE reqs'[r] = Idle
    BY <1>10, <2>1 DEF StepRow
  <2>2. CASE reqs'[r] = Moved(q, "date")
    <3> DEFINE row == Moved(q, "date")
    <3>1. "date" \in Pcs
      BY DEF Pcs
    <3>2. SameCase(row, q) /\ row.pc = "date"
      BY <1>1, <3>1, MovedOn
    <3>3. reqs'[r] = row
      BY <2>2
    <3> HIDE DEF row
    <3> QED BY <1>10, <3>2, <3>3 DEF StepRow
  <2>3. CASE reqs'[r] = Refreshing(q, "end")
    <3> DEFINE row == Refreshing(q, "end")
    <3>1. "end" \in Thens
      BY DEF Thens
    <3>2. SameCase(row, q) /\ row.pc = "select"
      BY <1>1, <3>1, RefreshingRow
    <3>3. reqs'[r] = row
      BY <2>3
    <3> HIDE DEF row
    <3> QED BY <1>10, <3>2, <3>3 DEF StepRow
  <2>4. \/ reqs' = [reqs EXCEPT ![r] = Idle]
        \/ reqs' = [reqs EXCEPT ![r] = Moved(q, "date")]
        \/ reqs' = [reqs EXCEPT ![r] = Refreshing(q, "end")]
    BY <1>10 DEF Record, Done, Goto, Moved, Refreshing
  <2> QED BY <1>2, <2>1, <2>2, <2>3, <2>4
<1>11. CASE Load(r) \/ Check(r)
  <2>1. CASE reqs'[r] = Idle
    BY <1>11, <2>1 DEF Load, Check, StepRow
  <2>2. ASSUME NEW p \in {"check", "date"}, reqs'[r] = Moved(q, p),
               \/ Load(r) /\ p = "check"
               \/ Check(r) /\ p = "date" /\ subs[q.user][Trial].age = 0
        PROVE  StepRow(r)
    <3> DEFINE row == Moved(q, p)
    <3>1. p \in Pcs
      BY DEF Pcs
    <3>2. SameCase(row, q) /\ row.pc = p
      BY <1>1, <3>1, MovedOn
    <3>3. reqs'[r] = row
      BY <2>2
    <3> HIDE DEF row
    <3> QED BY <2>2, <3>2, <3>3 DEF StepRow
  <2>3. \/ reqs' = [reqs EXCEPT ![r] = Idle]
        \/ Load(r) /\ reqs' = [reqs EXCEPT ![r] = Moved(q, "check")]
        \/ /\ Check(r) /\ reqs' = [reqs EXCEPT ![r] = Moved(q, "date")]
           /\ subs[q.user][Trial].age = 0
    BY <1>11 DEF Load, Check, Goto, Moved
  <2> QED BY <1>2, <2>1, <2>2, <2>3
<1>12. CASE Verify(r)
  <2>1. PICK o \in Orders, p \in PlayProducts : reqs'[r] = Purchased(q, o, p, PeriodEnd(p, now))
    BY <1>2, <1>12 DEF Verify, Goto, Purchased
  <2> DEFINE row == Purchased(q, o, p, PeriodEnd(p, now))
  <2>2. p \in Products /\ PeriodEnd(p, now) \in Nat
    BY BillingAssumption, PeriodsEnd DEF Products, IInv, TypeOK
  <2>3. row.told = q.told /\ row.kind = q.kind /\ row.pc = "upsert"
    BY <1>1, <2>2, PurchasedRow
  <2> HIDE DEF row
  <2>4. reqs'[r] = row
    BY <2>1 DEF row
  <2> QED BY <1>12, <2>3, <2>4 DEF StepRow
<1>13. CASE Upsert(r)
  <2>1. PICK t \in {"reload", "end"} : reqs'[r] = Renewed(q, t)
    BY <1>2, <1>13 DEF Upsert, Goto, Renewed
  <2> DEFINE row == Renewed(q, t)
  <2>2. t \in Thens
    BY DEF Thens
  <2>3. SameCase(row, q) /\ row.pc = "select"
    BY <1>1, <2>2, RenewedRow
  <2> HIDE DEF row
  <2>4. reqs'[r] = row
    BY <2>1 DEF row
  <2> QED BY <1>13, <2>3, <2>4 DEF StepRow
<1>14. CASE Date(r)
  <2> DEFINE e == IF q.kind = "trial" THEN now + TrialLength ELSE PeriodEnd(q.product, now)
             row == DatedRow(q, e)
  <2>1. reqs'[r] = row
    BY <1>2, <1>14 DEF Date, Goto, DatedRow
  <2>2. q.kind # "trial" => e = PeriodEnd(q.product, now)
    OBVIOUS
  <2> HIDE DEF e
  <2>3. SameCase(row, q) /\ row.pc = "upsert" /\ row.end = e
    BY <1>1 DEF Request, DatedRow, SameCase
  <2> HIDE DEF row
  <2> QED BY <1>14, <2>1, <2>2, <2>3 DEF StepRow
<1> QED BY <1>3, <1>4, <1>5, <1>6, <1>7, <1>8, <1>9, <1>10, <1>11, <1>12, <1>13, <1>14 DEF Step

LEMMA OnlyRequest ==
  ASSUME OneAtATime, NEW r \in Requests, NEW q \in Requests
  PROVE  q = r
  BY DEF OneAtATime

\* A request that a step begins.
LEMMA BegunRow ==
  ASSUME IInv, NEW r \in Requests, Begin(r) \/ Webhook(r)
  PROVE  /\ reqs'[r].told = "none"
         /\ reqs'[r].pc = "select" \/ (reqs'[r].pc = "upsert" /\ reqs'[r].kind = "webhook")
         /\ UNCHANGED <<now, subs, users, txns, gateway>>
<1>1. \A row : reqs' = [reqs EXCEPT ![r] = row] => reqs'[r] = row
  BY DEF IInv, TypeOK
<1>2. UNCHANGED <<now, subs, users, txns, gateway>>
  BY DEF Begin, Webhook
<1>3. CASE Begin(r)
  <2>1. PICK kind \in Kinds \cap UserKinds, u \in Users :
          reqs' = [reqs EXCEPT ![r] = BegunBy(kind, u, First(kind))]
    BY <1>3 DEF Begin, Goto, BegunBy
  <2> DEFINE row == BegunBy(kind, u, First(kind))
  <2>2. First(kind) \in Thens
    BY DEF First, Thens
  <2>3. row.pc = "select" /\ row.told = "none"
    BY <2>2, Begun
  <2>4. reqs'[r] = row
    BY <1>1, <2>1
  <2> HIDE DEF row
  <2> QED BY <1>2, <2>3, <2>4
<1>4. CASE Webhook(r)
  <2>1. "webhook" \in Kinds /\ \E u \in Users : reqs' = [reqs EXCEPT ![r] = Hooked(u)]
    BY <1>4 DEF Webhook, Goto, Hooked
  <2>2. PICK u \in Users : reqs' = [reqs EXCEPT ![r] = Hooked(u)]
    BY <2>1
  <2> DEFINE row == Hooked(u)
  <2>3. row.pc = "upsert" /\ row.kind = "webhook" /\ row.told = "none"
    BY <2>1, HookedRow
  <2>4. reqs'[r] = row
    BY <1>1, <2>2
  <2> HIDE DEF row
  <2> QED BY <1>2, <2>3, <2>4
<1> QED BY <1>3, <1>4

LEMMA NoticeRow ==
  ASSUME IInv, NEW r \in Requests, NEW o \in Orders, NEW s \in GatewayStatuses, Notice(r, o, s)
  PROVE  /\ reqs'[r].kind = "notice" /\ reqs'[r].pc = "find" /\ reqs'[r].told = s /\ reqs'[r].order = o
         /\ UNCHANGED <<now, subs, users, txns, gateway>>
<1> DEFINE row == Noticed(o, s)
<1>1. "notice" \in Kinds /\ reqs' = [reqs EXCEPT ![r] = row]
  BY DEF Notice, Goto, Noticed
<1>2. row.kind = "notice" /\ row.pc = "find" /\ row.told = s /\ row.order = o
  BY <1>1, NoticedRow
<1>3. reqs'[r] = row
  BY <1>1 DEF IInv, TypeOK
<1> HIDE DEF row
<1> QED BY <1>2, <1>3 DEF Notice

-----------------------------------------------------------------------------
(* A settled order stays settled, or is refunded or cancelled.             *)

LEMMA AfterItself ==
  ASSUME NEW s \in GatewayStatuses
  PROVE  /\ s \in After(s) /\ After(s) \subseteq GatewayStatuses
         /\ s \in PaidOnce \cup {"token"} => s \in PaidOnce
         /\ Settled(NormalizeMidtransStatus(s)) => After(s) \subseteq PaidOnce
         /\ s \in PaidOnce => NormalizeMidtransStatus(s) \in PaidOnce
<1>1. s \in After(s) /\ After(s) \subseteq GatewayStatuses
  BY DEF GatewayStatuses, After
<1>2. s \in PaidOnce \cup {"token"} => s \in PaidOnce
  BY DEF GatewayStatuses, PaidOnce
<1>3. Settled(NormalizeMidtransStatus(s)) => After(s) \subseteq PaidOnce
  BY DEF GatewayStatuses, After, PaidOnce, Settled, Payments, NormalizeMidtransStatus
<1>4. s \in PaidOnce => NormalizeMidtransStatus(s) \in PaidOnce
  BY DEF PaidOnce, NormalizeMidtransStatus
<1> QED BY <1>1, <1>2, <1>3, <1>4

LEMMA MidtransGoesOn ==
  ASSUME NEW o, NEW s \in Becomes(o)
  PROVE  /\ \A x \in GatewayStatuses : gateway[o] \in After(x) => s \in After(x)
         /\ gateway[o] \in PaidOnce \cup {"token"} => s \in PaidOnce
<1>1. \A x \in GatewayStatuses : gateway[o] \in After(x) => s \in After(x)
  BY DEF Becomes, After, GatewayStatuses
<1>2. gateway[o] \in PaidOnce \cup {"token"} => s \in PaidOnce
  BY DEF Becomes, PaidOnce
<1> QED BY <1>1, <1>2

\* The orders, and what is known of them, stay; the request has been told nothing new.
LEMMA StaysUpToDate ==
  ASSUME IInv, OrdersUpToDate, OneAtATime, NEW r \in Requests, UNCHANGED <<txns, gateway>>,
         \/ reqs'[r].told = "none"
         \/ /\ reqs'[r].told = reqs[r].told /\ reqs'[r].order = reqs[r].order
            /\ reqs'[r].pc \in {"find", "record"} => reqs[r].pc \in {"find", "record"}
         \/ reqs'[r].told \in GatewayStatuses /\ reqs'[r].told = gateway[reqs'[r].order]
              /\ reqs'[r].order \in Orders
  PROVE  OrdersUpToDate'
<1>1. \A o \in Orders : Settled(txns'[o].status) => gateway'[o] \in PaidOnce \cup {"token"}
  BY DEF OrdersUpToDate
<1>2. UpToDate(reqs[r])'
  <2>1. UpToDate(reqs[r])
    BY DEF OrdersUpToDate
  <2>2. CASE reqs'[r].told = "none"
    BY <2>2 DEF UpToDate
  <2>3. CASE /\ reqs'[r].told = reqs[r].told /\ reqs'[r].order = reqs[r].order
             /\ reqs'[r].pc \in {"find", "record"} => reqs[r].pc \in {"find", "record"}
    BY <2>1, <2>3 DEF UpToDate
  <2>4. CASE reqs'[r].told \in GatewayStatuses /\ reqs'[r].told = gateway[reqs'[r].order]
               /\ reqs'[r].order \in Orders
    <3>1. reqs'[r].told \in After(reqs'[r].told)
      BY <2>4, AfterItself
    <3>2. Settled(txns[reqs'[r].order].status) => reqs'[r].told \in PaidOnce
      BY <2>4, AfterItself DEF OrdersUpToDate
    <3> QED BY <2>4, <3>1, <3>2 DEF UpToDate
  <2> QED BY <2>2, <2>3, <2>4
<1>3. \A q \in Requests : UpToDate(reqs[q])'
  BY <1>2, OnlyRequest
<1> QED BY <1>1, <1>3 DEF OrdersUpToDate, Settled

LEMMA RecordIsUpToDate ==
  ASSUME IInv, OrdersUpToDate, NEW r \in Requests, Record(r)
  PROVE  LET o == reqs[r].order  s == NormalizeMidtransStatus(reqs[r].told)
         IN  /\ o \in Orders /\ UNCHANGED gateway
             /\ \A x \in Orders : txns'[x].status = IF x = o THEN s ELSE txns[x].status
             /\ Settled(s) => gateway[o] \in PaidOnce
             /\ Settled(txns[o].status) => s \in PaidOnce
<1> DEFINE q == reqs[r]
           o == q.order
           s == NormalizeMidtransStatus(q.told)
<1>1. q \in Request /\ Sound(q) /\ q.pc = "record"
  BY RequestIsSound DEF Record
<1>2. o \in Orders /\ q.told \in GatewayStatuses /\ q.told # "none"
  BY <1>1 DEF Sound, Told, Request
<1>3. txns' = [txns EXCEPT ![o].status = s] /\ UNCHANGED gateway
  BY DEF Record
<1>4. \A x \in Orders : txns'[x].status = IF x = o THEN s ELSE txns[x].status
  BY <1>2, <1>3 DEF IInv, TypeOK, Txn
<1>5. gateway[o] \in After(q.told) /\ (Settled(txns[o].status) => q.told \in PaidOnce)
  BY <1>1, <1>2 DEF OrdersUpToDate, UpToDate
<1> QED BY <1>2, <1>3, <1>4, <1>5, AfterItself

LEMMA StepsKeepUpToDate ==
  ASSUME IInv, OrdersUpToDate, OneAtATime, NEW r \in Requests, Step(r)
  PROVE  OrdersUpToDate'
<1> DEFINE q == reqs[r]
<1>1. q \in Request /\ Sound(q)
  BY RequestIsSound
<1>2. StepRow(r)
  BY StepsTakeRows
<1>3. CASE Record(r)
  <2> DEFINE s == NormalizeMidtransStatus(q.told)
  <2>1. /\ UNCHANGED gateway
        /\ \A o \in Orders : txns'[o].status = IF o = q.order THEN s ELSE txns[o].status
        /\ Settled(s) => gateway[q.order] \in PaidOnce
    BY <1>3, RecordIsUpToDate
  <2>2. ASSUME NEW o \in Orders, Settled(txns'[o].status)
        PROVE  gateway'[o] \in PaidOnce \cup {"token"}
    <3> HIDE DEF s
    <3>1. CASE o = q.order
      BY <2>1, <2>2, <3>1
    <3>2. CASE o # q.order
      BY <2>1, <2>2, <3>2 DEF OrdersUpToDate
    <3> QED BY <3>1, <3>2
  <2>3. reqs'[r].told = "none" \/ (SameCase(reqs'[r], q) /\ reqs'[r].pc \in {"date", "select"})
    <3>1. \/ reqs' = [reqs EXCEPT ![r] = Idle]
          \/ reqs' = [reqs EXCEPT ![r] = Moved(q, "date")]
          \/ reqs' = [reqs EXCEPT ![r] = Refreshing(q, "end")]
      BY <1>3 DEF Record, Done, Goto, Moved, Refreshing
    <3>2. \A row : reqs' = [reqs EXCEPT ![r] = row] => reqs'[r] = row
      BY DEF IInv, TypeOK
    <3>3. "date" \in Pcs /\ "end" \in Thens
      BY DEF Pcs, Thens
    <3>4. Idle.told = "none"
      BY IdleFields
    <3>5. SameCase(Moved(q, "date"), q) /\ Moved(q, "date").pc = "date"
      BY <1>1, <3>3, MovedOn
    <3>6. SameCase(Refreshing(q, "end"), q) /\ Refreshing(q, "end").pc = "select"
      BY <1>1, <3>3, RefreshingRow
    <3> HIDE DEF q
    <3> QED BY <3>1, <3>2, <3>4, <3>5, <3>6
  <2>4. UpToDate(q)
    BY DEF OrdersUpToDate
  <2>5. UpToDate(reqs[r])'
    BY <2>1, <2>3, <2>4 DEF UpToDate, SameCase
  <2>6. \A x \in Requests : UpToDate(reqs[x])'
    BY <2>5, OnlyRequest
  <2> QED BY <2>2, <2>6 DEF OrdersUpToDate
<1>4. CASE InsertOrder(r)
  <2>1. /\ UNCHANGED gateway /\ reqs'[r] = Idle
        /\ \A o \in Orders : Settled(txns'[o].status) => Settled(txns[o].status)
    <3>1. /\ UNCHANGED gateway /\ reqs' = [reqs EXCEPT ![r] = Idle]
          /\ txns' = [txns EXCEPT ![q.order] =
                        [user |-> q.user, product |-> q.product, status |-> "pending"]]
      BY <1>4 DEF InsertOrder, Done, Goto
    <3> QED BY <3>1 DEF IInv, TypeOK, Settled, Payments
  <2>2. UpToDate(reqs[r])'
    BY <2>1, IdleFields DEF UpToDate
  <2>3. \A x \in Requests : UpToDate(reqs[x])'
    BY <2>2, OnlyRequest
  <2> QED BY <2>1, <2>3 DEF OrdersUpToDate
<1>5. CASE reqs'[r] = Idle /\ ~Record(r) /\ ~InsertOrder(r)
  <2>1. UpdateUser(r) \/ UNCHANGED <<txns, gateway>>
    <3>1. Idle.pc = "idle"
      BY IdleIsSound
    <3>2. Stages(q.kind) \subseteq Pcs \ {"idle"}
      BY DEF Stages, Pcs
    <3>3. q.then \notin {"reload", "end"} /\ UpdateUser(r) => q.then \in {"none"} \cup {First(q.kind)}
      BY <1>1 DEF Sound, Fits
    <3> QED BY <1>2, <1>5, <3>1 DEF StepRow
  <2>2. UNCHANGED <<txns, gateway>>
    BY <2>1 DEF UpdateUser
  <2> QED BY <1>5, <2>2, IdleFields, StaysUpToDate
<1>6. CASE /\ SelectRows(r) \/ UpdateUser(r) \/ Load(r) \/ Check(r) \/ Date(r) \/ Upsert(r)
           /\ SameCase(reqs'[r], q)
           /\ reqs'[r].pc \in {"find", "record"} => reqs'[r].told = "none"
  <2>1. UNCHANGED <<txns, gateway>>
    BY <1>6 DEF SelectRows, UpdateUser, Load, Check, Date, Upsert
  <2> QED BY <1>6, <2>1, StaysUpToDate DEF SameCase
<1>7. CASE UpdateUser(r) /\ SameCase(reqs'[r], q) /\ reqs'[r].pc = q.then /\ q.then \notin {"reload", "end"}
  <2>1. q.pc = "update" /\ q.then = First(q.kind)
    BY <1>1, <1>7 DEF UpdateUser, Sound, Fits
  <2>2. q.then \in {"find", "record"} => q.kind = "sync" /\ q.then = "find"
    BY <2>1 DEF First
  <2>3. q.then \in {"find", "record"} => q.told = "none"
    BY <1>1, <2>2 DEF Sound, Told
  <2> QED BY <1>6, <1>7, <2>3 DEF SameCase
<1>8. CASE Find(r) /\ reqs'[r].told = q.told /\ (q.kind = "notice" => reqs'[r].order = q.order)
  <2>1. q.pc = "find" /\ UNCHANGED <<txns, gateway>>
    BY <1>8 DEF Find
  <2>2. q.kind \in {"sync", "notice"} /\ (q.kind = "sync" => q.told = "none")
    BY <1>1, <2>1 DEF Sound, Fits, Stages, Told
  <2> QED BY <1>8, <2>1, <2>2, StaysUpToDate
<1>9. CASE Ask(r) /\ reqs'[r].told = gateway[q.order] /\ reqs'[r].order = q.order
             /\ gateway[q.order] \in GatewayStatuses
  <2>1. q.pc = "ask" /\ UNCHANGED <<txns, gateway>>
    BY <1>9 DEF Ask
  <2>2. q.order \in Orders
    BY <1>1, <2>1 DEF Sound, Matches
  <2> QED BY <1>9, <2>1, <2>2, StaysUpToDate
<1>10. CASE (CreateSnap(r) \/ Verify(r)) /\ reqs'[r].told = q.told
  <2>1. PICK o \in Orders, s \in {"open", "token"} :
          /\ gateway[o] \in {"none", "token"} /\ (s = "open" => gateway[o] = "none")
          /\ gateway' = [gateway EXCEPT ![o] = s]
          /\ \A x \in Orders : x # o => txns'[x] = txns[x]
          /\ s = "open" => txns' = txns
    <3>1. CASE CreateSnap(r)
      BY <3>1 DEF CreateSnap
    <3>2. CASE Verify(r)
      BY <3>2 DEF Verify, IInv, TypeOK
    <3> QED BY <1>10, <3>1, <3>2
  <2>2. \A x \in Orders : gateway'[x] = IF x = o THEN s ELSE gateway[x]
    BY <2>1 DEF IInv, TypeOK
  <2>3. ASSUME NEW x \in Orders, Settled(txns'[x].status)
        PROVE  gateway'[x] \in PaidOnce \cup {"token"}
    <3>1. x = o => s = "token"
      BY <2>1, <2>3 DEF OrdersUpToDate, PaidOnce
    <3>2. x # o => gateway[x] \in PaidOnce \cup {"token"}
      BY <2>1, <2>3 DEF OrdersUpToDate
    <3> QED BY <2>2, <3>1, <3>2
  <2>4. q.told = "none"
    BY <1>1, <1>10 DEF CreateSnap, Verify, Sound, Fits, Stages, Told
  <2>5. \A x \in Requests : UpToDate(reqs[x])'
    BY <1>10, <2>4, OnlyRequest DEF UpToDate
  <2> QED BY <2>3, <2>5 DEF OrdersUpToDate
<1> QED BY <1>2, <1>3, <1>4, <1>5, <1>6, <1>7, <1>8, <1>9, <1>10 DEF StepRow

LEMMA NextKeepsUpToDate ==
  ASSUME IInv, OrdersUpToDate, OneAtATime, ~Late, [Next]_vars
  PROVE  OrdersUpToDate'
<1>1. ASSUME NEW r \in Requests, Begin(r) \/ Webhook(r)
      PROVE  OrdersUpToDate'
  BY <1>1, BegunRow, StaysUpToDate
<1>2. ASSUME NEW r \in Requests, NEW o \in Orders, NEW s \in GatewayStatuses, Notice(r, o, s)
      PROVE  OrdersUpToDate'
  <2>1. reqs'[r].told = s /\ reqs'[r].order = o /\ UNCHANGED <<txns, gateway>>
    BY <1>2, NoticeRow
  <2>2. s = gateway[o]
    BY <1>2 DEF Notice
  <2> QED BY <2>1, <2>2, StaysUpToDate
<1>3. ASSUME NEW R \in SUBSET Requests, Interrupted(R)
      PROVE  OrdersUpToDate'
  <2>1. PICK r \in Requests : r \in R
    BY <1>3 DEF Interrupted
  <2>2. reqs'[r] = Idle /\ UNCHANGED <<txns, gateway>>
    BY <1>3, <2>1 DEF Interrupted
  <2> QED BY <2>2, IdleFields, StaysUpToDate
<1>4. ASSUME NEW o \in Orders, Midtrans(o)
      PROVE  OrdersUpToDate'
  <2>1. PICK s \in Becomes(o) : gateway' = [gateway EXCEPT ![o] = s] /\ UNCHANGED <<txns, reqs>>
    BY <1>4 DEF Midtrans
  <2>2. \A x \in Orders : gateway'[x] = IF x = o THEN s ELSE gateway[x]
    BY <2>1 DEF IInv, TypeOK
  <2>3. \A x \in Orders : gateway[x] \in PaidOnce \cup {"token"} => gateway'[x] \in PaidOnce \cup {"token"}
    BY <2>2, MidtransGoesOn
  <2>4. ASSUME NEW r \in Requests
        PROVE  UpToDate(reqs[r])'
    <3>1. UpToDate(reqs[r]) /\ reqs[r] \in Request
      BY RequestIsSound DEF OrdersUpToDate
    <3>2. CASE reqs[r].told # "none"
      <4>1. reqs[r].order \in Orders /\ reqs[r].told \in GatewayStatuses
        BY <3>2, RequestIsSound DEF Sound, Told, Request
      <4>2. gateway'[reqs[r].order] \in After(reqs[r].told)
        BY <2>2, <3>1, <3>2, <4>1, MidtransGoesOn DEF UpToDate
      <4> QED BY <2>1, <3>1, <4>2 DEF UpToDate
    <3>3. CASE reqs[r].told = "none"
      BY <2>1, <3>3 DEF UpToDate
    <3> QED BY <3>2, <3>3
  <2> QED BY <2>1, <2>3, <2>4 DEF OrdersUpToDate
<1>5. ASSUME UNCHANGED <<txns, gateway, reqs>>
      PROVE  OrdersUpToDate'
  BY <1>5 DEF OrdersUpToDate, UpToDate
<1>6. Tick \/ UNCHANGED vars => UNCHANGED <<txns, gateway, reqs>>
  BY DEF Tick, vars
<1> QED BY <1>1, <1>2, <1>3, <1>4, <1>5, <1>6, StepsKeepUpToDate DEF Next

LEMMA SettledOrdersStep ==
  ASSUME IInv, OrdersUpToDate, [Next]_vars, NEW o \in Orders, Settled(txns[o].status)
  PROVE  txns'[o].status \in {"settlement", "capture", "refund", "cancel"}
<1>1. txns[o].status \in PaidOnce /\ txns[o] # NoTxn
  BY DEF Settled, Payments, PaidOnce, NoTxn
<1>2. ASSUME NEW r \in Requests, Record(r)
      PROVE  txns'[o].status \in PaidOnce
  <2> DEFINE s == NormalizeMidtransStatus(reqs[r].told)
  <2>1. /\ \A x \in Orders : txns'[x].status = IF x = reqs[r].order THEN s ELSE txns[x].status
        /\ Settled(txns[reqs[r].order].status) => s \in PaidOnce
    BY <1>2, RecordIsUpToDate
  <2> HIDE DEF s
  <2> QED BY <1>1, <2>1
<1>3. ASSUME NEW r \in Requests, InsertOrder(r) \/ Verify(r)
      PROVE  txns'[o] = txns[o]
  BY <1>1, <1>3 DEF InsertOrder, Verify, IInv, TypeOK
<1>4. \/ UNCHANGED txns
      \/ \E r \in Requests : Record(r) \/ InsertOrder(r) \/ Verify(r)
  <2>1. ASSUME NEW r \in Requests, Begin(r) \/ Webhook(r) \/ Step(r),
               ~(Record(r) \/ InsertOrder(r) \/ Verify(r))
        PROVE  UNCHANGED txns
    BY <2>1 DEF Begin, Webhook, Step, SelectRows, UpdateUser, CreateSnap, NoOrderLeft, Find, Ask, Load, Check,
       VerifyFails, Date, Upsert
  <2>2. ASSUME \/ \E r \in Requests, x \in Orders, s \in GatewayStatuses : Notice(r, x, s)
               \/ \E R \in SUBSET Requests : Interrupted(R)
               \/ \E x \in Orders : Midtrans(x)
               \/ Tick \/ UNCHANGED vars
        PROVE  UNCHANGED txns
    BY <2>2 DEF Notice, Interrupted, Midtrans, Tick, vars
  <2> QED BY <2>1, <2>2 DEF Next
<1> QED BY <1>1, <1>2, <1>3, <1>4 DEF PaidOnce

LEMMA InitUpToDate ==
  ASSUME Init
  PROVE  OrdersUpToDate
<1>1. \A o \in Orders : ~Settled(txns[o].status)
  BY DEF Init, NoTxn, Settled, Payments
<1>2. \A r \in Requests : reqs[r].told = "none"
  BY IdleFields DEF Init
<1> QED BY <1>1, <1>2 DEF OrdersUpToDate, UpToDate

\* With one request at a time and no late notification, a settled order stays settled, or is refunded or
\* cancelled: Midtrans is never behind the table (midtransWebhook, syncCheckout).
THEOREM SettledStays ==
  ASSUME OneAtATime, ~Late
  PROVE  Spec => SettledOrdersStay
<1>1. Init => OrdersUpToDate
  BY InitUpToDate
<1>2. IInv /\ OrdersUpToDate /\ [Next]_vars => OrdersUpToDate'
  BY NextKeepsUpToDate
<1>3. IInv /\ OrdersUpToDate /\ [Next]_vars =>
        [\A o \in Orders :
           Settled(txns[o].status) => txns'[o].status \in {"settlement", "capture", "refund", "cancel"}]_vars
  BY SettledOrdersStep
<1> QED BY <1>1, <1>2, <1>3, Invariance, PTL DEF Spec, SettledOrdersStay

-----------------------------------------------------------------------------
(* A trial is used once.                                                   *)

\* Only an upsert changes the subscriptions, those of its user.
LEMMA OnlyUpsertsChangeRows ==
  ASSUME IInv, [Next]_vars, ~ \E r \in Requests : Upsert(r)
  PROVE  UNCHANGED subs
<1>1. ASSUME NEW r \in Requests, Begin(r) \/ Webhook(r) \/ Step(r)
      PROVE  UNCHANGED subs
  BY <1>1 DEF Begin, Webhook, Step, SelectRows, UpdateUser, CreateSnap, NoOrderLeft, InsertOrder, Find, Ask,
     Record, Load, Check, Verify, VerifyFails, Date
<1>2. ASSUME \/ \E r \in Requests, x \in Orders, s \in GatewayStatuses : Notice(r, x, s)
             \/ \E R \in SUBSET Requests : Interrupted(R)
             \/ \E x \in Orders : Midtrans(x)
             \/ Tick \/ UNCHANGED vars
      PROVE  UNCHANGED subs
  BY <1>2 DEF Notice, Interrupted, Midtrans, Tick, vars
<1> QED BY <1>1, <1>2 DEF Next

LEMMA UpsertedRows ==
  ASSUME IInv, NEW r \in Requests, Upsert(r)
  PROVE  \E w \in Wanted(r) :
           \A u \in Users :
             subs'[u] = IF u = reqs[r].user
                        THEN Touched(subs[u], w[1], NormalizeSubscriptionStatus(w[2]), w[3]) ELSE subs[u]
<1>1. PICK w \in Wanted(r) :
        subs' = [subs EXCEPT ![reqs[r].user] = Touched(@, w[1], NormalizeSubscriptionStatus(w[2]), w[3])]
  BY DEF Upsert
<1> QED BY <1>1 DEF IInv, TypeOK

\* No row but the one touched changes in more than its place.
LEMMA OthersUntouched ==
  ASSUME NEW rows \in [Keys -> SubRow], NEW k, NEW s, NEW e, NEW j \in Keys, j # k
  PROVE  /\ Touched(rows, k, s, e)[j].status = rows[j].status
         /\ Touched(rows, k, s, e)[j].end = rows[j].end
<1>1. Touched(rows, k, s, e)[j] = rows[j] \/ Touched(rows, k, s, e)[j] = [rows[j] EXCEPT !.age = @ + 1]
  BY DEF Touched
<1> QED BY <1>1 DEF SubRow

LEMMA OnlyTrialsWantTrials ==
  ASSUME NEW r \in Requests, NEW w \in Wanted(r), reqs[r].kind # "trial"
  PROVE  w[1] # Trial
  BY DEF Wanted, Trial, OfMidtrans, OfPlay, OfStore

LEMMA TrialStep ==
  ASSUME IInv, TrialsAreFirst, [Next]_vars, NEW u \in Users, subs[u][Trial].age # 0
  PROVE  /\ subs'[u][Trial].status = subs[u][Trial].status
         /\ subs'[u][Trial].end = subs[u][Trial].end
<1>1. CASE ~ \E r \in Requests : Upsert(r)
  BY <1>1, OnlyUpsertsChangeRows
<1>2. ASSUME NEW r \in Requests, Upsert(r)
      PROVE  /\ subs'[u][Trial].status = subs[u][Trial].status
             /\ subs'[u][Trial].end = subs[u][Trial].end
  <2>1. PICK w \in Wanted(r) :
          \A v \in Users :
            subs'[v] = IF v = reqs[r].user
                       THEN Touched(subs[v], w[1], NormalizeSubscriptionStatus(w[2]), w[3]) ELSE subs[v]
    BY <1>2, UpsertedRows
  <2>2. CASE u # reqs[r].user
    BY <2>1, <2>2
  <2>3. CASE u = reqs[r].user
    <3>1. reqs[r].kind # "trial"
      BY <1>2, <2>3 DEF TrialsAreFirst, Upsert
    <3>2. w[1] # Trial /\ Trial \in Keys /\ subs[u] \in [Keys -> SubRow]
      BY <3>1, OnlyTrialsWantTrials DEF Keys, IInv, TypeOK
    <3> QED BY <2>1, <2>3, <3>2, OthersUntouched
  <2> QED BY <2>2, <2>3
<1> QED BY <1>1, <1>2

LEMMA NextKeepsTrialsFirst ==
  ASSUME IInv, TrialsAreFirst, OneAtATime, [Next]_vars
  PROVE  TrialsAreFirst'
<1>1. ASSUME NEW r \in Requests, reqs'[r].kind # "trial" \/ reqs'[r].pc \notin {"date", "upsert"}
      PROVE  TrialsAreFirst'
  BY <1>1, OnlyRequest DEF TrialsAreFirst
<1>2. ASSUME NEW r \in Requests, Begin(r) \/ Webhook(r)
      PROVE  TrialsAreFirst'
  BY <1>1, <1>2, BegunRow
<1>3. ASSUME NEW r \in Requests, NEW o \in Orders, NEW s \in GatewayStatuses, Notice(r, o, s)
      PROVE  TrialsAreFirst'
  BY <1>1, <1>3, NoticeRow
<1>4. ASSUME NEW R \in SUBSET Requests, Interrupted(R)
      PROVE  TrialsAreFirst'
  BY <1>4, IdleIsSound DEF Interrupted, TrialsAreFirst
<1>5. ASSUME UNCHANGED <<subs, reqs>>
      PROVE  TrialsAreFirst'
  BY <1>5 DEF TrialsAreFirst
<1>6. ASSUME NEW r \in Requests, Step(r)
      PROVE  TrialsAreFirst'
  <2> DEFINE q == reqs[r]
  <2>1. StepRow(r) /\ q \in Request /\ Sound(q)
    BY <1>6, StepsTakeRows, RequestIsSound
  <2>2. SUFFICES ASSUME reqs'[r].kind = "trial", reqs'[r].pc \in {"date", "upsert"}
                 PROVE  /\ Check(r) \/ Date(r)
                        /\ subs[q.user][Trial].age = 0 /\ reqs'[r].user = q.user
    BY <1>1, <2>2, OnlyRequest DEF Check, Date, TrialsAreFirst
  <2>3. reqs'[r] # Idle
    BY <2>2, IdleIsSound
  <2>4. ~(UpdateUser(r) /\ SameCase(reqs'[r], q) /\ reqs'[r].pc = q.then /\ q.then \notin {"reload", "end"})
    <3>1. UpdateUser(r) => q.then \in {"none", "reload", "end", First(q.kind)} /\ q.then # "none"
      BY <2>1 DEF UpdateUser, Sound, Fits
    <3> QED BY <2>2, <3>1 DEF First, SameCase
  <2>5. ~(Record(r) /\ SameCase(reqs'[r], q))
    BY <2>1, <2>2 DEF Record, SameCase, Sound, Fits, Stages
  <2>6. ~(Verify(r) /\ reqs'[r].kind = q.kind)
    BY <2>1, <2>2 DEF Verify, Sound, Fits, Stages
  <2>7. Date(r) /\ SameCase(reqs'[r], q) => subs[q.user][Trial].age = 0
    BY <2>2 DEF Date, SameCase, TrialsAreFirst
  <2> QED BY <2>1, <2>2, <2>3, <2>4, <2>5, <2>6, <2>7 DEF StepRow, SameCase
<1>7. Tick \/ UNCHANGED vars \/ (\E o \in Orders : Midtrans(o)) => UNCHANGED <<subs, reqs>>
  BY DEF Tick, vars, Midtrans
<1> QED BY <1>2, <1>3, <1>4, <1>5, <1>6, <1>7 DEF Next

\* With one request at a time, though any be interrupted, a trial is used once: once its row is there, it
\* keeps its status and its end (StartTrialSubscription).
THEOREM TrialsAreUsedOnce ==
  ASSUME OneAtATime
  PROVE  Spec => TrialUsedOnce
<1>1. Init => TrialsAreFirst
  BY IdleIsSound DEF Init, TrialsAreFirst
<1>2. IInv /\ TrialsAreFirst /\ [Next]_vars => TrialsAreFirst'
  BY NextKeepsTrialsFirst
<1>3. IInv /\ TrialsAreFirst /\ [Next]_vars =>
        [\A u \in Users :
           subs[u][Trial].age # 0 =>
             /\ subs'[u][Trial].status = subs[u][Trial].status
             /\ subs'[u][Trial].end = subs[u][Trial].end]_vars
  BY TrialStep
<1> QED BY <1>1, <1>2, <1>3, Invariance, PTL DEF Spec, TrialUsedOnce

-----------------------------------------------------------------------------
(* The account says what its rows said.                                    *)

\* What the plan that follows from the rows says of them.
Says(a, rows, t) ==
  LET live == {k \in Keys : Live(rows[k], t)}
  IN  /\ a.plan = "pro" <=> live # {}
      /\ live # {} => \E k \in live : a.until = rows[k].end /\ a.status = rows[k].status
      /\ live = {} => \A k \in Keys : Counts(rows[k]) => Rank(a.status) <= Rank(Shown(rows[k]))

LEMMA EntitlementSays ==
  ASSUME NEW rows \in [Keys -> SubRow], NEW t \in Nat
  PROVE  Says(Entitlement(rows, t), rows, t)
<1> DEFINE live == {k \in Keys : Live(rows[k], t)}
           newest == CHOOSE k \in live : \A j \in live : rows[k].age <= rows[j].age
           shown == {Shown(rows[k]) : k \in {j \in Keys : Counts(rows[j])}}
           worst == CHOOSE s \in shown : \A x \in shown : Rank(s) <= Rank(x)
           a == Entitlement(rows, t)
<1>1. CASE live # {}
  <2> DEFINE age == [k \in live |-> rows[k].age]
  <2>1. age \in [live -> Nat]
    BY DEF SubRow
  <2>2. \E k \in live : \A j \in live : rows[k].age <= rows[j].age
    <3>1. \E k \in live : \A j \in live : age[k] <= age[j]
      <4> HIDE DEF live, age
      <4> QED BY <1>1, <2>1, LeastValueExists
    <3> QED BY <3>1
  <2>3. newest \in live
    BY <2>2
  <2>4. a = [plan |-> "pro", status |-> rows[newest].status, until |-> rows[newest].end]
    BY <1>1 DEF Entitlement
  <2>5. a.plan = "pro" /\ a.status = rows[newest].status /\ a.until = rows[newest].end
    BY <2>4
  <2> HIDE DEF newest, a
  <2>6. /\ a.plan = "pro" <=> live # {}
        /\ live # {} => \E k \in live : a.until = rows[k].end /\ a.status = rows[k].status
    BY <1>1, <2>3, <2>5
  <2> QED BY <1>1, <2>6 DEF Says, a
<1>2. CASE live = {}
  <2> DEFINE status == IF shown = {} THEN "none" ELSE worst
  <2>1. shown # {} => worst \in shown /\ \A x \in shown : Rank(worst) <= Rank(x)
    <3> DEFINE rank == [s \in shown |-> Rank(s)]
    <3> HIDE DEF shown
    <3>1. rank \in [shown -> Nat]
      BY DEF Rank
    <3>2. shown # {} => \E s \in shown : \A x \in shown : rank[s] <= rank[x]
      <4> HIDE DEF rank
      <4> QED BY <3>1, LeastValueExists
    <3>3. shown # {} => \E s \in shown : \A x \in shown : Rank(s) <= Rank(x)
      BY <3>2
    <3> QED BY <3>3
  <2>2. \A k \in Keys : Counts(rows[k]) => Shown(rows[k]) \in shown
    OBVIOUS
  <2>3. \A k \in Keys : Counts(rows[k]) => Rank(status) <= Rank(Shown(rows[k]))
    <3> HIDE DEF shown, worst
    <3> QED BY <2>1, <2>2
  <2>4. a = [plan |-> "free", status |-> status, until |-> NoEnd]
    BY <1>2 DEF Entitlement
  <2>5. a.plan # "pro" /\ a.status = status
    BY <2>4
  <2> HIDE DEF status, a
  <2> QED BY <1>2, <2>3, <2>5 DEF Says, a
<1> QED BY <1>1, <1>2

\* A step that leaves a user's account and rows as they are.
LEMMA StillFollows ==
  ASSUME IInv, now' \in Nat, now <= now', NEW u \in Users, users'[u] = users[u], subs'[u] = subs[u], Follows(u)
  PROVE  Follows(u)'
<1>1. PICK t \in 1..now : users[u] = Entitlement(subs[u], t)
  BY DEF Follows
<1>2. t \in 1..now'
  BY DEF IInv, TypeOK
<1>3. users'[u] = Entitlement(subs'[u], t)
  BY <1>1
<1> QED BY <1>2, <1>3 DEF Follows

Refreshes(q) == q.pc \in {"select", "update"}

\* Time, and what the account of u is to follow.
LEMMA TimeOnlyGoesOn ==
  ASSUME IInv, [Next]_vars
  PROVE  now' \in Nat /\ now <= now'
<1>1. now \in Nat
  BY DEF IInv, TypeOK
<1>2. Tick => now' \in Nat /\ now <= now'
  BY <1>1 DEF Tick
<1>3. ASSUME NEW r \in Requests, Begin(r) \/ Webhook(r) \/ Step(r)
      PROVE  now' = now
  BY <1>3 DEF Begin, Webhook, Step, SelectRows, UpdateUser, CreateSnap, NoOrderLeft, InsertOrder, Find, Ask,
     Record, Load, Check, Verify, VerifyFails, Date, Upsert
<1>4. ASSUME \/ \E r \in Requests, x \in Orders, s \in GatewayStatuses : Notice(r, x, s)
             \/ \E R \in SUBSET Requests : Interrupted(R)
             \/ \E x \in Orders : Midtrans(x)
             \/ UNCHANGED vars
      PROVE  now' = now
  BY <1>4 DEF Notice, Interrupted, Midtrans, vars
<1> QED BY <1>1, <1>2, <1>3, <1>4 DEF Next

\* What is left of AccountsFollow by a step of r that changes no account and no row.
LEMMA QuietlyFollows ==
  ASSUME IInv, AccountsFollow, OneAtATime, [Next]_vars, UNCHANGED <<users, subs>>, NEW r \in Requests,
         \/ Refreshes(reqs[r]) /\ reqs'[r].user = reqs[r].user /\ Refreshes(reqs'[r])
         \/ ~Refreshes(reqs[r]),
         reqs'[r].pc = "update" =>
           \E t \in 1..now' : reqs'[r].seen = Entitlement(subs[reqs'[r].user], t)
  PROVE  AccountsFollow'
<1>1. \A q \in Requests : reqs'[q].pc = "update" =>
        \E t \in 1..now' : reqs'[q].seen = Entitlement(subs'[reqs'[q].user], t)
  BY OnlyRequest
<1>2. ASSUME NEW u \in Users
      PROVE  Follows(u)' \/ \E q \in Requests : reqs'[q].user = u /\ reqs'[q].pc \in {"select", "update"}
  <2>1. CASE Follows(u)
    BY <2>1, StillFollows, TimeOnlyGoesOn
  <2>2. CASE ~Follows(u)
    <3>1. reqs[r].user = u /\ Refreshes(reqs[r])
      BY <2>2, OnlyRequest DEF AccountsFollow, Refreshes
    <3> QED BY <3>1 DEF Refreshes
  <2> QED BY <2>1, <2>2
<1> QED BY <1>1, <1>2 DEF AccountsFollow

LEMMA UpdateFollows ==
  ASSUME IInv, AccountsFollow, OneAtATime, NEW r \in Requests, UpdateUser(r), reqs'[r].pc # "update"
  PROVE  AccountsFollow'
<1> DEFINE q == reqs[r]
<1>1. q \in Request /\ Sound(q) /\ q.pc = "update" /\ q.user \in Users
  BY RequestIsSound DEF UpdateUser, Sound, Fits
<1>2. UNCHANGED <<now, subs>> /\ users' = [users EXCEPT ![q.user] = q.seen]
  BY DEF UpdateUser
<1>3. \A u \in Users : users'[u] = IF u = q.user THEN q.seen ELSE users[u]
  BY <1>2 DEF IInv, TypeOK
<1>4. PICK t \in 1..now : q.seen = Entitlement(subs[q.user], t)
  BY <1>1 DEF AccountsFollow
<1>5. ASSUME NEW u \in Users
      PROVE  Follows(u)'
  <2>1. CASE u = q.user
    BY <1>2, <1>3, <1>4, <2>1 DEF Follows
  <2>2. CASE u # q.user
    <3>1. Follows(u)
      BY <2>2, OnlyRequest DEF AccountsFollow
    <3> QED BY <1>2, <1>3, <2>2, <3>1 DEF Follows
  <2> QED BY <2>1, <2>2
<1>6. \A x \in Requests : reqs'[x].pc # "update"
  BY OnlyRequest
<1> QED BY <1>5, <1>6 DEF AccountsFollow

LEMMA UpsertFollows ==
  ASSUME IInv, AccountsFollow, OneAtATime, NEW r \in Requests, Upsert(r),
         reqs'[r].pc = "select", reqs'[r].user = reqs[r].user
  PROVE  AccountsFollow'
<1> DEFINE q == reqs[r]
<1>1. UNCHANGED <<now, users>> /\ q.pc = "upsert"
  BY DEF Upsert
<1>2. \A u \in Users : u # q.user => subs'[u] = subs[u]
  BY UpsertedRows
<1>3. ASSUME NEW u \in Users, u # q.user
      PROVE  Follows(u)'
  <2>1. Follows(u)
    BY <1>1, OnlyRequest DEF AccountsFollow
  <2> QED BY <1>1, <1>2, <1>3, <2>1 DEF Follows
<1>4. \A x \in Requests : reqs'[x].pc # "update"
  BY OnlyRequest
<1> QED BY <1>3, <1>4 DEF AccountsFollow

LEMMA StepsKeepFollowing ==
  ASSUME IInv, AccountsFollow, OneAtATime, NEW r \in Requests, Step(r)
  PROVE  AccountsFollow'
<1> DEFINE q == reqs[r]
<1>1. q \in Request /\ Sound(q) /\ [Next]_vars
  BY RequestIsSound DEF Next
<1>2. StepRow(r)
  BY StepsTakeRows
<1>3. Idle.pc = "idle"
  BY IdleIsSound
<1>4. now \in 1..now
  BY DEF IInv, TypeOK
<1>5. CASE UpdateUser(r)
  <2>1. reqs'[r].pc # "update"
    <3>1. q.pc = "update" /\ q.then \in {"reload", "end"} \cup {First(q.kind)}
      BY <1>1, <1>5 DEF UpdateUser, Sound, Fits
    <3>2. /\ q.then # "update"
          /\ q.pc \notin {"select", "snap", "find", "ask", "record", "load", "check", "verify", "date", "upsert"}
      BY <3>1 DEF First
    <3> QED BY <1>2, <1>3, <3>2 DEF StepRow, SelectRows, CreateSnap, Find, Ask, Record, Load, Check, Verify,
            Date, Upsert
  <2> QED BY <1>5, <2>1, UpdateFollows
<1>6. CASE Upsert(r)
  <2>1. q.pc = "upsert" /\ Upsert(r)
    BY <1>6 DEF Upsert
  <2>2. PICK t \in {"reload", "end"} : reqs' = [reqs EXCEPT ![r] = Renewed(q, t)]
    BY <1>6 DEF Upsert, Goto, Renewed
  <2> DEFINE row == Renewed(q, t)
  <2>3. t \in Thens
    BY DEF Thens
  <2>4. SameCase(row, q) /\ row.pc = "select"
    BY <1>1, <2>3, RenewedRow
  <2>5. reqs'[r] = row
    BY <2>2 DEF IInv, TypeOK
  <2> HIDE DEF row
  <2>6. reqs'[r].pc = "select" /\ reqs'[r].user = q.user
    BY <2>4, <2>5 DEF SameCase
  <2> QED BY <1>6, <2>6, UpsertFollows
<1>7. CASE SelectRows(r)
  <2>1. q.pc = "select" /\ UNCHANGED <<now, users, subs>>
    BY <1>7 DEF SelectRows
  <2>2. reqs'[r].user = q.user /\ reqs'[r].pc = "update" /\ reqs'[r].seen = Entitlement(subs[q.user], now)
    <3> DEFINE seen == Entitlement(subs[q.user], now)
               row == MovedSeeing(q, seen, "update")
    <3>1. seen \in Account
      BY <1>1, <2>1, EntitlementFollowsRows DEF Sound, Fits, IInv, TypeOK
    <3>2. "update" \in Pcs
      BY DEF Pcs
    <3>3. reqs'[r] = row
      BY <1>7 DEF SelectRows, Goto, MovedSeeing, IInv, TypeOK
    <3> HIDE DEF seen
    <3>4. row.user = q.user /\ row.pc = "update" /\ row.seen = seen
      BY <1>1, <3>1, <3>2, MovedOnSeeing DEF SameCase
    <3> HIDE DEF row
    <3> QED BY <3>3, <3>4 DEF seen
  <2>3. Refreshes(q) /\ Refreshes(reqs'[r])
    BY <2>1, <2>2 DEF Refreshes
  <2> QED BY <1>1, <1>4, <2>1, <2>2, <2>3, QuietlyFollows
<1>8. CASE ~UpdateUser(r) /\ ~Upsert(r) /\ ~SelectRows(r)
  <2>1. UNCHANGED <<users, subs>> /\ q.pc \notin {"select", "update"}
    BY <1>8 DEF Step, CreateSnap, NoOrderLeft, InsertOrder, Find, Ask, Record, Load, Check, Verify, VerifyFails,
     Date
  <2>2. reqs'[r].pc # "update"
    BY <1>2, <1>3, <1>8 DEF StepRow
  <2> QED BY <1>1, <2>1, <2>2, QuietlyFollows DEF Refreshes
<1> QED BY <1>5, <1>6, <1>7, <1>8

LEMMA NextKeepsFollowing ==
  ASSUME IInv, AccountsFollow, OneAtATime, MaxSlips = 0, [Next]_vars
  PROVE  AccountsFollow'
<1>1. ASSUME NEW r \in Requests, Begin(r) \/ Webhook(r)
      PROVE  AccountsFollow'
  <2>1. reqs[r].pc = "idle"
    BY <1>1 DEF Begin, Webhook
  <2> QED BY <1>1, <2>1, BegunRow, QuietlyFollows DEF Refreshes
<1>2. ASSUME NEW r \in Requests, NEW o \in Orders, NEW s \in GatewayStatuses, Notice(r, o, s)
      PROVE  AccountsFollow'
  <2>1. reqs[r].pc = "idle"
    BY <1>2 DEF Notice
  <2> QED BY <1>2, <2>1, NoticeRow, QuietlyFollows DEF Refreshes
<1>3. ASSUME NEW R \in SUBSET Requests, Interrupted(R)
      PROVE  FALSE
  BY <1>3 DEF Interrupted, IInv, TypeOK
<1>4. ASSUME UNCHANGED <<users, subs, reqs>>
      PROVE  AccountsFollow'
  <2>1. ASSUME NEW r \in Requests, reqs'[r].pc = "update"
        PROVE  \E t \in 1..now' : reqs'[r].seen = Entitlement(subs'[reqs'[r].user], t)
    <3>1. PICK t \in 1..now : reqs[r].seen = Entitlement(subs[reqs[r].user], t)
      BY <1>4, <2>1 DEF AccountsFollow
    <3>2. t \in 1..now'
      BY TimeOnlyGoesOn DEF IInv, TypeOK
    <3> QED BY <1>4, <3>1, <3>2
  <2>2. \A u \in Users : Follows(u) => Follows(u)'
    BY <1>4, StillFollows, TimeOnlyGoesOn
  <2> QED BY <1>4, <2>1, <2>2 DEF AccountsFollow
<1>5. Tick \/ UNCHANGED vars \/ (\E o \in Orders : Midtrans(o)) => UNCHANGED <<users, subs, reqs>>
  BY DEF Tick, vars, Midtrans
<1> QED BY <1>1, <1>2, <1>3, <1>4, <1>5, StepsKeepFollowing DEF Next

LEMMA InitFollows ==
  ASSUME Init
  PROVE  AccountsFollow
<1> DEFINE rows == [k \in Keys |-> NoRow]
<1>1. Entitlement(rows, 1) = Free
  <2>1. \A k \in Keys : rows[k].age = 0
    BY DEF NoRow
  <2> HIDE DEF rows
  <2>2. {k \in Keys : Live(rows[k], 1)} = {} /\ {j \in Keys : Counts(rows[j])} = {}
    BY <2>1 DEF Live, Counts
  <2> QED BY <2>2 DEF Entitlement, Free
<1>2. \A u \in Users : users[u] = Free /\ subs[u] = rows
  BY DEF Init
<1>3. \A u \in Users : Follows(u)
  <2> HIDE DEF rows
  <2>1. 1 \in 1..now
    BY DEF Init
  <2> QED BY <1>1, <1>2, <2>1 DEF Follows
<1>4. \A r \in Requests : reqs[r].pc # "update"
  BY IdleIsSound DEF Init
<1> QED BY <1>3, <1>4 DEF AccountsFollow

LEMMA FollowingAgrees ==
  ASSUME IInv, AccountsFollow
  PROVE  AccountsAgree
<1> SUFFICES ASSUME \A r \in Requests : reqs[r] = Idle, NEW u \in Users
             PROVE  \E t \in 1..now : Says(users[u], subs[u], t)
  BY DEF AccountsAgree, Says
<1>1. PICK t \in 1..now : users[u] = Entitlement(subs[u], t)
  BY IdleIsSound DEF AccountsFollow, Follows
<1>2. t \in Nat /\ subs[u] \in [Keys -> SubRow]
  BY DEF IInv, TypeOK
<1> QED BY <1>1, <1>2, EntitlementSays

\* With one request at a time and none interrupted, the account says between requests what its rows said at
\* its last refresh: every change of a row is followed by one (UpsertSubscription, refreshUserEntitlement).
THEOREM AccountsDoAgree ==
  ASSUME OneAtATime, MaxSlips = 0
  PROVE  Spec => []AccountsAgree
<1>1. Init => AccountsFollow
  BY InitFollows
<1>2. IInv /\ AccountsFollow /\ [Next]_vars => AccountsFollow'
  BY NextKeepsFollowing
<1>3. IInv /\ AccountsFollow => AccountsAgree
  BY FollowingAgrees
<1> QED BY <1>1, <1>2, <1>3, Invariance, PTL DEF Spec

-----------------------------------------------------------------------------
(* The pool of connections.                                                *)

LEMMA RequestsAreFinite ==
  ASSUME NEW S \in SUBSET Requests
  PROVE  IsFiniteSet(S) /\ Cardinality(S) \in Nat
BY FS_Subset, FS_CardinalityType, BillingAssumption

\* A step of a request leaves the others where they are.
LEMMA OthersStay ==
  ASSUME IInv, NEW r \in Requests, Begin(r) \/ Webhook(r) \/ Step(r)
  PROVE  \A q \in Requests \ {r} : reqs'[q] = reqs[q]
<1>1. \A row : Goto(r, row) => \A q \in Requests \ {r} : reqs'[q] = reqs[q]
  BY DEF Goto, IInv, TypeOK
<1>2. Done(r) \/ Refused(r) => \A q \in Requests \ {r} : reqs'[q] = reqs[q]
  BY <1>1 DEF Done, Refused
<1>3. CASE Begin(r) \/ Webhook(r)
  BY <1>1, <1>3 DEF Begin, Webhook
<1>4. CASE SelectRows(r) \/ UpdateUser(r) \/ CreateSnap(r) \/ NoOrderLeft(r) \/ InsertOrder(r)
  BY <1>1, <1>2, <1>4 DEF SelectRows, UpdateUser, CreateSnap, NoOrderLeft, InsertOrder
<1>5. CASE Find(r) \/ Ask(r) \/ Record(r) \/ Load(r) \/ Check(r)
  BY <1>1, <1>2, <1>5 DEF Find, Ask, Record, Load, Check
<1>6. CASE Verify(r) \/ VerifyFails(r) \/ Date(r) \/ Upsert(r)
  BY <1>1, <1>2, <1>6 DEF Verify, VerifyFails, Date, Upsert
<1> QED BY <1>3, <1>4, <1>5, <1>6 DEF Step

LEMMA OthersStayOnNotice ==
  ASSUME IInv, NEW r \in Requests, NEW o \in Orders, NEW s \in GatewayStatuses, Notice(r, o, s)
  PROVE  \A q \in Requests \ {r} : reqs'[q] = reqs[q]
BY DEF Notice, Goto, IInv, TypeOK

\* Only the SELECT of a refresh brings a request to its UPDATE.
LEMMA OnlySelectsLead ==
  ASSUME IInv, NEW r \in Requests, Begin(r) \/ Webhook(r) \/ Step(r), ~SelectRows(r)
  PROVE  reqs'[r].pc # "update"
<1>1. CASE Begin(r) \/ Webhook(r)
  BY <1>1, BegunRow
<1>2. CASE Step(r)
  <2>1. StepRow(r) /\ reqs[r].then # "update" /\ Idle.pc = "idle"
    BY <1>2, StepsTakeRows, RequestIsSound, IdleIsSound DEF Request
  <2> QED BY <2>1 DEF StepRow
<1> QED BY <1>1, <1>2

LEMMA OnlySelectsHold ==
  ASSUME IInv, [Next]_vars, ~ \E r \in Requests : SelectRows(r)
  PROVE  Holding' \subseteq Holding
<1> SUFFICES ASSUME NEW q \in Requests, reqs'[q].pc = "update" PROVE reqs'[q] = reqs[q]
  BY DEF Holding
<1>1. ASSUME NEW r \in Requests, Begin(r) \/ Webhook(r) \/ Step(r) PROVE reqs'[q] = reqs[q]
  BY <1>1, OthersStay, OnlySelectsLead
<1>2. ASSUME NEW r \in Requests, NEW o \in Orders, NEW s \in GatewayStatuses, Notice(r, o, s)
      PROVE  reqs'[q] = reqs[q]
  BY <1>2, OthersStayOnNotice, NoticeRow
<1>3. ASSUME NEW R \in SUBSET Requests, Interrupted(R) PROVE reqs'[q] = reqs[q]
  BY <1>3, IdleIsSound DEF Interrupted
<1>4. (\E o \in Orders : Midtrans(o)) \/ Tick \/ UNCHANGED vars => reqs' = reqs
  BY DEF Midtrans, Tick, vars
<1> QED BY <1>1, <1>2, <1>3, <1>4 DEF Next

\* No more connections are kept than there are.
PoolFits == Cardinality(Holding) <= MaxOpen

LEMMA NextKeepsPool ==
  ASSUME IInv, PoolFits, [Next]_vars
  PROVE  PoolFits'
<1>1. /\ Holding \in SUBSET Requests /\ Holding' \in SUBSET Requests
      /\ MaxOpen \in Nat
  BY BillingAssumption DEF Holding
<1>2. /\ IsFiniteSet(Holding) /\ IsFiniteSet(Holding')
      /\ Cardinality(Holding) \in Nat /\ Cardinality(Holding') \in Nat
  BY <1>1, RequestsAreFinite
<1>3. ASSUME NEW r \in Requests, SelectRows(r) PROVE PoolFits'
  <2>1. Step(r) /\ Cardinality(Holding) < MaxOpen
    BY <1>3 DEF Step, SelectRows, Connected
  <2>2. Holding' \subseteq Holding \cup {r}
    BY <2>1, OthersStay DEF Holding
  <2>3. /\ IsFiniteSet(Holding \cup {r})
        /\ Cardinality(Holding \cup {r}) \in Nat
        /\ Cardinality(Holding \cup {r}) <= Cardinality(Holding) + 1
    <3> DEFINE n == Cardinality(Holding \cup {r})
    <3>1. IsFiniteSet(Holding \cup {r}) /\ (n = Cardinality(Holding) \/ n = Cardinality(Holding) + 1)
      BY <1>2, FS_AddElement
    <3> HIDE DEF n
    <3>2. n \in Nat /\ n <= Cardinality(Holding) + 1
      BY <1>2, <3>1
    <3> QED BY <3>1, <3>2 DEF n
  <2>4. Cardinality(Holding') <= Cardinality(Holding \cup {r})
    BY <2>2, <2>3, FS_Subset
  <2> QED BY <1>1, <1>2, <2>1, <2>3, <2>4 DEF PoolFits
<1>4. CASE ~ \E r \in Requests : SelectRows(r)
  <2>1. Cardinality(Holding') <= Cardinality(Holding)
    BY <1>2, <1>4, OnlySelectsHold, FS_Subset
  <2> QED BY <1>1, <1>2, <2>1 DEF PoolFits
<1> QED BY <1>3, <1>4

LEMMA InitPool == Init => PoolFits
<1> SUFFICES ASSUME Init PROVE PoolFits
  OBVIOUS
<1>1. Holding = {}
  BY IdleIsSound DEF Init, Holding
<1> QED BY <1>1, FS_EmptySet, BillingAssumption DEF PoolFits

\* Without a connection for a statement, the pool is used up.
LEMMA NoneLeft ==
  ASSUME PoolFits
  PROVE  ~Connected <=> PoolIsStuck
<1>1. Cardinality(Holding) \in Nat /\ MaxOpen \in Nat
  BY RequestsAreFinite, BillingAssumption DEF Holding
<1> QED BY <1>1 DEF PoolFits, Connected, PoolIsStuck, Holding

LEMMA ReadyUnlessStuck ==
  ASSUME IInv, PoolFits
  PROVE  NoOneIsBlocked
<1> SUFFICES ASSUME NEW r \in Requests, reqs[r].pc # "idle", Connected PROVE Ready(r)
  BY NoneLeft DEF NoOneIsBlocked
<1>1. reqs[r] \in Request /\ Sound(reqs[r])
  BY RequestIsSound
<1>2. reqs[r].pc = "insert" => txns[reqs[r].order] = NoTxn
  BY DEF IInv, InsertsAreFresh
<1>3. reqs[r].pc = "find" => \E o \in Orders : reqs[r].kind = "notice" => o = reqs[r].order
  BY <1>1, BillingAssumption DEF Sound, Told
<1>4. Wanted(r) # {} /\ Products # {}
  <2>1. PICK s \in StoreStatuses : TRUE
    BY BillingAssumption
  <2>2. <<OfStore, s, now>> \in {OfStore} \X StoreStatuses \X {NoEnd, now, now + Month[now]}
    OBVIOUS
  <2>3. Wanted(r) # {}
    BY <2>2 DEF Wanted
  <2> QED BY <2>3, BillingAssumption DEF Products
<1> QED BY <1>2, <1>3, <1>4 DEF Ready

\* However many requests overlap, fail half way or crash, one that is being handled can go on, or every
\* connection is kept by a refresh of a Pro account: an order id never waits for another checkout, a
\* notification always finds its order (refreshUserEntitlement, createCheckout, midtransWebhook).
THEOREM OnlyThePoolBlocks == Spec => []NoOneIsBlocked
<1>1. IInv /\ PoolFits /\ [Next]_vars => PoolFits'
  BY NextKeepsPool
<1>2. IInv /\ PoolFits => NoOneIsBlocked
  BY ReadyUnlessStuck
<1> QED BY <1>1, <1>2, InitPool, Invariance, PTL DEF Spec

\* A request that waits for the UPDATE of its refresh stays, while there is no connection.
LEMMA WaitingStay ==
  ASSUME IInv, [Next]_vars, ~Connected, ~ \E R \in SUBSET Requests : Interrupted(R),
         NEW q \in Requests, reqs[q].pc = "update"
  PROVE  reqs'[q] = reqs[q]
<1>1. ASSUME NEW r \in Requests, Begin(r) \/ Webhook(r) \/ Step(r) PROVE r # q
  BY <1>1 DEF Begin, Webhook, Step, SelectRows, UpdateUser, CreateSnap, NoOrderLeft, InsertOrder, Find,
     Ask, Record, Load, Check, Verify, VerifyFails, Date, Upsert
<1>2. ASSUME NEW r \in Requests, NEW o \in Orders, NEW s \in GatewayStatuses, Notice(r, o, s)
      PROVE  r # q
  BY <1>2 DEF Notice
<1>3. (\E o \in Orders : Midtrans(o)) \/ Tick \/ UNCHANGED vars => reqs' = reqs
  BY DEF Midtrans, Tick, vars
<1> QED BY <1>1, <1>2, <1>3, OthersStay, OthersStayOnNotice DEF Next

LEMMA StuckStep ==
  ASSUME IInv, PoolFits, [Next]_vars, PoolIsStuck
  PROVE  PoolIsStuck' \/ slips' # slips
<1>1. ~Connected
  BY NoneLeft
<1>2. CASE \E R \in SUBSET Requests : Interrupted(R)
  BY <1>2, BillingAssumption DEF Interrupted, IInv, TypeOK
<1>3. CASE ~ \E R \in SUBSET Requests : Interrupted(R)
  <2>1. Holding' \subseteq Holding
    BY <1>1, OnlySelectsHold DEF SelectRows
  <2>2. Holding \subseteq Holding'
    BY <1>1, <1>3, WaitingStay DEF Holding
  <2>3. Holding' = Holding
    BY <2>1, <2>2
  <2> QED BY <2>3 DEF Holding, PoolIsStuck
<1> QED BY <1>2, <1>3

\* Refreshes that have used up the pool wait for ever, if no client hangs up and the server is not
\* restarted, for every size of the pool: nothing else ends one (refreshUserEntitlement, defer rows.Close).
THEOREM StuckStaysStuck == Spec => StuckUntilHangUp
<1>1. IInv /\ PoolFits /\ [Next]_vars => PoolFits'
  BY NextKeepsPool
<1>2. IInv /\ PoolFits /\ [Next]_vars =>
        [PoolIsStuck => PoolIsStuck' \/ slips' # slips]_vars
  BY StuckStep
<1> QED BY <1>1, <1>2, InitPool, Invariance, PTL DEF Spec, StuckUntilHangUp

-----------------------------------------------------------------------------
(* A payment that is acknowledged has led to its subscription.             *)

\* What the row of an order says of who ordered what stays.
LEMMA OrdersStay ==
  ASSUME IInv, [Next]_vars, NEW o \in Orders, txns[o] # NoTxn
  PROVE  txns'[o].user = txns[o].user /\ txns'[o].product = txns[o].product
<1>1. txns \in [Orders -> Txn]
  BY DEF IInv, TypeOK
<1>2. ASSUME NEW r \in Requests, Record(r)
      PROVE  txns'[o].user = txns[o].user /\ txns'[o].product = txns[o].product
  <2>1. txns' = [txns EXCEPT ![reqs[r].order].status = NormalizeMidtransStatus(reqs[r].told)]
    BY <1>2 DEF Record
  <2> QED BY <1>1, <2>1 DEF Txn
<1>3. ASSUME NEW r \in Requests, InsertOrder(r) \/ Verify(r) PROVE txns'[o] = txns[o]
  BY <1>1, <1>3 DEF InsertOrder, Verify
<1>4. UNCHANGED txns \/ \E r \in Requests : Record(r) \/ InsertOrder(r) \/ Verify(r)
  <2>1. ASSUME NEW r \in Requests, Begin(r) \/ Webhook(r) \/ Step(r),
               ~(Record(r) \/ InsertOrder(r) \/ Verify(r))
        PROVE  UNCHANGED txns
    BY <2>1 DEF Begin, Webhook, Step, SelectRows, UpdateUser, CreateSnap, NoOrderLeft, Find, Ask, Load, Check,
       VerifyFails, Date, Upsert
  <2>2. ASSUME \/ \E r \in Requests, x \in Orders, s \in GatewayStatuses : Notice(r, x, s)
               \/ \E R \in SUBSET Requests : Interrupted(R)
               \/ \E x \in Orders : Midtrans(x)
               \/ Tick \/ UNCHANGED vars
        PROVE  UNCHANGED txns
    BY <2>2 DEF Notice, Interrupted, Midtrans, Tick, vars
  <2> QED BY <2>1, <2>2 DEF Next
<1> QED BY <1>2, <1>3, <1>4

\* Rows are never deleted.
LEMMA RowsStay ==
  ASSUME IInv, [Next]_vars, NEW u \in Users, NEW k \in Keys, subs[u][k].age # 0
  PROVE  subs'[u][k].age # 0
<1>1. CASE ~ \E r \in Requests : Upsert(r)
  BY <1>1, OnlyUpsertsChangeRows
<1>2. ASSUME NEW r \in Requests, Upsert(r) PROVE subs'[u][k].age # 0
  <2>1. PICK w \in Wanted(r) :
          subs'[u] = IF u = reqs[r].user
                     THEN Touched(subs[u], w[1], NormalizeSubscriptionStatus(w[2]), w[3]) ELSE subs[u]
    BY <1>2, UpsertedRows
  <2>2. /\ subs[u] \in [Keys -> SubRow] /\ w[3] \in Nat
        /\ NormalizeSubscriptionStatus(w[2]) \in SubStatuses
    BY WantedRow, NormalizedIsStatus DEF IInv, TypeOK
  <2>3. Touched(subs[u], w[1], NormalizeSubscriptionStatus(w[2]), w[3])[k].age # 0
    BY <2>2, TouchedRows
  <2> QED BY <2>1, <2>3
<1> QED BY <1>1, <1>2

\* The refresh of a notification follows its upsert; what is upserted for an order is a subscription.
Renews(q) ==
  /\ q.kind = "notice" /\ q.pc \in {"select", "update"} => q.order \in Orders /\ q.order \in activated
  /\ q.kind \in {"sync", "notice"} /\ q.pc \in {"date", "upsert"} => q.product \in SubProducts

\* An order that has led to an upsert has its subscription, and one that is acknowledged has.
Activation ==
  /\ \A o \in Orders : o \in activated =>
       /\ txns[o].user \in Users /\ txns[o].product \in SubProducts
       /\ subs[txns[o].user][OfMidtrans(txns[o].product)].age # 0
  /\ \A o \in Orders : acked[o] # {} =>
       txns[o] # NoTxn /\ (txns[o].product \in SubProducts => o \in activated)
  /\ \A r \in Requests : Renews(reqs[r])

\* The row that is touched is the newest, and ends when it is told to.
LEMMA TouchedNewest ==
  ASSUME NEW rows, NEW k \in Keys, NEW s, NEW e
  PROVE  Touched(rows, k, s, e)[k].age = 1 /\ Touched(rows, k, s, e)[k].end = e
BY Zenon DEF Touched

LEMMA UpsertActivates ==
  ASSUME IInv, Activation, NEW r \in Requests, Upsert(r), reqs[r].kind \in {"sync", "notice"}
  PROVE  LET q == reqs[r]
         IN  /\ q.order \in Orders /\ UNCHANGED txns
             /\ activated' = activated \cup {q.order}
             /\ txns[q.order].user \in Users /\ txns[q.order].product \in SubProducts
             /\ subs'[txns[q.order].user][OfMidtrans(txns[q.order].product)].age # 0
<1> DEFINE q == reqs[r]
           k == OfMidtrans(q.product)
<1>1. q \in Request /\ Sound(q) /\ q.pc = "upsert" /\ UNCHANGED txns
  BY RequestIsSound DEF Upsert
<1>2. /\ q.order \in Orders /\ q.user \in Users /\ q.product \in SubProducts
      /\ txns[q.order].user = q.user /\ txns[q.order].product = q.product
  BY <1>1 DEF Sound, Fits, Matches, Activation, Renews
<1>4. activated' = activated \cup {q.order}
  BY DEF Upsert
<1>5. PICK w \in Wanted(r) :
        subs'[q.user] = Touched(subs[q.user], w[1], NormalizeSubscriptionStatus(w[2]), w[3])
  BY <1>2, UpsertedRows
<1>6. k \in Keys /\ w[1] = k
  BY <1>2, WantedRow DEF Keys
<1>7. subs'[q.user][k].age = 1
  <2>1. Touched(subs[q.user], k, NormalizeSubscriptionStatus(w[2]), w[3])[k].age = 1
    BY <1>6, TouchedNewest
  <2> QED BY <1>5, <1>6, <2>1
<1> QED BY <1>1, <1>2, <1>4, <1>7

\* What was upserted stays counted.
LEMMA ActivatedStay ==
  ASSUME IInv, Activation, [Next]_vars, NEW o \in Orders
  PROVE  /\ o \in activated => o \in activated'
         /\ (o \in activated' => o \in activated)
              \/ \E r \in Requests : Upsert(r) /\ reqs[r].kind \in {"sync", "notice"} /\ o = reqs[r].order
<1>1. ASSUME NEW r \in Requests, Upsert(r), reqs[r].kind \in {"sync", "notice"}
      PROVE  /\ o \in activated => o \in activated'
             /\ (o \in activated' => o \in activated) \/ o = reqs[r].order
  BY <1>1, UpsertActivates
<1>2. ASSUME NEW r \in Requests, Upsert(r), reqs[r].kind \notin {"sync", "notice"}
      PROVE  UNCHANGED activated
  BY <1>2 DEF Upsert
<1>3. ASSUME NEW r \in Requests, Begin(r) \/ Webhook(r) \/ Step(r), ~Upsert(r)
      PROVE  UNCHANGED activated
  BY <1>3 DEF Begin, Webhook, Step, SelectRows, UpdateUser, CreateSnap, NoOrderLeft, InsertOrder, Find, Ask,
     Record, Load, Check, Verify, VerifyFails, Date
<1>4. ASSUME \/ \E r \in Requests, x \in Orders, s \in GatewayStatuses : Notice(r, x, s)
             \/ \E R \in SUBSET Requests : Interrupted(R)
             \/ \E x \in Orders : Midtrans(x)
             \/ Tick \/ UNCHANGED vars
      PROVE  UNCHANGED activated
  BY <1>4 DEF Notice, Interrupted, Midtrans, Tick, vars
<1> QED BY <1>1, <1>2, <1>3, <1>4 DEF Next

\* Where a status that was recorded leads a request.
LEMMA RecordLeads ==
  ASSUME IInv, NEW r \in Requests, Record(r)
  PROVE  /\ reqs'[r].pc \in {"date", "upsert"} =>
              reqs[r].product \in SubProducts /\ Settled(NormalizeMidtransStatus(reqs[r].told))
         /\ reqs'[r].pc = "select" => reqs[r].kind = "sync"
         /\ acked' # acked =>
              ~(Settled(NormalizeMidtransStatus(reqs[r].told)) /\ reqs[r].product \in SubProducts)
<1>1. reqs \in [Requests -> Request] /\ reqs[r] \in Request
  BY DEF IInv, TypeOK
<1> DEFINE paid == Settled(NormalizeMidtransStatus(reqs[r].told)) /\ reqs[r].product \in SubProducts
<1>2. CASE paid
  BY <1>1, <1>2 DEF Record, Goto, Request
<1>3. CASE ~paid /\ reqs[r].kind = "sync"
  BY ZenonT(60), <1>1, <1>3 DEF Record, Goto, Request
<1>4. CASE ~paid /\ reqs[r].kind # "sync"
  <2>1. reqs'[r] = Idle
    BY <1>1, <1>4 DEF Record, Done, Goto
  <2> QED BY <1>4, <2>1, IdleIsSound
<1> QED BY <1>2, <1>3, <1>4

\* An answer acknowledges a payment only when there is nothing left to do for it.
LEMMA AcksAreDue ==
  ASSUME IInv, Activation, NEW r \in Requests, Begin(r) \/ Webhook(r) \/ Step(r),
         NEW o \in Orders, acked'[o] # acked[o]
  PROVE  txns[o] # NoTxn /\ (txns[o].product \in SubProducts => o \in activated)
<1> DEFINE q == reqs[r]
<1>1. q \in Request /\ Sound(q) /\ Renews(q)
  BY RequestIsSound DEF Activation
<1>2. UpdateUser(r) \/ InsertOrder(r) \/ Record(r)
  BY DEF Begin, Webhook, Step, SelectRows, CreateSnap, NoOrderLeft, Find, Ask, Load, Check, Verify,
     VerifyFails, Date, Upsert, Refused
<1>3. Done(r)
  BY <1>2 DEF UpdateUser, InsertOrder, Record
<1>4. q.kind = "notice" /\ Settled(q.told) /\ o = q.order
  BY <1>3 DEF Done, IInv, TypeOK
<1>5. CASE UpdateUser(r)
  <2>1. o \in activated
    BY <1>1, <1>4, <1>5 DEF UpdateUser, Renews
  <2> QED BY <2>1, OrdersOfUsers DEF Activation
<1>6. CASE InsertOrder(r)
  BY <1>1, <1>4, <1>6 DEF InsertOrder, Sound, Fits, Stages
<1>7. CASE Record(r)
  <2>1. NormalizeMidtransStatus(q.told) = q.told
    BY <1>4 DEF NormalizeMidtransStatus, Settled, Payments
  <2>2. q.product \notin SubProducts
    BY <1>4, <1>7, <2>1, RecordLeads
  <2>3. txns[o].user \in Users /\ txns[o].product = q.product
    BY <1>1, <1>4, <1>7 DEF Record, Sound, Fits, Matches
  <2> QED BY <2>2, <2>3, OrdersOfUsers
<1> QED BY <1>2, <1>5, <1>6, <1>7

LEMMA StepsKeepRenewing ==
  ASSUME IInv, Activation, NEW r \in Requests, Step(r)
  PROVE  Renews(reqs[r])'
<1> DEFINE q == reqs[r]
<1>1. q \in Request /\ Sound(q) /\ Renews(q) /\ StepRow(r) /\ [Next]_vars
  BY RequestIsSound, StepsTakeRows DEF Activation, Next
<1>2. \A o \in Orders : o \in activated => o \in activated'
  BY <1>1, ActivatedStay
<1>3. CASE reqs'[r].pc \notin {"select", "update", "date", "upsert"}
  BY <1>3 DEF Renews
<1>4. CASE reqs'[r].pc \in {"select", "update"}
  <2> SUFFICES ASSUME reqs'[r].kind = "notice"
               PROVE  reqs'[r].order \in Orders /\ reqs'[r].order \in activated'
    BY <1>4 DEF Renews
  <2>1. CASE Upsert(r) /\ SameCase(reqs'[r], q)
    BY <2>1, UpsertActivates DEF SameCase
  <2>2. CASE SameCase(reqs'[r], q) /\ q.pc \in {"select", "update"}
    BY <1>1, <1>2, <2>2 DEF SameCase, Renews
  <2>3. CASE Record(r) /\ SameCase(reqs'[r], q)
    <3>1. q.kind = "notice" /\ reqs'[r].pc # "select"
      BY <2>3, RecordLeads DEF SameCase
    <3>2. ~SelectRows(r)
      BY <2>3 DEF Record, SelectRows
    <3> QED BY <1>4, <3>1, <3>2, OnlySelectsLead
  <2> QED BY <1>1, <1>4, <2>1, <2>2, <2>3, IdleIsSound DEF StepRow, SelectRows, UpdateUser
<1>5. CASE reqs'[r].pc \in {"date", "upsert"}
  <2> SUFFICES ASSUME reqs'[r].kind \in {"sync", "notice"} PROVE reqs'[r].product \in SubProducts
    BY <1>5 DEF Renews
  <2>1. CASE Record(r) /\ SameCase(reqs'[r], q)
    BY <1>5, <2>1, RecordLeads DEF SameCase
  <2>2. CASE UpdateUser(r) /\ SameCase(reqs'[r], q) /\ reqs'[r].pc = q.then
    BY <1>1, <1>5, <2>2 DEF UpdateUser, SameCase, Sound, Fits, First
  <2>3. CASE Check(r) /\ SameCase(reqs'[r], q)
    BY <1>1, <2>3 DEF Check, SameCase, Sound, Fits, Stages
  <2>4. CASE Verify(r) /\ reqs'[r].kind = q.kind
    BY <1>1, <2>4 DEF Verify, Sound, Fits, Stages
  <2>5. CASE Date(r) /\ SameCase(reqs'[r], q)
    BY <1>1, <2>5 DEF Date, SameCase, Renews
  <2> QED BY <1>1, <1>5, <2>1, <2>2, <2>3, <2>4, <2>5, IdleIsSound DEF StepRow
<1> QED BY <1>3, <1>4, <1>5

\* What can become of a request.
LEMMA RequestsMove ==
  ASSUME IInv, [Next]_vars, NEW q \in Requests
  PROVE  \/ reqs'[q] = reqs[q] \/ Step(q) \/ Begin(q) \/ Webhook(q)
         \/ \E o \in Orders, s \in GatewayStatuses : Notice(q, o, s)
         \/ \E R \in SUBSET Requests : Interrupted(R) /\ q \in R
<1>1. ASSUME NEW R \in SUBSET Requests, Interrupted(R), q \notin R PROVE reqs'[q] = reqs[q]
  BY <1>1 DEF Interrupted
<1>2. (\E o \in Orders : Midtrans(o)) \/ Tick \/ UNCHANGED vars => reqs' = reqs
  BY DEF Midtrans, Tick, vars
<1> QED BY <1>1, <1>2, OthersStay, OthersStayOnNotice DEF Next

LEMMA NextKeepsActivation ==
  ASSUME IInv, Activation, [Next]_vars
  PROVE  Activation'
<1>1. ASSUME NEW o \in Orders, o \in activated'
      PROVE  /\ txns'[o].user \in Users /\ txns'[o].product \in SubProducts
             /\ subs'[txns'[o].user][OfMidtrans(txns'[o].product)].age # 0
  <2>1. CASE (o \in activated' => o \in activated)
    <3>1. /\ txns[o].user \in Users /\ txns[o].product \in SubProducts /\ txns[o] # NoTxn
          /\ subs[txns[o].user][OfMidtrans(txns[o].product)].age # 0
      BY <1>1, <2>1, OrdersOfUsers DEF Activation
    <3>2. OfMidtrans(txns[o].product) \in Keys
      BY <3>1 DEF Keys
    <3> QED BY <3>1, <3>2, OrdersStay, RowsStay
  <2>2. ASSUME NEW r \in Requests, Upsert(r), reqs[r].kind \in {"sync", "notice"}, o = reqs[r].order
        PROVE  /\ txns'[o].user \in Users /\ txns'[o].product \in SubProducts
               /\ subs'[txns'[o].user][OfMidtrans(txns'[o].product)].age # 0
    BY <2>2, UpsertActivates
  <2> QED BY <2>1, <2>2, ActivatedStay
<1>2. ASSUME NEW o \in Orders, acked'[o] # {}
      PROVE  txns'[o] # NoTxn /\ (txns'[o].product \in SubProducts => o \in activated')
  <2>1. txns[o] # NoTxn /\ (txns[o].product \in SubProducts => o \in activated)
    <3>1. ASSUME \/ \E r \in Requests, x \in Orders, s \in GatewayStatuses : Notice(r, x, s)
                 \/ \E R \in SUBSET Requests : Interrupted(R)
                 \/ \E x \in Orders : Midtrans(x)
                 \/ Tick \/ UNCHANGED vars
          PROVE  UNCHANGED acked
      BY <3>1 DEF Notice, Interrupted, Midtrans, Tick, vars
    <3> QED BY <1>2, <3>1, AcksAreDue DEF Activation, Next
  <2>2. txns[o].user \in Users
    <3>1. txns[o].user \in Users
      BY <2>1 DEF IInv, OrdersAreWhole
    <3> QED BY <3>1
  <2>3. txns'[o] # NoTxn
    BY <2>1, <2>2, OrdersStay, BillingAssumption DEF NoTxn
  <2> QED BY <2>1, <2>3, OrdersStay, ActivatedStay
<1>3. ASSUME NEW q \in Requests
      PROVE  Renews(reqs[q])'
  <2>1. Renews(reqs[q]) /\ \A o \in Orders : o \in activated => o \in activated'
    BY ActivatedStay DEF Activation
  <2>2. CASE reqs'[q] = reqs[q]
    BY <2>1, <2>2 DEF Renews
  <2>3. CASE Step(q)
    BY <2>3, StepsKeepRenewing
  <2>4. CASE Begin(q) \/ Webhook(q)
    <3>1. Sound(reqs[q])' /\ reqs'[q].told = "none"
          /\ (reqs'[q].pc = "select" \/ (reqs'[q].pc = "upsert" /\ reqs'[q].kind = "webhook"))
      <4>1. IInv'
        BY NextKeepsIInv
      <4> QED BY <2>4, <4>1, BegunRow DEF IInv, RequestsAreSound, Sound
    <3> QED BY <3>1 DEF Renews, Sound, Told
  <2>5. ASSUME NEW o \in Orders, NEW s \in GatewayStatuses, Notice(q, o, s) PROVE Renews(reqs[q])'
    BY <2>5, NoticeRow DEF Renews
  <2>6. ASSUME NEW R \in SUBSET Requests, Interrupted(R), q \in R PROVE Renews(reqs[q])'
    BY <2>6, IdleIsSound DEF Interrupted, Renews
  <2> QED BY <2>2, <2>3, <2>4, <2>5, <2>6, RequestsMove
<1> QED BY <1>1, <1>2, <1>3 DEF Activation

LEMMA InitActivation == Init => Activation
BY IdleIsSound DEF Init, Activation, Renews

\* Whatever overlaps, repeats or stops half way, Midtrans is told that a payment has arrived only when the
\* subscription it pays for has been written; until then it keeps sending (midtransWebhook).
THEOREM AcksAreActivated == Spec => []AckedIsActivated
<1>1. IInv /\ Activation /\ [Next]_vars => Activation'
  BY NextKeepsActivation
<1>2. Activation => AckedIsActivated
  BY DEF Activation, AckedIsActivated
<1> QED BY <1>1, <1>2, InitActivation, Invariance, PTL DEF Spec

-----------------------------------------------------------------------------
(* Payments that are reported again.                                       *)

\* A request that activates an order knows that it was paid, and the end it has reckoned is that of a
\* period which began since then.
Reckoned(q) ==
  q.kind \in {"sync", "notice"} =>
    /\ q.pc \in {"date", "upsert"} => paidAt[q.order] # 0
    /\ q.pc = "upsert" => \E t \in paidAt[q.order]..now : q.end = PeriodEnd(q.product, t)

PaidSince ==
  /\ \A o \in Orders : sent[o] \cap Payments # {} => paidAt[o] # 0
  /\ \A r \in Requests : Reckoned(reqs[r])
  /\ PeriodsDontStack

\* The first payment of an order is the one that counts, and the clock goes on.
LEMMA PaidAtStays ==
  ASSUME IInv, [Next]_vars
  PROVE  /\ now \in Nat /\ now' \in Nat /\ now <= now'
         /\ \A o \in Orders : paidAt[o] # 0 => paidAt'[o] = paidAt[o]
<1>1. now \in Nat /\ now' \in Nat /\ now <= now'
  BY TimeOnlyGoesOn DEF IInv, TypeOK
<1>2. paidAt \in [Orders -> 0..now]
  BY DEF IInv, TypeOK
<1>3. ASSUME NEW r \in Requests, Begin(r) \/ Webhook(r) \/ Step(r)
      PROVE  UNCHANGED paidAt
  BY <1>3 DEF Begin, Webhook, Step, SelectRows, UpdateUser, CreateSnap, NoOrderLeft, InsertOrder, Find, Ask,
     Record, Load, Check, Verify, VerifyFails, Date, Upsert
<1>4. ASSUME \/ \E r \in Requests, x \in Orders, s \in GatewayStatuses : Notice(r, x, s)
             \/ \E R \in SUBSET Requests : Interrupted(R)
             \/ Tick \/ UNCHANGED vars
      PROVE  UNCHANGED paidAt
  BY <1>4 DEF Notice, Interrupted, Tick, vars
<1>5. ASSUME NEW x \in Orders, Midtrans(x)
      PROVE  \A o \in Orders : paidAt[o] # 0 => paidAt'[o] = paidAt[o]
  BY <1>2, <1>5 DEF Midtrans
<1> QED BY <1>1, <1>3, <1>4, <1>5 DEF Next

LEMMA PaymentsAreDated ==
  ASSUME IInv, PaidSince, [Next]_vars, NEW o \in Orders, sent'[o] \cap Payments # {}
  PROVE  paidAt'[o] # 0
<1>1. /\ now \in Nat \ {0} /\ paidAt \in [Orders -> 0..now] /\ sent \in [Orders -> SUBSET GatewayStatuses]
  BY DEF IInv, TypeOK
<1>2. ASSUME NEW r \in Requests, Begin(r) \/ Webhook(r) \/ Step(r)
      PROVE  UNCHANGED sent
  BY <1>2 DEF Begin, Webhook, Step, SelectRows, UpdateUser, CreateSnap, NoOrderLeft, InsertOrder, Find, Ask,
     Record, Load, Check, Verify, VerifyFails, Date, Upsert
<1>3. ASSUME \/ \E r \in Requests, x \in Orders, s \in GatewayStatuses : Notice(r, x, s)
             \/ \E R \in SUBSET Requests : Interrupted(R)
             \/ Tick \/ UNCHANGED vars
      PROVE  UNCHANGED sent
  BY <1>3 DEF Notice, Interrupted, Tick, vars
<1>4. CASE UNCHANGED sent
  BY <1>4, PaidAtStays DEF PaidSince
<1>5. ASSUME NEW x \in Orders, Midtrans(x)
      PROVE  paidAt'[o] # 0
  <2>1. PICK s \in Becomes(x) :
          /\ sent' = [sent EXCEPT ![x] = @ \cup {s}]
          /\ paidAt' = [paidAt EXCEPT ![x] = IF s \in Payments /\ @ = 0 THEN now ELSE @]
    BY <1>5 DEF Midtrans
  <2>2. CASE sent[o] \cap Payments # {}
    BY <2>2, PaidAtStays DEF PaidSince
  <2>3. CASE sent[o] \cap Payments = {}
    <3>1. o = x /\ s \in Payments
      BY <1>1, <2>1, <2>3
    <3> QED BY <1>1, <2>1, <3>1
  <2> QED BY <2>2, <2>3
<1> QED BY <1>2, <1>3, <1>4, <1>5 DEF Next

\* What was reckoned stays right, while it waits to be written.
LEMMA ReckonedStays ==
  ASSUME IInv, [Next]_vars, NEW q \in Requests, Reckoned(reqs[q]), reqs'[q] = reqs[q]
  PROVE  Reckoned(reqs[q])'
<1> DEFINE row == reqs[q]
<1> SUFFICES ASSUME row.kind \in {"sync", "notice"}, row.pc \in {"date", "upsert"}
             PROVE  Reckoned(row)'
  BY DEF Reckoned
<1>1. Sound(row) /\ row.order \in Orders
  BY RequestIsSound DEF Sound, Matches
<1>2. paidAt[row.order] # 0 /\ paidAt'[row.order] = paidAt[row.order]
  BY <1>1, PaidAtStays DEF Reckoned
<1>3. paidAt[row.order] \in Nat
  BY <1>1 DEF IInv, TypeOK
<1>4. \A t \in paidAt[row.order]..now : t \in paidAt'[row.order]..now'
  BY <1>2, <1>3, PaidAtStays
<1>5. \A p, t : PeriodEnd(p, t)' = PeriodEnd(p, t)
  BY DEF PeriodEnd
<1> QED BY <1>2, <1>4, <1>5 DEF Reckoned

LEMMA StepsReckon ==
  ASSUME IInv, PaidSince, NEW r \in Requests, Step(r)
  PROVE  Reckoned(reqs[r])'
<1> DEFINE q == reqs[r]
           row == reqs'[r]
<1>1. q \in Request /\ Sound(q) /\ Reckoned(q) /\ StepRow(r) /\ [Next]_vars
  BY RequestIsSound, StepsTakeRows DEF PaidSince, Next
<1> SUFFICES ASSUME row.kind \in {"sync", "notice"}, row.pc \in {"date", "upsert"}
             PROVE  Reckoned(reqs[r])'
  BY DEF Reckoned
<1>2. CASE Record(r) /\ SameCase(row, q) /\ row.pc = "date"
  <2>1. /\ q.order \in Orders /\ q.told \in sent[q.order] /\ q.told \in GatewayStatuses
        /\ row.order = q.order
    BY <1>1, <1>2 DEF Record, Sound, Told, Matches, SameCase, Request
  <2>2. Settled(NormalizeMidtransStatus(q.told))
    BY <1>1, <1>2, RecordLeads
  <2>3. q.told \in Payments
    BY <2>1, <2>2, NormalizedStatus
  <2>4. paidAt[q.order] # 0
    BY <2>1, <2>3 DEF PaidSince
  <2>5. UNCHANGED paidAt
    BY <1>2 DEF Record
  <2> QED BY <1>2, <2>1, <2>4, <2>5 DEF Reckoned
<1>3. CASE /\ Date(r) /\ SameCase(row, q) /\ row.pc = "upsert"
           /\ q.kind # "trial" => row.end = PeriodEnd(q.product, now)
  <2>1. q.kind \in {"sync", "notice"} /\ q.pc = "date" /\ UNCHANGED <<now, paidAt>>
    BY <1>3 DEF Date, SameCase
  <2>2. /\ q.order \in Orders /\ paidAt[q.order] # 0 /\ row.order = q.order /\ row.product = q.product
        /\ row.end = PeriodEnd(q.product, now)
    BY <1>1, <1>3, <2>1 DEF Sound, Matches, Reckoned, SameCase
  <2>3. now \in paidAt[q.order]..now
    BY <2>2 DEF IInv, TypeOK
  <2>4. \A p, t : PeriodEnd(p, t)' = PeriodEnd(p, t)
    BY DEF PeriodEnd
  <2> QED BY <1>3, <2>1, <2>2, <2>3, <2>4 DEF Reckoned
<1>4. ~(UpdateUser(r) /\ SameCase(row, q) /\ row.pc = q.then)
  BY <1>1 DEF UpdateUser, SameCase, Sound, Fits, First
<1>5. ~(Check(r) /\ SameCase(row, q))
  BY <1>1 DEF Check, SameCase, Sound, Fits, Stages
<1>6. ~(Verify(r) /\ row.kind = q.kind)
  BY <1>1 DEF Verify, Sound, Fits, Stages
<1> QED BY <1>1, <1>2, <1>3, <1>4, <1>5, <1>6, IdleIsSound DEF StepRow

\* A row of Midtrans that is written ends when the request has reckoned; the others end when they did.
LEMMA EndsAreReckoned ==
  ASSUME IInv, PaidSince, [Next]_vars, NEW u \in Users, NEW p \in SubProducts,
         subs'[u][OfMidtrans(p)].age # 0
  PROVE  \E o \in Orders :
           /\ txns[o].user = u /\ txns[o].product = p /\ paidAt[o] # 0
           /\ \E t \in paidAt[o]..now : subs'[u][OfMidtrans(p)].end = PeriodEnd(p, t)
<1> DEFINE k == OfMidtrans(p)
<1>1. subs[u] \in [Keys -> SubRow] /\ k \in Keys
  BY DEF IInv, TypeOK, Keys
<1>2. CASE subs[u][k].age # 0 /\ subs'[u][k].end = subs[u][k].end
  BY <1>2 DEF PaidSince, PeriodsDontStack
<1>3. ASSUME NEW r \in Requests, Upsert(r)
      PROVE  \/ subs[u][k].age # 0 /\ subs'[u][k].end = subs[u][k].end
             \/ \E o \in Orders :
                  /\ txns[o].user = u /\ txns[o].product = p /\ paidAt[o] # 0
                  /\ \E t \in paidAt[o]..now : subs'[u][k].end = PeriodEnd(p, t)
  <2> DEFINE q == reqs[r]
  <2>1. PICK w \in Wanted(r) :
          subs'[u] = IF u = q.user
                     THEN Touched(subs[u], w[1], NormalizeSubscriptionStatus(w[2]), w[3]) ELSE subs[u]
    BY <1>3, UpsertedRows
  <2>2. CASE u = q.user /\ w[1] = k
    <3>1. q.kind \in {"sync", "notice"} /\ OfMidtrans(q.product) = k
      BY <2>2, WantedRow
    <3>2. q.product = p
      BY <3>1 DEF OfMidtrans
    <3>3. w[3] = q.end
      BY <3>1 DEF Wanted
    <3>4. subs'[u][k].end = q.end
      <4>1. Touched(subs[u], k, NormalizeSubscriptionStatus(w[2]), w[3])[k].end = w[3]
        BY <1>1, TouchedNewest
      <4> QED BY <2>1, <2>2, <3>3, <4>1
    <3>5. q.pc = "upsert" /\ Sound(q) /\ Reckoned(q)
      BY <1>3, RequestIsSound DEF Upsert, PaidSince
    <3>6. q.order \in Orders /\ txns[q.order].user = u /\ txns[q.order].product = p
      BY <2>2, <3>1, <3>2, <3>5 DEF Sound, Matches
    <3>7. paidAt[q.order] # 0 /\ \E t \in paidAt[q.order]..now : q.end = PeriodEnd(p, t)
      BY <3>1, <3>2, <3>5 DEF Reckoned
    <3> QED BY <3>4, <3>6, <3>7
  <2>3. CASE u # q.user
    BY <2>1, <2>3
  <2>4. CASE u = q.user /\ w[1] # k
    <3> DEFINE rows == Touched(subs[u], w[1], NormalizeSubscriptionStatus(w[2]), w[3])
    <3>1. rows[k].end = subs[u][k].end
      BY <1>1, <2>4, OthersUntouched
    <3>2. rows[k].age # 0 => subs[u][k].age # 0
      BY <1>1, <2>4, WantedRow, NormalizedIsStatus, TouchedRows
    <3> HIDE DEF rows
    <3>3. subs'[u] = rows
      BY <2>1, <2>4 DEF rows
    <3> QED BY <3>1, <3>2, <3>3
  <2> QED BY <2>2, <2>3, <2>4
<1>4. CASE ~ \E r \in Requests : Upsert(r)
  BY <1>2, <1>4, OnlyUpsertsChangeRows
<1> QED BY <1>2, <1>3, <1>4

LEMMA NextKeepsPaidSince ==
  ASSUME IInv, PaidSince, [Next]_vars
  PROVE  PaidSince'
<1>1. ASSUME NEW q \in Requests
      PROVE  Reckoned(reqs[q])'
  <2>1. CASE reqs'[q] = reqs[q]
    BY <2>1, ReckonedStays DEF PaidSince
  <2>2. CASE Step(q)
    BY <2>2, StepsReckon
  <2>3. CASE Begin(q) \/ Webhook(q)
    BY <2>3, BegunRow DEF Reckoned
  <2>4. ASSUME NEW o \in Orders, NEW s \in GatewayStatuses, Notice(q, o, s) PROVE Reckoned(reqs[q])'
    BY <2>4, NoticeRow DEF Reckoned
  <2>5. ASSUME NEW R \in SUBSET Requests, Interrupted(R), q \in R PROVE Reckoned(reqs[q])'
    BY <2>5, IdleIsSound DEF Interrupted, Reckoned
  <2> QED BY <2>1, <2>2, <2>3, <2>4, <2>5, RequestsMove
<1>2. PeriodsDontStack'
  <2> SUFFICES ASSUME NEW u \in Users, NEW p \in SubProducts, subs'[u][OfMidtrans(p)].age # 0
               PROVE  \E o \in Orders :
                        /\ txns'[o].user = u /\ txns'[o].product = p /\ paidAt'[o] # 0
                        /\ \E t \in paidAt'[o]..now' : subs'[u][OfMidtrans(p)].end = PeriodEnd(p, t)'
    BY DEF PeriodsDontStack
  <2>1. PICK o \in Orders :
          /\ txns[o].user = u /\ txns[o].product = p /\ paidAt[o] # 0
          /\ \E t \in paidAt[o]..now : subs'[u][OfMidtrans(p)].end = PeriodEnd(p, t)
    BY EndsAreReckoned
  <2>2. PICK t \in paidAt[o]..now : subs'[u][OfMidtrans(p)].end = PeriodEnd(p, t)
    BY <2>1
  <2>3. txns'[o].user = u /\ txns'[o].product = p
    BY <2>1, OrdersOfUsers, OrdersStay
  <2>4. paidAt'[o] # 0 /\ t \in paidAt'[o]..now'
    BY <2>1, PaidAtStays DEF IInv, TypeOK
  <2>5. PeriodEnd(p, t)' = PeriodEnd(p, t)
    BY DEF PeriodEnd
  <2> QED BY <2>2, <2>3, <2>4, <2>5
<1> QED BY <1>1, <1>2, PaymentsAreDated DEF PaidSince

LEMMA InitPaidSince == Init => PaidSince
BY IdleIsSound DEF Init, PaidSince, Reckoned, PeriodsDontStack, NoRow, Keys

\* However many requests overlap, repeat, come late or fail half way, and however long the months are: a
\* subscription of Midtrans runs for one period which began when an order of its user for that product had
\* been paid, and never for two of them one after the other (syncCheckout, midtransWebhook).
THEOREM PeriodsNeverStack == Spec => []PeriodsDontStack
<1>1. IInv /\ PaidSince /\ [Next]_vars => PaidSince'
  BY NextKeepsPaidSince
<1>2. PaidSince => PeriodsDontStack
  BY DEF PaidSince
<1> QED BY <1>1, <1>2, InitPaidSince, Invariance, PTL DEF Spec

=============================================================================
