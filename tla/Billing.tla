------------------------------ MODULE Billing ------------------------------
(***************************************************************************)
(* Payments and the plan of a user: checkouts, the notifications and the   *)
(* status queries of Midtrans, purchases on Google Play, trials, and what  *)
(* stores report of their subscriptions.  Three tables: the orders         *)
(* (payment_transactions), the subscription rows, and in users the plan    *)
(* that refreshUserEntitlement derives from those rows.                    *)
(*                                                                         *)
(* A request is one goroutine of the HTTP server; each of its statements   *)
(* is an action, since none of them shares a transaction with another.     *)
(* refreshUserEntitlement is a SELECT and an UPDATE: every request of a    *)
(* signed-in user begins with it (requireUser, GetUserByID), every change  *)
(* of a subscription row is followed by it (UpsertSubscription).           *)
(*                                                                         *)
(* A refresh that finds a row that gives access stops reading there and    *)
(* keeps the connection of its SELECT (defer rows.Close()) until its       *)
(* UPDATE has got another one: the pool has MaxOpen of them.               *)
(*                                                                         *)
(* Midtrans moves an order from status to status and notifies the server   *)
(* of each until it is answered with 200, late or again if it must.        *)
(***************************************************************************)
EXTENDS Integers, FiniteSets

CONSTANTS
  Requests,       \* requests handled at the same time
  Users,
  NoUser,
  Orders,         \* order ids and purchase tokens
  NoOrder,
  SubProducts,    \* products that are subscriptions
  PlayProducts,   \* those of them sold on Google Play too
  Credits,        \* products that are credits
  StoreStatuses,  \* what a store may report of a subscription, before normalisation
  Kinds,          \* the requests that are made
  Late,           \* notifications may come late, after newer ones
  Month, Year,    \* how long a month and a year are that begin at a given time
  TrialLength,
  MaxOpen,        \* connections to the database
  MaxTime,        \* bound on the clock
  MaxSlips        \* bound on interrupted requests and crashes

UserKinds == {"account", "checkout", "sync", "trial", "android", "platform"}
Products == SubProducts \cup Credits
Trial == <<"miaw", "trial">>
OfMidtrans(p) == <<"midtrans", p>>
OfPlay(p) == <<"google_play", p>>
OfStore == <<"store", "any">>  \* what stores report by themselves
Keys == {OfMidtrans(p) : p \in SubProducts} \cup {OfPlay(p) : p \in PlayProducts} \cup {Trial, OfStore}

ASSUME BillingAssumption ==
  /\ IsFiniteSet(Requests)
  /\ NoUser \notin Users /\ NoOrder \notin Orders
  /\ Orders # {} /\ StoreStatuses # {} /\ SubProducts # {}
  /\ SubProducts \cap Credits = {}
  /\ PlayProducts \subseteq SubProducts
  /\ "none" \notin Products
  /\ Kinds \subseteq UserKinds \cup {"webhook", "notice"}
  /\ Late \in BOOLEAN
  /\ Month \in [1..MaxTime -> Nat \ {0}] /\ Year \in [1..MaxTime -> Nat \ {0}]
  /\ TrialLength \in Nat \ {0}
  /\ MaxOpen \in Nat \ {0} /\ MaxTime \in Nat \ {0} /\ MaxSlips \in Nat

VARIABLES
  now,      \* the clock, from 1
  subs,     \* subscriptions of each user, by product (and platform)
  users,    \* plan, subscription_status and entitled_until of each user
  txns,     \* payment_transactions, by order_id
  gateway,  \* where each order is at Midtrans
  sent,     \* statuses of each order Midtrans has notifications of
  paidAt,   \* when each order was first paid, 0 before (not in the code: for the properties)
  acked,    \* notifications of payments answered with 200
  reqs,     \* the requests
  activated, \* orders whose subscription has been written (not in the code: for the properties)
  slips

vars == <<now, subs, users, txns, gateway, sent, paidAt, acked, reqs, activated, slips>>

NoEnd == 0  \* NULL, of current_period_end and entitled_until
Paying == {"trialing", "active"}
SubStatuses == {"none", "hold", "suspended", "past_due", "canceled", "expired", "other"} \cup Paying
\* "reviewed": transaction_status capture, fraud_status challenge.
GatewayStatuses == {"pending", "reviewed", "capture", "settlement", "expire", "cancel", "refund"}
Payments == {"settlement", "capture"}
OrderStatuses == {"none", "pending", "challenge", "capture", "settlement", "expire", "cancel", "refund"}

\* age: place in ORDER BY updated_at DESC, 0 for a row that is not there.
SubRow == [status : SubStatuses, end : Nat, age : Nat]
Account == [plan : {"free", "pro"}, status : SubStatuses, until : Nat]
Txn == [user : Users \cup {NoUser}, product : Products \cup {"none"},
        status : OrderStatuses]
Request ==
  [kind : Kinds \cup {"none"}, user : Users \cup {NoUser}, order : Orders \cup {NoOrder},
   product : Products \cup {"none"}, told : GatewayStatuses \cup {"none"}, end : Nat, seen : Account,
   then : {"none", "snap", "find", "load", "verify", "upsert", "reload", "end"},
   pc : {"idle", "select", "update", "snap", "insert", "find", "ask", "record", "load", "check",
         "verify", "date", "upsert"}]

NoRow == [status |-> "none", end |-> NoEnd, age |-> 0]
NoTxn == [user |-> NoUser, product |-> "none", status |-> "none"]
Free == [plan |-> "free", status |-> "none", until |-> NoEnd]
Idle == [kind |-> "none", user |-> NoUser, order |-> NoOrder, product |-> "none", told |-> "none",
         end |-> NoEnd, seen |-> Free, then |-> "none", pc |-> "idle"]

Init ==
  /\ now = 1
  /\ subs = [u \in Users |-> [k \in Keys |-> NoRow]]
  /\ users = [u \in Users |-> Free]
  /\ txns = [o \in Orders |-> NoTxn]
  /\ gateway = [o \in Orders |-> "none"]
  /\ sent = [o \in Orders |-> {}]
  /\ paidAt = [o \in Orders |-> 0]
  /\ acked = [o \in Orders |-> {}]
  /\ reqs = [r \in Requests |-> Idle]
  /\ activated = {}
  /\ slips = 0

-----------------------------------------------------------------------------
(* The plan that follows from the rows.                                    *)

NormalizeSubscriptionStatus(s) ==
  CASE s \in {"trial", "trialing"} -> "trialing"
    [] s \in {"active", "settlement", "paid"} -> "active"
    [] s \in {"hold", "on_hold", "payment_hold", "account_hold"} -> "hold"
    [] s \in {"suspend", "suspended"} -> "suspended"
    [] s \in {"past_due", "pastdue", "grace_period"} -> "past_due"
    [] s \in {"cancel", "cancelled", "canceled"} -> "canceled"
    [] s \in {"expire", "expired"} -> "expired"
    [] OTHER -> "other"

Rank(s) ==
  CASE s = "hold" -> 1
    [] s = "suspended" -> 2
    [] s = "past_due" -> 3
    [] s = "canceled" -> 4
    [] s = "expired" -> 5
    [] OTHER -> 9

Live(row, t) == row.age # 0 /\ row.status \in Paying /\ (row.end = NoEnd \/ row.end > t)

\* What a row that gives no access says of the account.
Shown(row) == IF row.status \in Paying THEN "expired" ELSE row.status

\* A row that was paid for once is asked only if no newer one has answered.
Counts(row) == row.age # 0 /\ (row.status \in Paying => row.age = 1)

\* Variant: the newest row decides.
EntitlementOfNewest(rows, t) ==
  LET newest == {k \in Keys : rows[k].age = 1}
      row == rows[CHOOSE k \in newest : TRUE]
  IN  IF newest = {} THEN Free
      ELSE IF Live(row, t)
      THEN [plan |-> "pro", status |-> row.status, until |-> row.end]
      ELSE [plan |-> "free", status |-> Shown(row), until |-> NoEnd]

Entitlement(rows, t) ==
  LET live == {k \in Keys : Live(rows[k], t)}
      newest == CHOOSE k \in live : \A j \in live : rows[k].age <= rows[j].age
      shown == {Shown(rows[k]) : k \in {j \in Keys : Counts(rows[j])}}
      worst == CHOOSE s \in shown : \A x \in shown : Rank(s) <= Rank(x)
  IN  IF live # {}
      THEN [plan |-> "pro", status |-> rows[newest].status, until |-> rows[newest].end]
      ELSE [plan |-> "free", status |-> IF shown = {} THEN "none" ELSE worst, until |-> NoEnd]

\* The row of k is inserted or updated, and is the newest then.
Touched(rows, k, s, e) ==
  [j \in Keys |->
     IF j = k THEN [status |-> s, end |-> e, age |-> 1]
     ELSE IF rows[j].age # 0 /\ (rows[k].age = 0 \/ rows[j].age < rows[k].age)
     THEN [rows[j] EXCEPT !.age = @ + 1]
     ELSE rows[j]]

-----------------------------------------------------------------------------
(* Requests begin, refresh the account, and end.                           *)

\* Variant: every refresh keeps the connection of its SELECT.
HoldingAll == {r \in Requests : reqs[r].pc = "update"}

\* The refreshes that keep the connection of their SELECT.
Holding == {r \in Requests : reqs[r].pc = "update" /\ reqs[r].seen.plan = "pro"}

\* Variant: one connection more than the pool has.
ConnectedBeyond == Cardinality(Holding) <= MaxOpen

\* A statement has a connection.
Connected == Cardinality(Holding) < MaxOpen

Goto(r, row) == reqs' = [reqs EXCEPT ![r] = row]

Settled(s) == s \in Payments

\* The handler answers; 200 acknowledges a notification.
Done(r) ==
  /\ Goto(r, Idle)
  /\ acked' = IF reqs[r].kind = "notice" /\ Settled(reqs[r].told)
              THEN [acked EXCEPT ![reqs[r].order] = @ \cup {reqs[r].told}] ELSE acked

\* The handler answers with an error.
Refused(r) == Goto(r, Idle) /\ UNCHANGED acked

First(kind) ==
  CASE kind = "checkout" -> "snap"
    [] kind = "sync" -> "find"
    [] kind = "trial" -> "load"
    [] kind = "android" -> "verify"
    [] kind = "platform" -> "upsert"
    [] OTHER -> "end"

\* requireUser.
Begin(r) ==
  /\ reqs[r].pc = "idle"
  /\ \E kind \in Kinds \cap UserKinds, u \in Users :
       Goto(r, [Idle EXCEPT !.kind = kind, !.user = u, !.then = First(kind), !.pc = "select"])
  /\ UNCHANGED <<now, subs, users, txns, gateway, sent, paidAt, acked, activated, slips>>

SelectRows(r) ==
  /\ reqs[r].pc = "select" /\ Connected
  /\ Goto(r, [reqs[r] EXCEPT !.seen = Entitlement(subs[reqs[r].user], now), !.pc = "update"])
  /\ UNCHANGED <<now, subs, users, txns, gateway, sent, paidAt, acked, activated, slips>>

UpdateUser(r) ==
  /\ reqs[r].pc = "update" /\ Connected
  /\ users' = [users EXCEPT ![reqs[r].user] = reqs[r].seen]
  /\ CASE reqs[r].then = "end" -> Done(r)
       [] reqs[r].then = "reload" ->
            Goto(r, [reqs[r] EXCEPT !.seen = Free, !.then = "end", !.pc = "select"]) /\ UNCHANGED acked
       [] OTHER ->
            Goto(r, [reqs[r] EXCEPT !.seen = Free, !.then = "none", !.pc = reqs[r].then])
              /\ UNCHANGED acked
  /\ UNCHANGED <<now, subs, txns, gateway, sent, paidAt, activated, slips>>

\* A statement or a call of another service fails, or the client hangs up; or, with several, a crash.
Interrupted(R) ==
  /\ R # {} /\ slips < MaxSlips
  /\ \A r \in R : reqs[r].pc # "idle"
  /\ reqs' = [r \in Requests |-> IF r \in R THEN Idle ELSE reqs[r]]
  /\ slips' = slips + 1
  /\ UNCHANGED <<now, subs, users, txns, gateway, sent, paidAt, acked, activated>>

-----------------------------------------------------------------------------
(* createCheckout                                                          *)

CreateSnap(r) ==
  /\ reqs[r].pc = "snap"
  /\ \E o \in Orders, p \in Products :
       /\ gateway[o] = "none"
       /\ gateway' = [gateway EXCEPT ![o] = "open"]
       /\ Goto(r, [reqs[r] EXCEPT !.order = o, !.product = p, !.pc = "insert"])
  /\ UNCHANGED <<now, subs, users, txns, sent, paidAt, acked, activated, slips>>

\* No order id is left: a bound of the model.
NoOrderLeft(r) ==
  /\ reqs[r].pc = "snap"
  /\ \A o \in Orders : gateway[o] # "none"
  /\ Refused(r)
  /\ UNCHANGED <<now, subs, users, txns, gateway, sent, paidAt, activated, slips>>

\* order_id is UNIQUE.
InsertOrder(r) ==
  /\ reqs[r].pc = "insert" /\ txns[reqs[r].order] = NoTxn /\ Connected
  /\ txns' = [txns EXCEPT ![reqs[r].order] =
                [user |-> reqs[r].user, product |-> reqs[r].product, status |-> "pending"]]
  /\ Done(r)
  /\ UNCHANGED <<now, subs, users, gateway, sent, paidAt, activated, slips>>

-----------------------------------------------------------------------------
(* syncCheckout and midtransWebhook                                        *)

\* midtransWebhook, the signature being right.
Notice(r, o, s) ==
  /\ "notice" \in Kinds
  /\ reqs[r].pc = "idle"
  /\ s \in sent[o] /\ (Late \/ s = gateway[o])
  /\ Goto(r, [Idle EXCEPT !.kind = "notice", !.order = o, !.told = s, !.pc = "find"])
  /\ UNCHANGED <<now, subs, users, txns, gateway, sent, paidAt, acked, activated, slips>>

MayAccess(r, o) ==
  txns[o] # NoTxn /\ (reqs[r].kind = "sync" => txns[o].user = reqs[r].user)

Find(r) ==
  /\ reqs[r].pc = "find" /\ Connected
  /\ \E o \in Orders :
       /\ reqs[r].kind = "notice" => o = reqs[r].order
       /\ IF MayAccess(r, o)
          THEN Goto(r, [reqs[r] EXCEPT
                 !.order = o, !.user = txns[o].user, !.product = txns[o].product,
                 !.pc = IF reqs[r].kind = "sync" THEN "ask" ELSE "record"])
          ELSE Goto(r, Idle)
  /\ UNCHANGED <<now, subs, users, txns, gateway, sent, paidAt, acked, activated, slips>>

\* Variant: the answer of Midtrans is not parsed, and pending is the default.
AskInVain(r) ==
  /\ reqs[r].pc = "ask"
  /\ Goto(r, [reqs[r] EXCEPT !.told = "pending", !.pc = "record"])
  /\ UNCHANGED <<now, subs, users, txns, gateway, sent, paidAt, acked, activated, slips>>

\* GetTransactionStatus: unknown before the user has tried to pay.
Ask(r) ==
  /\ reqs[r].pc = "ask"
  /\ IF gateway[reqs[r].order] \in GatewayStatuses
     THEN Goto(r, [reqs[r] EXCEPT !.told = gateway[reqs[r].order], !.pc = "record"])
     ELSE Goto(r, Idle)
  /\ UNCHANGED <<now, subs, users, txns, gateway, sent, paidAt, acked, activated, slips>>

\* Variant: fraud_status is not looked at.
NormalizedAsIs(s) == IF s = "reviewed" THEN "capture" ELSE s

NormalizeMidtransStatus(s) == IF s = "reviewed" THEN "challenge" ELSE s

\* Variant: an order that is settled already is not activated again.
RecordOnce(r) ==
  LET status == NormalizeMidtransStatus(reqs[r].told)
  IN  /\ reqs[r].pc = "record" /\ Connected
      /\ txns' = [txns EXCEPT ![reqs[r].order].status = status]
      /\ IF /\ Settled(status) /\ reqs[r].product \in SubProducts
            /\ ~Settled(txns[reqs[r].order].status)
         THEN Goto(r, [reqs[r] EXCEPT !.pc = "date"]) /\ UNCHANGED acked
         ELSE Done(r)
      /\ UNCHANGED <<now, subs, users, gateway, sent, paidAt, activated, slips>>

Record(r) ==
  LET status == NormalizeMidtransStatus(reqs[r].told)
  IN  /\ reqs[r].pc = "record" /\ Connected
      /\ txns' = [txns EXCEPT ![reqs[r].order].status = status]
      /\ IF Settled(status) /\ reqs[r].product \in SubProducts
         THEN Goto(r, [reqs[r] EXCEPT !.pc = "date"]) /\ UNCHANGED acked
         ELSE IF reqs[r].kind = "sync"
         THEN Goto(r, [reqs[r] EXCEPT !.pc = "select", !.then = "end"]) /\ UNCHANGED acked
         ELSE Done(r)
      /\ UNCHANGED <<now, subs, users, gateway, sent, paidAt, activated, slips>>

\* subscriptionPeriodEnd, at time t.
PeriodEnd(p, t) == t + (IF p = "yearly" THEN Year[t] ELSE Month[t])

\* Variant: a period that is paid for begins where the last one ends.
DateAfterwards(r) ==
  LET left == subs[reqs[r].user][OfMidtrans(reqs[r].product)].end - now
  IN  /\ reqs[r].pc = "date"
      /\ Goto(r, [reqs[r] EXCEPT !.pc = "upsert",
           !.end = IF reqs[r].kind = "trial" THEN now + TrialLength
                   ELSE PeriodEnd(reqs[r].product, now) + (IF left > 0 THEN left ELSE 0)])
      /\ UNCHANGED <<now, subs, users, txns, gateway, sent, paidAt, acked, activated, slips>>

\* The end is reckoned before the statement that writes it.
Date(r) ==
  /\ reqs[r].pc = "date"
  /\ Goto(r, [reqs[r] EXCEPT !.pc = "upsert",
       !.end = IF reqs[r].kind = "trial" THEN now + TrialLength ELSE PeriodEnd(reqs[r].product, now)])
  /\ UNCHANGED <<now, subs, users, txns, gateway, sent, paidAt, acked, activated, slips>>

-----------------------------------------------------------------------------
(* startTrial, verifyAndroidPurchase, platformSubscription and             *)
(* subscriptionWebhook                                                     *)

Load(r) ==
  /\ reqs[r].pc = "load"
  /\ IF users[reqs[r].user].status \in Paying
     THEN Goto(r, Idle) ELSE Goto(r, [reqs[r] EXCEPT !.pc = "check"])
  /\ UNCHANGED <<now, subs, users, txns, gateway, sent, paidAt, acked, activated, slips>>

\* Variant: any account that is not Pro may have a trial.
CheckNothing(r) ==
  /\ reqs[r].pc = "check" /\ Connected
  /\ Goto(r, [reqs[r] EXCEPT !.pc = "date"])
  /\ UNCHANGED <<now, subs, users, txns, gateway, sent, paidAt, acked, activated, slips>>

Check(r) ==
  /\ reqs[r].pc = "check" /\ Connected
  /\ IF subs[reqs[r].user][Trial].age # 0
     THEN Goto(r, Idle) ELSE Goto(r, [reqs[r] EXCEPT !.pc = "date"])
  /\ UNCHANGED <<now, subs, users, txns, gateway, sent, paidAt, acked, activated, slips>>

\* An INSERT that fails is not minded, as that of a token that is known.
Verify(r) ==
  /\ reqs[r].pc = "verify" /\ Connected
  /\ \E o \in Orders, p \in PlayProducts :
       /\ gateway[o] \in {"none", "token"}
       /\ gateway' = [gateway EXCEPT ![o] = "token"]
       /\ \/ UNCHANGED txns
          \/ /\ txns[o] = NoTxn
             /\ txns' = [txns EXCEPT ![o] =
                           [user |-> reqs[r].user, product |-> p, status |-> "settlement"]]
       /\ Goto(r, [reqs[r] EXCEPT !.order = o, !.product = p, !.end = PeriodEnd(p, now), !.pc = "upsert"])
  /\ UNCHANGED <<now, subs, users, sent, paidAt, acked, activated, slips>>

\* No token verifies.
VerifyFails(r) ==
  /\ reqs[r].pc = "verify"
  /\ Refused(r)
  /\ UNCHANGED <<now, subs, users, txns, gateway, sent, paidAt, activated, slips>>

\* The server of a store, the signature being right.
Webhook(r) ==
  /\ "webhook" \in Kinds
  /\ reqs[r].pc = "idle"
  /\ \E u \in Users : Goto(r, [Idle EXCEPT !.kind = "webhook", !.user = u, !.pc = "upsert"])
  /\ UNCHANGED <<now, subs, users, txns, gateway, sent, paidAt, acked, activated, slips>>

\* The row a request asks for: its key, status and end.
Wanted(r) ==
  CASE reqs[r].kind \in {"sync", "notice"} -> {<<OfMidtrans(reqs[r].product), "active", reqs[r].end>>}
    [] reqs[r].kind = "android" -> {<<OfPlay(reqs[r].product), "active", reqs[r].end>>}
    [] reqs[r].kind = "trial" -> {<<Trial, "trialing", reqs[r].end>>}
    [] OTHER -> {OfStore} \X StoreStatuses \X {NoEnd, now, now + Month[now]}

\* UpsertSubscription, up to its refresh.
Upsert(r) ==
  /\ reqs[r].pc = "upsert" /\ Connected
  /\ \E w \in Wanted(r) :
       subs' = [subs EXCEPT ![reqs[r].user] =
                  Touched(@, w[1], NormalizeSubscriptionStatus(w[2]), w[3])]
  /\ Goto(r, [reqs[r] EXCEPT !.end = NoEnd, !.pc = "select",
                !.then = IF reqs[r].kind \in {"sync", "trial"} THEN "reload" ELSE "end"])
  /\ activated' = activated \cup (IF reqs[r].kind \in {"sync", "notice"} THEN {reqs[r].order} ELSE {})
  /\ UNCHANGED <<now, users, txns, gateway, sent, paidAt, acked, slips>>

-----------------------------------------------------------------------------
(* Midtrans, and time.                                                     *)

\* A payment starts with the token createCheckout has answered with.
Becomes(o) ==
  CASE gateway[o] = "open" /\ txns[o] # NoTxn -> {"pending", "reviewed", "capture"}
    [] gateway[o] = "pending" -> {"settlement", "expire"}
    [] gateway[o] = "reviewed" -> {"capture", "cancel"}
    [] gateway[o] = "capture" -> {"settlement", "cancel"}
    [] gateway[o] = "settlement" -> {"refund"}
    [] OTHER -> {}

Midtrans(o) ==
  \E s \in Becomes(o) :
    /\ gateway' = [gateway EXCEPT ![o] = s]
    /\ sent' = [sent EXCEPT ![o] = @ \cup {s}]
    /\ paidAt' = [paidAt EXCEPT ![o] = IF s \in Payments /\ @ = 0 THEN now ELSE @]
    /\ UNCHANGED <<now, subs, users, txns, acked, reqs, activated, slips>>

Tick ==
  /\ now < MaxTime /\ now' = now + 1
  /\ UNCHANGED <<subs, users, txns, gateway, sent, paidAt, acked, reqs, activated, slips>>

-----------------------------------------------------------------------------

Step(r) ==
  \/ SelectRows(r) \/ UpdateUser(r) \/ CreateSnap(r) \/ NoOrderLeft(r) \/ InsertOrder(r)
  \/ Find(r) \/ Ask(r) \/ Record(r) \/ Load(r) \/ Check(r) \/ Verify(r) \/ VerifyFails(r)
  \/ Date(r) \/ Upsert(r)

Next ==
  \/ \E r \in Requests : Begin(r) \/ Webhook(r) \/ Step(r)
  \/ \E r \in Requests, o \in Orders, s \in GatewayStatuses : Notice(r, o, s)
  \/ \E R \in SUBSET Requests : Interrupted(R)
  \/ \E o \in Orders : Midtrans(o)
  \/ Tick

Spec == Init /\ [][Next]_vars

\* Midtrans sends a notification until it is acknowledged.
Retry(o, s) == s \notin acked[o] /\ \E r \in Requests : Notice(r, o, s)

\* A request goes on; any number of requests can be handled.
Fairness ==
  /\ \A r \in Requests : WF_vars(Step(r))
  /\ \A o \in Orders, s \in Payments : SF_vars(Retry(o, s))

FairSpec == Spec /\ Fairness

-----------------------------------------------------------------------------
(* What billing promises.                                                  *)

TypeOK ==
  /\ now \in 1..MaxTime
  /\ subs \in [Users -> [Keys -> SubRow]]
  /\ users \in [Users -> Account]
  /\ txns \in [Orders -> Txn]
  /\ gateway \in [Orders -> GatewayStatuses \cup {"none", "open", "token"}]
  /\ sent \in [Orders -> SUBSET GatewayStatuses]
  /\ paidAt \in [Orders -> 0..now]
  /\ acked \in [Orders -> SUBSET Payments]
  /\ reqs \in [Requests -> Request]
  /\ activated \in SUBSET Orders
  /\ slips \in 0..MaxSlips

\* The customer has paid, whatever came of the order later.
WasPaid(o) == gateway[o] = "token" \/ sent[o] \cap Payments # {}

\* An order of u for p was paid.
Bought(u, p) == \E o \in Orders : txns[o].user = u /\ txns[o].product = p /\ WasPaid(o)

\* Whatever requests overlap, repeat or stop half way: an order counts as settled, and so as credit, only
\* if it was paid; a subscription of Midtrans is there only if its user has paid for that product; and a
\* user is Pro only with some subscription row (syncCheckout, midtransWebhook, refreshUserEntitlement).
NothingUnpaid ==
  /\ \A o \in Orders : Settled(txns[o].status) => WasPaid(o)
  /\ \A u \in Users, p \in SubProducts : subs[u][OfMidtrans(p)].age # 0 => Bought(u, p)
  /\ \A u \in Users : users[u].plan = "pro" => \E k \in Keys : subs[u][k].age # 0

\* Between requests, when they are handled one at a time, the account says what its subscriptions said at its
\* last refresh: Pro if one of them gave access, with the end of one that did, and no status but theirs.
AccountsAgree ==
  (\A r \in Requests : reqs[r] = Idle) =>
    \A u \in Users :
      \E t \in 1..now :
        LET live == {k \in Keys : Live(subs[u][k], t)}
        IN  /\ users[u].plan = "pro" <=> live # {}
            /\ live # {} => \E k \in live : /\ users[u].until = subs[u][k].end
                                            /\ users[u].status = subs[u][k].status
            /\ live = {} => \A k \in Keys : Counts(subs[u][k]) =>
                               Rank(users[u].status) <= Rank(Shown(subs[u][k]))

\* With requests one at a time and no late notification, an order that was settled stays so, or is
\* refunded or cancelled (UpdatePaymentTransactionStatus).
SettledOrdersStay ==
  [][\A o \in Orders :
       Settled(txns[o].status) => txns'[o].status \in {"settlement", "capture", "refund", "cancel"}]_vars

\* A trial is used once: when it has begun, its row stays as it is (StartTrialSubscription).
TrialUsedOnce ==
  [][\A u \in Users :
       subs[u][Trial].age # 0 =>
         /\ subs'[u][Trial].status = subs[u][Trial].status
         /\ subs'[u][Trial].end = subs[u][Trial].end]_vars

\* Every connection is kept by a refresh of a Pro account that waits for another one.
PoolIsStuck ==
  Cardinality({r \in Requests : reqs[r].pc = "update" /\ reqs[r].seen.plan = "pro"}) = MaxOpen

\* What the next step of a request waits for.
Ready(r) ==
  /\ reqs[r].pc # "idle"
  /\ reqs[r].pc \in {"snap", "ask", "load", "verify", "date"} \/ Connected
  /\ reqs[r].pc = "snap" => Products # {} \/ \A o \in Orders : gateway[o] # "none"
  /\ reqs[r].pc = "insert" => txns[reqs[r].order] = NoTxn
  /\ reqs[r].pc = "find" => \E o \in Orders : reqs[r].kind = "notice" => o = reqs[r].order
  /\ reqs[r].pc = "upsert" => Wanted(r) # {}

\* Requests that overlap do not block one another for good, except in one way: the refreshes of Pro accounts
\* have used up the pool, each waiting for a second connection (refreshUserEntitlement).
NoOneIsBlocked ==
  \A r \in Requests : reqs[r].pc # "idle" => Ready(r) \/ PoolIsStuck

\* A pool that is used up so stays it, whatever is asked of the server and whatever Midtrans sends, until a
\* client hangs up or the server is restarted: nothing ends a refresh that waits (refreshUserEntitlement).
StuckUntilHangUp ==
  [][PoolIsStuck => PoolIsStuck' \/ slips' # slips]_vars

\* A notification of a payment is answered with 200 only when the subscription it pays for has been written,
\* though it came twice or was interrupted before: Midtrans sends it no more after that (midtransWebhook).
AckedIsActivated ==
  \A o \in Orders :
    acked[o] # {} /\ txns[o].product \in SubProducts =>
      o \in activated /\ subs[txns[o].user][OfMidtrans(txns[o].product)].age # 0

\* However often Midtrans reports that an order is paid, in which order and how late, and whatever requests
\* overlap: a subscription runs for one period, which began when some order of its user for that product had
\* been paid.  It may be a later end or an earlier one than before: a repeat begins the period anew, and may
\* be written after one that was reckoned later (syncCheckout, midtransWebhook, subscriptionPeriodEnd).
PeriodsDontStack ==
  \A u \in Users, p \in SubProducts :
    subs[u][OfMidtrans(p)].age # 0 =>
      \E o \in Orders :
        /\ txns[o].user = u /\ txns[o].product = p /\ paidAt[o] # 0
        /\ \E t \in paidAt[o]..now : subs[u][OfMidtrans(p)].end = PeriodEnd(p, t)

\* An order for a subscription that is paid leads to that subscription, though a notification be
\* interrupted half way, unless the pool is stuck (midtransWebhook).
PaidOrdersActivate ==
  \A o \in Orders :
    WasPaid(o) /\ gateway[o] # "token" /\ txns[o].product \in SubProducts ~>
      o \in activated \/ PoolIsStuck

-----------------------------------------------------------------------------
(* The inductive invariant of the proofs.                                  *)

\* The row of an order names who ordered what, and its id was given out.
OrdersAreWhole ==
  \A o \in Orders : txns[o] # NoTxn =>
    txns[o].user \in Users /\ txns[o].product \in Products /\ gateway[o] # "none"

\* An order id belongs to one checkout until its row is there.
InsertsAreFresh ==
  \A r \in Requests : reqs[r].pc = "insert" =>
    /\ reqs[r].order \in Orders /\ reqs[r].product \in Products
    /\ gateway[reqs[r].order] = "open" /\ txns[reqs[r].order] = NoTxn
    /\ \A q \in Requests : reqs[q].pc = "insert" /\ reqs[q].order = reqs[r].order => q = r

\* What Midtrans says of an order now, it has said.
StatusesAreSent == \A o \in Orders : gateway[o] \in GatewayStatuses => gateway[o] \in sent[o]

\* Where the request of a kind can be, besides the refreshes of the account.
Stages(kind) ==
  CASE kind = "sync" -> {"find", "ask", "record", "date", "upsert"}
    [] kind = "notice" -> {"find", "record", "date", "upsert"}
    [] kind = "checkout" -> {"snap", "insert"}
    [] kind = "trial" -> {"load", "check", "date", "upsert"}
    [] kind = "android" -> {"verify", "upsert"}
    [] kind \in {"platform", "webhook"} -> {"upsert"}
    [] OTHER -> {}

\* Request q is where its kind can be, and knows its user (a notification, from its order).
Fits(q) ==
  /\ q.pc \in {"idle", "select", "update"} \cup Stages(q.kind)
  /\ q.then \in {"none", "reload", "end", First(q.kind)}
  /\ q.pc \in {"select", "update"} <=> q.then # "none"
  /\ q.pc # "idle" /\ (q.pc = "find" => q.kind = "sync") => q.user \in Users

\* What q was told of its order, Midtrans has said.
Told(q) ==
  /\ q.told # "none" =>
       /\ q.kind \in {"sync", "notice"}
       /\ q.kind = "sync" => q.pc # "find" /\ q.then # "find"
       /\ q.order \in Orders /\ q.told \in sent[q.order]
  /\ q.kind = "notice" \/ q.pc = "record" => q.told # "none"

\* When q has found its order, it knows whose it is and of what, and activates only what was paid.
Matches(q) ==
  q.pc \in {"ask", "record"} \/ (q.pc \in {"date", "upsert"} /\ q.kind \in {"sync", "notice"}) =>
    /\ q.order \in Orders
    /\ txns[q.order].user = q.user /\ txns[q.order].product = q.product
    /\ q.pc \in {"date", "upsert"} => WasPaid(q.order)

\* Pro in the hands of a refresh comes from a row, and rows stay.
Backed(q) ==
  q.seen.plan = "pro" => q.pc = "update" /\ \E k \in Keys : subs[q.user][k].age # 0

RequestsAreSound ==
  \A r \in Requests : Fits(reqs[r]) /\ Told(reqs[r]) /\ Matches(reqs[r]) /\ Backed(reqs[r])

IInv ==
  /\ TypeOK
  /\ OrdersAreWhole
  /\ InsertsAreFresh
  /\ StatusesAreSent
  /\ RequestsAreSound
  /\ NothingUnpaid

=============================================================================
