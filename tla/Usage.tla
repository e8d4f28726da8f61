------------------------------- MODULE Usage -------------------------------
(***************************************************************************)
(* What one user may use, and what is counted: chats (of the site and of   *)
(* WhatsApp), web research, and the OpenAI gateway by API key.  Every call *)
(* reads what it may use, works for minutes at the AI, and counts itself   *)
(* afterwards: nothing is reserved in between.                             *)
(*                                                                         *)
(* checkUserQuota is three statements: the credits that were bought, what  *)
(* the events of this week (user_usage_events) have used of them, and the  *)
(* row of this day (user_daily_usage).  IncrementDailyUsage takes the date *)
(* first and then adds to both tables in one transaction, whose NOW() is   *)
(* the time of the event.                                                  *)
(*                                                                         *)
(* The site looks a user up with GetUserByID: it selects the subscriptions *)
(* (Billing), updates the plan in users and reads the user, and a plan     *)
(* that was updated in between is the one it reads.  Any other request of  *)
(* the user does the same, and so does UpsertSubscription.  A key finds    *)
(* the plan as it is.                                                      *)
(* Credit is counted in tokens that cost something; /status asks no AI and *)
(* counts nothing; the spam guard and last_used_at are left out.           *)
(***************************************************************************)
EXTENDS Integers, FiniteSets

CONSTANTS
  Calls,
  ApiKeys,
  FreePrompts, ProPrompts,  \* daily limits, 0 for none
  FreeImages, ProImages,
  ProResearch,
  FreeCredit, ProCredit,    \* what the plan includes for a week
  MaxTokens,     \* bound on the tokens of a call
  MaxBought,     \* bound on credits bought and not refunded
  WeekDays,
  LastDay,       \* bound on the days
  MaxEra,        \* bound on changes of the entitlement
  MaxUsageSlips  \* bound on failing statements and hang-ups

Plans == {"free", "pro"}
SiteKinds == {"chat", "research", "account"}  \* account: asks no AI
CallKinds == SiteKinds \cup {"gateway"}
Days == 1..LastDay

ASSUME UsageAssumption ==
  /\ IsFiniteSet(Calls)
  /\ FreePrompts \in Nat /\ ProPrompts \in Nat
  /\ FreeImages \in Nat /\ ProImages \in Nat /\ ProResearch \in Nat
  /\ FreeCredit \in Nat /\ ProCredit \in Nat
  /\ MaxEra \in Nat /\ MaxTokens \in Nat /\ MaxBought \in Nat /\ MaxUsageSlips \in Nat
  /\ WeekDays \in Nat \ {0} /\ LastDay \in Nat \ {0}

VARIABLES
  day,
  era,          \* how often the entitlement has changed
  entitled,     \* a subscription gives access now
  userPlan,     \* users.plan
  keys,         \* user_api_keys
  daily,        \* user_daily_usage, by date
  spent,        \* tokens of the user_usage_events of each week
  calls,
  usageSlips

usageVars == <<day, era, entitled, userPlan, keys, daily, spent, calls, usageSlips>>

DayUsage == [prompts : Nat, images : Nat, research : Nat]

\* seen: the credit as it was read; asked, paid: the day and the week its limits were read
\* for; before: the calls that were over when it began; date, week: what it was counted
\* for; lapsed: it began when no subscription gave access.
Call ==
  [pc : {"new", "refresh", "reload", "purchases", "week", "daily", "ask", "count", "done"},
   kind : CallKinds, plan : Plans, research : 0..1, tokens : 0..MaxTokens,
   seen : Nat, asked : 0..LastDay, paid : 0..LastDay,
   before : SUBSET Calls, date : 0..LastDay, week : 0..LastDay, era : 0..MaxEra,
   lapsed : BOOLEAN, out : {"none", "refused", "failed", "uncounted", "answered", "counted"}]

NewCall ==
  [pc |-> "new", kind |-> "chat", plan |-> "free", research |-> 0, tokens |-> 0,
   seen |-> 0, asked |-> 0, paid |-> 0, before |-> {}, date |-> 0, week |-> 0, era |-> 0,
   lapsed |-> FALSE, out |-> "none"]

Entitled == IF entitled THEN "pro" ELSE "free"

UsageInit ==
  /\ day = 1 /\ era = 0
  /\ entitled \in BOOLEAN
  /\ userPlan = Entitled
  /\ keys = [k \in ApiKeys |-> "none"]
  /\ daily = [d \in Days |-> [prompts |-> 0, images |-> 0, research |-> 0]]
  /\ spent = [w \in Days |-> 0]
  /\ calls = [c \in Calls |-> NewCall]
  /\ usageSlips = 0

WeekOf(d) == 1 + (d - 1) \div WeekDays
UsageSlip == usageSlips < MaxUsageSlips /\ usageSlips' = usageSlips + 1
CallsOver == {q \in Calls : calls[q].pc = "done"}

\* A call that was not counted leaves nothing but that it was there.
CallEnds(c, out) ==
  calls' = [calls EXCEPT ![c] = [NewCall EXCEPT
    !.pc = "done", !.kind = calls[c].kind, !.before = calls[c].before,
    !.era = calls[c].era, !.out = out]]

Images(q) == IF q.kind = "chat" THEN 1 ELSE 0
PromptLimit(plan) == IF plan = "pro" THEN ProPrompts ELSE FreePrompts
ImageLimit(plan) == IF plan = "pro" THEN ProImages ELSE FreeImages
IncludedCredit(plan) == IF plan = "pro" THEN ProCredit ELSE FreeCredit

-----------------------------------------------------------------------------
(* Who calls.                                                              *)

Begun(kind, plan, pc) ==
  [NewCall EXCEPT !.pc = pc, !.kind = kind, !.plan = plan, !.before = CallsOver,
                  !.era = era, !.lapsed = ~entitled]

\* Variant: the plan is taken as it was stored.
CallUnrefreshed(c, kind) ==
  /\ calls[c].pc = "new"
  /\ calls' = [calls EXCEPT ![c] = Begun(kind, userPlan, "reload")]
  /\ UNCHANGED <<day, era, entitled, userPlan, keys, daily, spent, usageSlips>>

\* requireUser, for a chat, which carries an image, for research, or for anything else,
\* up to the SELECT of refreshUserEntitlement.
CallBySession(c, kind) ==
  /\ calls[c].pc = "new"
  /\ calls' = [calls EXCEPT ![c] = Begun(kind, Entitled, "refresh")]
  /\ UNCHANGED <<day, era, entitled, userPlan, keys, daily, spent, usageSlips>>

\* The UPDATE of refreshUserEntitlement.
UpdatePlan(c) ==
  /\ calls[c].pc = "refresh"
  /\ userPlan' = calls[c].plan
  /\ calls' = [calls EXCEPT ![c].pc = "reload"]
  /\ UNCHANGED <<day, era, entitled, keys, daily, spent, usageSlips>>

\* The SELECT of GetUserByID.
LoadUser(c) ==
  /\ calls[c].pc = "reload"
  /\ IF calls[c].kind = "account"
     THEN CallEnds(c, "answered")
     ELSE calls' = [calls EXCEPT ![c].pc = "purchases", ![c].plan = userPlan]
  /\ UNCHANGED <<day, era, entitled, userPlan, keys, daily, spent, usageSlips>>

\* AuthenticateUserAPIKey: one SELECT of the key and its user.
CallByKey(c, k) ==
  /\ calls[c].pc = "new" /\ keys[k] = "active"
  /\ calls' = [calls EXCEPT ![c] = Begun("gateway", userPlan, "purchases")]
  /\ UNCHANGED <<day, era, entitled, userPlan, keys, daily, spent, usageSlips>>

CreateKey(k) ==
  /\ keys[k] = "none"
  /\ keys' = [keys EXCEPT ![k] = "active"]
  /\ UNCHANGED <<day, era, entitled, userPlan, daily, spent, calls, usageSlips>>

RevokeKey(k) ==
  /\ keys[k] = "active"
  /\ keys' = [keys EXCEPT ![k] = "revoked"]
  /\ UNCHANGED <<day, era, entitled, userPlan, daily, spent, calls, usageSlips>>

-----------------------------------------------------------------------------
(* checkUserQuota; a call by key looks at the credit alone.                *)

CreditGiven(c) == IF calls[c].kind = "gateway" THEN "ask" ELSE "daily"

\* GetSettledCreditPurchaseUSD: orders are settled and refunded at any time (Billing).  Who
\* has no credit at all has no limit.
ReadPurchases(c) ==
  /\ calls[c].pc = "purchases"
  /\ \E bought \in 0..MaxBought :
       LET total == IncludedCredit(calls[c].plan) + bought IN
       calls' = [calls EXCEPT ![c].pc = IF total = 0 THEN CreditGiven(c) ELSE "week",
                              ![c].seen = total]
  /\ UNCHANGED <<day, era, entitled, userPlan, keys, daily, spent, usageSlips>>

\* Variant: the credit may be used up.
ReadWeekLate(c) ==
  /\ calls[c].pc = "week"
  /\ IF spent[WeekOf(day)] <= calls[c].seen
     THEN calls' = [calls EXCEPT ![c].pc = CreditGiven(c), ![c].paid = WeekOf(day)]
     ELSE CallEnds(c, "refused")
  /\ UNCHANGED <<day, era, entitled, userPlan, keys, daily, spent, usageSlips>>

\* GetUsageWindow of this week.
ReadWeek(c) ==
  /\ calls[c].pc = "week"
  /\ IF spent[WeekOf(day)] < calls[c].seen
     THEN calls' = [calls EXCEPT ![c].pc = CreditGiven(c), ![c].paid = WeekOf(day)]
     ELSE CallEnds(c, "refused")
  /\ UNCHANGED <<day, era, entitled, userPlan, keys, daily, spent, usageSlips>>

\* Variant: the limit itself is still within.
WithinAndOne(c, used) ==
  LET q == calls[c] IN
    /\ PromptLimit(q.plan) > 0 => used.prompts <= PromptLimit(q.plan)
    /\ ImageLimit(q.plan) > 0 => used.images + Images(q) <= ImageLimit(q.plan)
    /\ q.plan = "free" => q.kind # "research"
    /\ q.plan = "pro" /\ ProResearch > 0 => used.research < ProResearch

\* The limits of the day; who is on pro is refused any chat when the research is used up.
Within(c, used) ==
  LET q == calls[c] IN
    /\ PromptLimit(q.plan) > 0 => used.prompts < PromptLimit(q.plan)
    /\ ImageLimit(q.plan) > 0 => used.images + Images(q) <= ImageLimit(q.plan)
    /\ q.plan = "free" => q.kind # "research"
    /\ q.plan = "pro" /\ ProResearch > 0 => used.research < ProResearch

ReadDay(c) ==
  /\ calls[c].pc = "daily"
  /\ IF Within(c, daily[day])
     THEN calls' = [calls EXCEPT ![c].pc = "ask", ![c].asked = day]
     ELSE CallEnds(c, "refused")
  /\ UNCHANGED <<day, era, entitled, userPlan, keys, daily, spent, usageSlips>>

-----------------------------------------------------------------------------
(* The AI, the web or the upstream answers, and the call is counted.               *)

\* On pro a chat may look things up whether it was asked to or not.
Researched(c) ==
  CASE calls[c].kind = "research" -> {1}
    [] calls[c].kind = "chat" /\ calls[c].plan = "pro" -> {0, 1}
    [] OTHER -> {0}

\* Tokens that no provider reports are estimated for a chat; IncrementDailyUsage begins
\* with dailyUsageDate.
Answered(c) ==
  /\ calls[c].pc = "ask"
  /\ \E n \in Researched(c), t \in IF calls[c].kind = "research" THEN {0} ELSE 1..MaxTokens :
       calls' = [calls EXCEPT ![c].pc = "count", ![c].research = n, ![c].tokens = t,
                              ![c].date = day]
  /\ UNCHANGED <<day, era, entitled, userPlan, keys, daily, spent, usageSlips>>

\* An answer of the upstream that says nothing of tokens is refused, or has been
\* streamed already.
AnsweredUnmeasured(c) ==
  /\ calls[c].pc = "ask" /\ calls[c].kind = "gateway"
  /\ \E out \in {"refused", "uncounted"} : CallEnds(c, out)
  /\ UNCHANGED <<day, era, entitled, userPlan, keys, daily, spent, usageSlips>>

\* IncrementDailyUsage: a prompt, whatever the call was.
Count(c) ==
  /\ calls[c].pc = "count"
  /\ daily' = [daily EXCEPT ![calls[c].date] =
       [prompts |-> @.prompts + 1, images |-> @.images + Images(calls[c]),
        research |-> @.research + calls[c].research]]
  /\ spent' = [spent EXCEPT ![WeekOf(day)] = @ + calls[c].tokens]
  /\ calls' = [calls EXCEPT ![c].pc = "done", ![c].out = "counted", ![c].week = WeekOf(day)]
  /\ UNCHANGED <<day, era, entitled, userPlan, keys, usageSlips>>

\* The answer is given all the same.
CountFails(c) ==
  /\ calls[c].pc = "count"
  /\ UsageSlip
  /\ CallEnds(c, "uncounted")
  /\ UNCHANGED <<day, era, entitled, userPlan, keys, daily, spent>>

\* A statement or the AI fails, or the client hangs up.
CallFails(c) ==
  /\ calls[c].pc \notin {"new", "count", "done"}
  /\ UsageSlip
  /\ CallEnds(c, "failed")
  /\ UNCHANGED <<day, era, entitled, userPlan, keys, daily, spent>>

-----------------------------------------------------------------------------
(* Meanwhile.                                                              *)

NextDay ==
  /\ day < LastDay
  /\ day' = day + 1
  /\ UNCHANGED <<era, entitled, userPlan, keys, daily, spent, calls, usageSlips>>

\* UpsertSubscription, up to its refresh, which is one like any other.
Subscribe ==
  /\ ~entitled /\ era < MaxEra
  /\ entitled' = TRUE /\ era' = era + 1
  /\ UNCHANGED <<day, userPlan, keys, daily, spent, calls, usageSlips>>

\* Time passes the end of the subscription, or its store reports that it is over.
Lapse ==
  /\ entitled /\ era < MaxEra
  /\ entitled' = FALSE /\ era' = era + 1
  /\ UNCHANGED <<day, userPlan, keys, daily, spent, calls, usageSlips>>

CallBegins(c) ==
  \/ \E kind \in SiteKinds : CallBySession(c, kind)
  \/ \E k \in ApiKeys : CallByKey(c, k)
CallSteps(c) ==
  \/ UpdatePlan(c) \/ LoadUser(c)
  \/ ReadPurchases(c) \/ ReadWeek(c) \/ ReadDay(c) \/ Answered(c)
  \/ AnsweredUnmeasured(c) \/ Count(c) \/ CountFails(c) \/ CallFails(c)
UsageNext ==
  \/ \E c \in Calls : CallBegins(c) \/ CallSteps(c)
  \/ \E k \in ApiKeys : CreateKey(k) \/ RevokeKey(k)
  \/ NextDay \/ Subscribe \/ Lapse

UsageSpec == UsageInit /\ [][UsageNext]_usageVars

-----------------------------------------------------------------------------
(* How far beyond a limit somebody can get, and who gets there.                    *)

Counted(d) == {c \in Calls : calls[c].out = "counted" /\ calls[c].date = d}
CountedIn(w) == {c \in Calls : calls[c].out = "counted" /\ calls[c].week = w}

\* The sum of their tokens: a pair for each token of a call.
TokensOf(S) == Cardinality({p \in S \X (1..MaxTokens) : p[2] <= calls[p[1]].tokens})

\* A day has more prompts than the limit a call was held to only by calls that were
\* not over when that call began: one after the other nobody gets beyond the limit.
PromptOverrun ==
  \A c \in Calls :
    calls[c].asked # 0 /\ PromptLimit(calls[c].plan) > 0 =>
      daily[calls[c].asked].prompts
        < PromptLimit(calls[c].plan) + Cardinality(Counted(calls[c].asked) \ calls[c].before)

\* So it is with the credit of a week, where a call by key is held to it too, but for
\* what the last call within the credit costs more than was left.
CreditOverrun ==
  \A c \in Calls :
    calls[c].paid # 0 =>
      spent[calls[c].paid]
        < calls[c].seen + TokensOf(CountedIn(calls[c].paid) \ calls[c].before)

\* A refresh that read the subscriptions at another time than c was not over when c began.
RefreshedBeside(c) ==
  \E q \in Calls :
    /\ calls[q].pc # "new" /\ calls[q].kind \in SiteKinds
    /\ calls[q].era # calls[c].era /\ q \notin calls[c].before

\* A call after the end of the plan is served as one of pro only by key, and only as
\* long as nobody has used the site; and otherwise only if two refreshes overlapped,
\* of which the one that wrote last had read before the end (refreshUserEntitlement).
LatePlanIsByKey ==
  \A c \in Calls :
    calls[c].lapsed /\ calls[c].plan = "pro" =>
      IF calls[c].kind = "gateway"
      THEN \A q \in calls[c].before :
             calls[q].kind \in SiteKinds /\ calls[q].era = calls[c].era /\ calls[q].out # "failed" =>
               RefreshedBeside(q)
      ELSE RefreshedBeside(c)

-----------------------------------------------------------------------------

UsageOK ==
  /\ day \in Days /\ era \in 0..MaxEra /\ entitled \in BOOLEAN /\ userPlan \in Plans
  /\ keys \in [ApiKeys -> {"none", "active", "revoked"}]
  /\ daily \in [Days -> DayUsage] /\ spent \in [Days -> Nat]
  /\ calls \in [Calls -> Call] /\ usageSlips \in 0..MaxUsageSlips

\* Every counted call is in the row of its date, and once.
Books ==
  \A d \in Days : daily[d].prompts = Cardinality(Counted(d))

Histories ==
  \A c \in Calls :
    /\ calls[c].out # "none" <=> calls[c].pc = "done"
    /\ calls[c].pc = "count" => calls[c].date # 0
    /\ calls[c].pc \in {"refresh", "reload"} => calls[c].asked = 0
    /\ \A q \in calls[c].before : calls[q].pc = "done"

UsageInv == UsageOK /\ Books /\ Histories /\ PromptOverrun

=============================================================================
