--------------------------- MODULE Services_proofs ---------------------------
(***************************************************************************)
(* Theorems about Usage, Guests, CentralAccount and DeepTutor, and about   *)
(* Services, which they and those of Tracker_proofs and SignIn_proofs make *)
(* up: for any number of calls, keys, days, chats, pages and visits, any   *)
(* limits and any number of failures.                                      *)
(***************************************************************************)
EXTENDS Services, Tracker_proofs, SignIn_proofs, FiniteSetTheorems, SequenceTheorems,
        WellFoundedInduction, TLAPS

-----------------------------------------------------------------------------
(* Usage: days, weeks, and the sets that are counted.                      *)

LEMMA WeeksAreDays == \A d \in Days : WeekOf(d) \in Days
<1> SUFFICES ASSUME NEW d \in Days PROVE WeekOf(d) \in Days
  OBVIOUS
<1>1. d \in Nat \ {0} /\ d <= LastDay /\ WeekDays \in Nat \ {0} /\ LastDay \in Nat \ {0}
  BY UsageAssumption DEF Days
<1>2. ((d - 1) \div WeekDays) \in Nat /\ ((d - 1) \div WeekDays) <= d - 1
  BY <1>1, SMT
<1> QED BY <1>1, <1>2 DEF WeekOf, Days

LEMMA CountedIsFinite ==
  ASSUME NEW S \in SUBSET Calls
  PROVE  IsFiniteSet(S) /\ Cardinality(S) \in Nat
BY UsageAssumption, FS_Subset, FS_CardinalityType

\* A call more, which was not over when another one began.
LEMMA OneMore ==
  ASSUME NEW S \in SUBSET Calls, NEW B \in SUBSET Calls, NEW c \in Calls, c \notin S, c \notin B
  PROVE  /\ Cardinality(S \cup {c}) = Cardinality(S) + 1
         /\ Cardinality((S \cup {c}) \ B) = Cardinality(S \ B) + 1
<1>1. IsFiniteSet(S) /\ IsFiniteSet(S \ B)
  BY CountedIsFinite
<1>2. Cardinality(S \cup {c}) = Cardinality(S) + 1
  BY <1>1, FS_AddElement
<1>3. (S \cup {c}) \ B = (S \ B) \cup {c}
  OBVIOUS
<1>4. Cardinality((S \ B) \cup {c}) = Cardinality(S \ B) + 1
  BY <1>1, FS_AddElement
<1> QED BY <1>2, <1>3, <1>4

-----------------------------------------------------------------------------
(* Usage: the calls.                                                       *)

LEMMA NewCalls == NewCall \in Call
BY UsageAssumption DEF NewCall, Call, CallKinds, SiteKinds, Plans

\* What a call that ends uncounted leaves.
Left(c, out) ==
  [NewCall EXCEPT !.pc = "done", !.kind = calls[c].kind, !.before = calls[c].before,
                  !.era = calls[c].era, !.out = out]

LEMMA LeftIsCall ==
  ASSUME UsageOK, NEW c \in Calls, NEW out \in {"refused", "failed", "uncounted", "answered"}
  PROVE  /\ Left(c, out) \in Call
         /\ Left(c, out).pc = "done" /\ Left(c, out).out = out /\ Left(c, out).asked = 0
         /\ Left(c, out).before = calls[c].before /\ Left(c, out).kind = calls[c].kind
         /\ Left(c, out).era = calls[c].era /\ Left(c, out).lapsed = FALSE
<1>1. calls[c] \in Call /\ NewCall \in Call /\ NewCall.asked = 0 /\ NewCall.lapsed = FALSE
  BY NewCalls DEF UsageOK, NewCall
<1>2. Left(c, out) \in Call
  BY ZenonT(60), <1>1 DEF Left, Call
<1> QED BY ZenonT(60), <1>1 DEF Left, Call

\* What is true of a call that begins.
LEMMA BegunIsCall ==
  ASSUME UsageOK, NEW kind \in CallKinds, NEW plan \in Plans, NEW pc \in {"refresh", "purchases"}
  PROVE  /\ Begun(kind, plan, pc) \in Call
         /\ Begun(kind, plan, pc).pc = pc /\ Begun(kind, plan, pc).out = "none"
         /\ Begun(kind, plan, pc).asked = 0 /\ Begun(kind, plan, pc).before = CallsOver
         /\ Begun(kind, plan, pc).kind = kind /\ Begun(kind, plan, pc).plan = plan
         /\ Begun(kind, plan, pc).era = era /\ Begun(kind, plan, pc).lapsed = ~entitled
<1>0. (~entitled) \in BOOLEAN
  OBVIOUS
<1>1. CallsOver \in SUBSET Calls /\ era \in 0..MaxEra
  BY DEF CallsOver, UsageOK
<1>2. NewCall \in Call /\ NewCall.asked = 0 /\ NewCall.out = "none"
  BY NewCalls DEF NewCall
<1>3. Begun(kind, plan, pc) \in Call
  BY <1>0, <1>1, <1>2 DEF Begun, Call
<1> QED BY <1>1, <1>2 DEF Begun, Call

\* A call that is not over takes a step without being counted.
LEMMA CallMoves ==
  ASSUME UsageInv, NEW c \in Calls, NEW q \in Call,
         calls[c].pc # "done", calls' = [calls EXCEPT ![c] = q],
         q.out # "counted", q.out # "none" <=> q.pc = "done",
         q.pc = "count" => q.date # 0, q.pc \in {"refresh", "reload"} => q.asked = 0,
         q.before = calls[c].before \/ q.before = CallsOver,
         \/ q.asked = 0
         \/ q.asked = calls[c].asked /\ q.plan = calls[c].plan /\ q.before = calls[c].before
         \/ q.asked \in Days /\ daily[q.asked].prompts < PromptLimit(q.plan)
         \/ q.asked \in Days /\ PromptLimit(q.plan) = 0,
         UNCHANGED <<day, daily, spent>>,
         era' \in 0..MaxEra, entitled' \in BOOLEAN, userPlan' \in Plans,
         keys' \in [ApiKeys -> {"none", "active", "revoked"}], usageSlips' \in 0..MaxUsageSlips
  PROVE  UsageInv'
<1>1. calls \in [Calls -> Call] /\ calls[c] \in Call /\ calls[c].out = "none"
  BY DEF UsageInv, UsageOK, Histories, Call
<1>2. UsageOK'
  BY <1>1 DEF UsageInv, UsageOK
<1>3. calls'[c] = q /\ \A p \in Calls \ {c} : calls'[p] = calls[p]
  BY <1>1
<1>4. \A d : Counted(d)' = Counted(d)
  BY <1>1, <1>3 DEF Counted
<1>5. Books'
  BY <1>4 DEF UsageInv, Books
<1>6. Histories'
  <2> SUFFICES ASSUME NEW p \in Calls
      PROVE (/\ calls[p].out # "none" <=> calls[p].pc = "done"
             /\ calls[p].pc = "count" => calls[p].date # 0
             /\ calls[p].pc \in {"refresh", "reload"} => calls[p].asked = 0
             /\ \A b \in calls[p].before : calls[b].pc = "done")'
    BY DEF Histories
  <2>1. calls'[p].before = calls[p].before \/ calls'[p].before = CallsOver
    BY <1>3
  <2>2. \A b \in calls[p].before \cup CallsOver : b \in Calls /\ calls[b].pc = "done"
    BY <1>1 DEF UsageInv, Histories, CallsOver, Call
  <2>3. \A b \in calls'[p].before : calls'[b].pc = "done"
    BY <2>1, <2>2, <1>3
  <2>4. CASE p = c
    BY <2>3, <2>4, <1>3
  <2>5. CASE p # c
    BY <2>3, <2>5, <1>3 DEF UsageInv, Histories
  <2> QED BY <2>4, <2>5
<1>7. PromptOverrun'
  <2> SUFFICES ASSUME NEW p \in Calls, calls'[p].asked # 0, PromptLimit(calls'[p].plan) > 0
      PROVE daily[calls'[p].asked].prompts
              < PromptLimit(calls'[p].plan)
                  + Cardinality(Counted(calls'[p].asked) \ calls'[p].before)
    BY <1>4 DEF PromptOverrun
  <2>1. CASE calls'[p].asked = calls[p].asked /\ calls'[p].plan = calls[p].plan
               /\ calls'[p].before = calls[p].before
    BY <2>1 DEF UsageInv, PromptOverrun
  <2>2. CASE p = c /\ q.asked \in Days /\ daily[q.asked].prompts < PromptLimit(q.plan)
    <3>1. Cardinality(Counted(q.asked) \ q.before) \in Nat
      BY CountedIsFinite DEF Counted
    <3>2. daily[q.asked].prompts \in Nat /\ PromptLimit(q.plan) \in Nat
      BY <2>2, UsageAssumption DEF UsageInv, UsageOK, DayUsage, PromptLimit
    <3>3. calls'[p] = q
      BY <2>2, <1>3
    <3>4. daily[q.asked].prompts < PromptLimit(q.plan) + Cardinality(Counted(q.asked) \ q.before)
      BY <2>2, <3>1, <3>2
    <3> QED BY <3>3, <3>4
  <2>3. p = c \/ calls'[p] = calls[p]
    BY <1>3
  <2> QED BY <2>1, <2>2, <2>3, <1>3, UsageAssumption DEF PromptLimit
<1> QED BY <1>2, <1>5, <1>6, <1>7 DEF UsageInv

\* No call moves.
LEMMA CallsRest ==
  ASSUME UsageInv, UNCHANGED <<daily, spent, calls, usageSlips>>,
         day' \in Days, era' \in 0..MaxEra, entitled' \in BOOLEAN, userPlan' \in Plans,
         keys' \in [ApiKeys -> {"none", "active", "revoked"}]
  PROVE  UsageInv'
BY DEF UsageInv, UsageOK, Books, Histories, PromptOverrun, Counted

-----------------------------------------------------------------------------
(* Usage: the steps.                                                       *)

LEMMA InitUsageInv == UsageInit => UsageInv
<1> SUFFICES ASSUME UsageInit PROVE UsageInv
  OBVIOUS
<1>1. UsageOK
  BY NewCalls, UsageAssumption DEF UsageInit, UsageOK, Days, DayUsage, Plans, Entitled
<1>2. \A c \in Calls : calls[c] = NewCall
  BY DEF UsageInit
<1>3. \A d : Counted(d) = {}
  BY <1>2 DEF Counted, NewCall
<1>4. Books
  BY <1>3, FS_EmptySet DEF Books, UsageInit
<1>5. Histories /\ PromptOverrun
  BY <1>2 DEF Histories, PromptOverrun, NewCall
<1> QED BY <1>1, <1>4, <1>5 DEF UsageInv

LEMMA LeavesKeep ==
  ASSUME UsageInv, NEW c \in Calls, NEW out \in {"refused", "failed", "uncounted", "answered"},
         calls[c].pc \notin {"new", "done"}, CallEnds(c, out),
         UNCHANGED <<day, era, entitled, userPlan, keys, daily, spent>>,
         usageSlips' \in 0..MaxUsageSlips
  PROVE  UsageInv'
<1>1. UsageOK
  BY DEF UsageInv
<1>2. calls' = [calls EXCEPT ![c] = Left(c, out)]
  BY DEF CallEnds, Left
<1> QED BY <1>1, <1>2, LeftIsCall, CallMoves DEF UsageOK

LEMMA BeginsKeep ==
  ASSUME UsageInv, NEW c \in Calls, CallBegins(c)
  PROVE  UsageInv'
<1>1. UsageOK
  BY DEF UsageInv
<1>2. PICK kind \in CallKinds, plan \in Plans, pc \in {"refresh", "purchases"} :
        calls' = [calls EXCEPT ![c] = Begun(kind, plan, pc)]
  BY <1>1 DEF CallBegins, CallBySession, CallByKey, CallKinds, Plans, Entitled, UsageOK
<1>3. /\ UNCHANGED <<day, era, entitled, userPlan, keys, daily, spent, usageSlips>>
      /\ calls[c].pc = "new"
  BY <1>1 DEF CallBegins, CallBySession, CallByKey, UsageOK, Entitled, Plans
<1> QED BY ZenonT(60), <1>1, <1>2, <1>3, BegunIsCall, CallMoves DEF UsageOK

\* A call refreshes the plan and reads the user.
LEMMA RefreshesKeep ==
  ASSUME UsageInv, NEW c \in Calls, UpdatePlan(c) \/ LoadUser(c)
  PROVE  UsageInv'
<1>1. /\ UsageOK /\ calls[c] \in Call /\ calls[c].asked = 0 /\ calls[c].out = "none"
      /\ calls[c].pc \in {"refresh", "reload"}
      /\ UNCHANGED <<day, era, entitled, keys, daily, spent, usageSlips>>
  BY DEF UsageInv, UsageOK, Histories, UpdatePlan, LoadUser
<1>2. CASE UpdatePlan(c)
  <2> DEFINE q == [calls[c] EXCEPT !.pc = "reload"]
  <2>1. calls' = [calls EXCEPT ![c] = q] /\ userPlan' \in Plans
    BY <1>1, <1>2 DEF UpdatePlan, UsageOK, Call
  <2>2. q \in Call /\ q.asked = 0 /\ q.pc = "reload" /\ q.out = "none" /\ q.before = calls[c].before
    BY <1>1 DEF Call
  <2> HIDE DEF q
  <2> QED BY <1>1, <2>1, <2>2, CallMoves DEF UsageOK
<1>3. CASE LoadUser(c) /\ calls[c].kind # "account"
  <2> DEFINE q == [calls[c] EXCEPT !.pc = "purchases", !.plan = userPlan]
  <2>1. calls' = [calls EXCEPT ![c] = q] /\ userPlan' \in Plans
    BY <1>1, <1>3 DEF LoadUser, UsageOK
  <2>2. q \in Call /\ q.asked = 0 /\ q.pc = "purchases" /\ q.out = "none"
        /\ q.before = calls[c].before
    BY ZenonT(60), <1>1 DEF Call, UsageOK
  <2> HIDE DEF q
  <2> QED BY <1>1, <2>1, <2>2, CallMoves DEF UsageOK
<1>4. CASE LoadUser(c) /\ calls[c].kind = "account"
  <2>1. CallEnds(c, "answered") /\ UNCHANGED userPlan
    BY <1>4 DEF LoadUser
  <2> QED BY <1>1, <2>1, LeavesKeep DEF UsageOK
<1> QED BY <1>2, <1>3, <1>4

\* A call reads what it may use: it goes on, or ends.
LEMMA ReadsKeep ==
  ASSUME UsageInv, NEW c \in Calls, ReadPurchases(c) \/ ReadWeek(c) \/ ReadDay(c)
  PROVE  UsageInv'
<1>1. UsageOK /\ calls[c] \in Call /\ UNCHANGED <<day, era, entitled, userPlan, keys, daily, spent, usageSlips>>
  BY DEF UsageInv, UsageOK, ReadPurchases, ReadWeek, ReadDay
<1>2. calls[c].pc # "done" => calls[c].out = "none"
  BY DEF UsageInv, Histories
<1>3. CreditGiven(c) \in {"ask", "daily"} /\ day \in Days
  BY <1>1 DEF CreditGiven, UsageOK
<1>7. day \in 0..LastDay /\ WeekOf(day) \in 0..LastDay
  BY <1>3, WeeksAreDays, UsageAssumption DEF Days
<1>4. CASE ReadPurchases(c)
  <2>0. PICK bought \in 0..MaxBought :
          LET total == IncludedCredit(calls[c].plan) + bought IN
          calls' = [calls EXCEPT ![c].pc = IF total = 0 THEN CreditGiven(c) ELSE "week",
                                 ![c].seen = total]
    BY <1>4 DEF ReadPurchases
  <2> DEFINE total == IncludedCredit(calls[c].plan) + bought
             q == [calls[c] EXCEPT !.pc = IF total = 0 THEN CreditGiven(c) ELSE "week",
                                   !.seen = total]
  <2>1. total \in Nat
    BY <1>1, UsageAssumption DEF IncludedCredit, UsageOK
  <2>2. calls' = [calls EXCEPT ![c] = q] /\ calls[c].pc = "purchases"
    BY <1>1, <1>4, <2>0 DEF ReadPurchases, UsageOK
  <2> HIDE DEF total
  <2>3. /\ q \in Call /\ q.asked = calls[c].asked /\ q.plan = calls[c].plan
        /\ q.before = calls[c].before /\ q.out = calls[c].out
        /\ q.pc \in {"ask", "daily", "week"}
    BY <1>1, <1>3, <2>1 DEF Call
  <2> HIDE DEF q
  <2> QED BY <1>1, <1>2, <2>2, <2>3, CallMoves DEF UsageOK
<1>5. CASE ReadWeek(c)
  <2> DEFINE q == [calls[c] EXCEPT !.pc = CreditGiven(c), !.paid = WeekOf(day)]
  <2>1. \/ calls' = [calls EXCEPT ![c] = q]
        \/ CallEnds(c, "refused")
    BY <1>1, <1>5 DEF ReadWeek, UsageOK
  <2>2. /\ q \in Call /\ q.asked = calls[c].asked /\ q.plan = calls[c].plan
        /\ q.before = calls[c].before /\ q.out = calls[c].out /\ q.pc \in {"ask", "daily"}
    BY <1>1, <1>3, <1>7 DEF Call
  <2>3. calls[c].pc = "week"
    BY <1>5 DEF ReadWeek
  <2> HIDE DEF q
  <2>4. CASE calls' = [calls EXCEPT ![c] = q]
    BY <1>1, <1>2, <2>2, <2>3, <2>4, CallMoves DEF UsageOK
  <2> QED BY <1>1, <2>1, <2>3, <2>4, LeavesKeep DEF UsageOK
<1>6. CASE ReadDay(c)
  <2> DEFINE q == [calls[c] EXCEPT !.pc = "ask", !.asked = day]
  <2>1. \/ calls' = [calls EXCEPT ![c] = q] /\ Within(c, daily[day])
        \/ CallEnds(c, "refused")
    BY <1>1, <1>6 DEF ReadDay, UsageOK
  <2>2. /\ q \in Call /\ q.asked = day /\ q.plan = calls[c].plan
        /\ q.before = calls[c].before /\ q.out = calls[c].out /\ q.pc = "ask"
    BY <1>1, <1>3, <1>7 DEF Call
  <2>3. calls[c].pc = "daily"
    BY <1>6 DEF ReadDay
  <2> HIDE DEF q
  <2>4. CASE calls' = [calls EXCEPT ![c] = q] /\ Within(c, daily[day])
    <3>1. PromptLimit(q.plan) \in Nat
      BY UsageAssumption DEF PromptLimit
    <3>2. PromptLimit(q.plan) = 0 \/ daily[q.asked].prompts < PromptLimit(q.plan)
      BY <2>2, <2>4, <3>1 DEF Within
    <3>3. usageSlips' \in 0..MaxUsageSlips
      BY <1>1 DEF UsageOK
    <3> QED BY <1>1, <1>2, <1>3, <2>2, <2>3, <2>4, <3>2, <3>3, CallMoves DEF UsageOK
  <2> QED BY <1>1, <2>1, <2>3, <2>4, LeavesKeep DEF UsageOK
<1> QED BY <1>4, <1>5, <1>6

LEMMA AnswersKeep ==
  ASSUME UsageInv, NEW c \in Calls, Answered(c)
  PROVE  UsageInv'
<1>1. UsageOK /\ calls[c] \in Call /\ calls[c].pc = "ask"
  BY DEF UsageInv, UsageOK, Answered
<1>2. PICK n \in Researched(c) :
        \E t \in IF calls[c].kind = "research" THEN {0} ELSE 1..MaxTokens :
          calls' = [calls EXCEPT ![c].pc = "count", ![c].research = n, ![c].tokens = t,
                                 ![c].date = day]
  BY DEF Answered
<1>3. PICK t \in IF calls[c].kind = "research" THEN {0} ELSE 1..MaxTokens :
        calls' = [calls EXCEPT ![c].pc = "count", ![c].research = n, ![c].tokens = t,
                               ![c].date = day]
  BY <1>2
<1>9. n \in 0..1 /\ t \in 0..MaxTokens
  BY UsageAssumption DEF Researched
<1> DEFINE q == [calls[c] EXCEPT !.pc = "count", !.research = n, !.tokens = t, !.date = day]
<1>4. calls' = [calls EXCEPT ![c] = q]
  BY <1>1, <1>3 DEF UsageOK
<1>5. day \in 0..LastDay /\ day # 0
  BY <1>1, UsageAssumption DEF UsageOK, Days
<1>6. /\ q \in Call /\ q.asked = calls[c].asked /\ q.plan = calls[c].plan
      /\ q.before = calls[c].before /\ q.out = calls[c].out /\ q.pc = "count" /\ q.date = day
  BY <1>1, <1>5, <1>9 DEF Call
<1>7. calls[c].out = "none"
  BY <1>1 DEF UsageInv, Histories
<1>8. UNCHANGED <<day, era, entitled, userPlan, keys, daily, spent, usageSlips>>
  BY DEF Answered
<1> HIDE DEF q
<1> QED BY <1>1, <1>4, <1>5, <1>6, <1>7, <1>8, CallMoves DEF UsageOK

LEMMA GivesUpKeep ==
  ASSUME UsageInv, NEW c \in Calls,
         AnsweredUnmeasured(c) \/ CountFails(c) \/ CallFails(c)
  PROVE  UsageInv'
<1>1. PICK out \in {"refused", "failed", "uncounted", "answered"} : CallEnds(c, out)
  BY DEF AnsweredUnmeasured, CountFails, CallFails
<1>2. calls[c].pc \notin {"new", "done"}
  BY DEF AnsweredUnmeasured, CountFails, CallFails
<1>3. UNCHANGED <<day, era, entitled, userPlan, keys, daily, spent>>
  BY DEF AnsweredUnmeasured, CountFails, CallFails
<1>4. usageSlips' \in 0..MaxUsageSlips
  BY UsageAssumption
     DEF AnsweredUnmeasured, CountFails, CallFails, UsageSlip, UsageInv, UsageOK
<1> QED BY <1>1, <1>2, <1>3, <1>4, LeavesKeep

\* A call is counted for its date: the row of that day and the set of its calls grow by one.
LEMMA CountKeeps ==
  ASSUME UsageInv, NEW c \in Calls, Count(c)
  PROVE  UsageInv'
<1> DEFINE q == [calls[c] EXCEPT !.pc = "done", !.out = "counted", !.week = WeekOf(day)]
<1>1. /\ UsageOK /\ calls[c] \in Call /\ calls[c].pc = "count" /\ calls[c].out = "none"
      /\ calls[c].date \in 0..LastDay /\ calls[c].date # 0
  BY DEF UsageInv, UsageOK, Count, Histories, Call
<1>2. PICK d \in Days : d = calls[c].date
  BY <1>1, UsageAssumption DEF Days
<1>3. calls' = [calls EXCEPT ![c] = q]
  BY <1>1 DEF Count, UsageOK
<1>21. WeekOf(day) \in Days
  BY <1>1, WeeksAreDays DEF UsageOK
<1>4. WeekOf(day) \in Days /\ WeekOf(day) \in 0..LastDay
  BY <1>21, UsageAssumption DEF Days
<1>5. /\ q \in Call /\ q.asked = calls[c].asked /\ q.plan = calls[c].plan
      /\ q.before = calls[c].before /\ q.out = "counted" /\ q.pc = "done" /\ q.date = d
  BY <1>1, <1>2, <1>4 DEF Call
<1>6. /\ UNCHANGED <<day, era, entitled, userPlan, keys, usageSlips>>
      /\ daily' = [daily EXCEPT ![d] =
           [prompts |-> @.prompts + 1, images |-> @.images + Images(calls[c]),
            research |-> @.research + calls[c].research]]
      /\ spent' = [spent EXCEPT ![WeekOf(day)] = @ + calls[c].tokens]
  BY <1>2 DEF Count
<1>7. Images(calls[c]) \in Nat /\ calls[c].research \in Nat /\ calls[c].tokens \in Nat
  BY <1>1, UsageAssumption DEF Images, Call
<1> HIDE DEF q
<1>8. daily' \in [Days -> DayUsage]
  BY <1>1, <1>2, <1>6, <1>7 DEF UsageOK, DayUsage
<1>9. spent' \in [Days -> Nat]
  BY <1>1, <1>4, <1>6, <1>7 DEF UsageOK
<1>10. calls' \in [Calls -> Call]
  BY <1>1, <1>3, <1>5 DEF UsageOK
<1>11. UsageOK'
  BY <1>1, <1>6, <1>8, <1>9, <1>10 DEF UsageOK
<1>12. calls'[c] = q /\ \A p \in Calls \ {c} : calls'[p] = calls[p]
  BY <1>1, <1>3 DEF UsageOK
<1>13. /\ daily'[d].prompts = daily[d].prompts + 1
       /\ \A x \in Days \ {d} : daily'[x] = daily[x]
  BY <1>1, <1>2, <1>6 DEF UsageOK, DayUsage
<1>14. /\ c \notin Counted(d) /\ Counted(d)' = Counted(d) \cup {c}
       /\ \A x \in Days \ {d} : Counted(x)' = Counted(x)
  BY <1>1, <1>5, <1>12 DEF Counted
<1>15. \A x : Counted(x) \in SUBSET Calls
  BY DEF Counted
<1>16. \A x \in Days : daily[x].prompts \in Nat
  BY <1>1 DEF UsageOK, DayUsage
<1>17. Books'
  <2> SUFFICES ASSUME NEW x \in Days PROVE daily'[x].prompts = Cardinality(Counted(x)')
    BY DEF Books
  <2>1. CASE x = d
    <3>1. Cardinality(Counted(d) \cup {c}) = Cardinality(Counted(d)) + 1
      BY <1>14, <1>15, OneMore
    <3> QED BY <3>1, <2>1, <1>2, <1>13, <1>14 DEF UsageInv, Books
  <2>2. CASE x # d
    BY <2>2, <1>13, <1>14 DEF UsageInv, Books
  <2> QED BY <2>1, <2>2
<1>18. \A p \in Calls : c \notin calls[p].before /\ calls[p].before \in SUBSET Calls
                        /\ calls'[p].before = calls[p].before /\ calls'[p].plan = calls[p].plan
                        /\ calls'[p].asked = calls[p].asked
  BY <1>1, <1>5, <1>12 DEF UsageInv, Histories, UsageOK, Call
<1>19. Histories'
  BY <1>5, <1>12, <1>18 DEF UsageInv, Histories
<1>20. PromptOverrun'
  <2> SUFFICES ASSUME NEW p \in Calls, calls'[p].asked # 0, PromptLimit(calls'[p].plan) > 0
      PROVE daily'[calls'[p].asked].prompts
              < PromptLimit(calls'[p].plan)
                  + Cardinality(Counted(calls[p].asked)' \ calls'[p].before)
    BY DEF PromptOverrun
  <2>1. calls[p].asked \in Days
    BY SMTT(40), <1>1, <1>18, UsageAssumption DEF UsageOK, Call, Days
  <2>6. PICK a \in Days : a = calls[p].asked
    BY <2>1
  <2>7. PICK B \in SUBSET Calls : B = calls[p].before
    BY <1>18
  <2>8. PICK l \in Nat : l = PromptLimit(calls[p].plan)
    BY UsageAssumption DEF PromptLimit
  <2>9. PICK n \in Nat : n = Cardinality(Counted(a) \ B)
    BY <1>15, CountedIsFinite
  <2>2. daily[a].prompts \in Nat
    BY <1>16
  <2>3. daily[a].prompts < l + n
    BY <1>18, <2>6, <2>7, <2>8, <2>9 DEF UsageInv, PromptOverrun
  <2> DEFINE m == Cardinality(Counted(a)' \ B)
  <2>4. ASSUME a = d PROVE m = n + 1 /\ daily'[a].prompts = daily[a].prompts + 1
    <3>1. Cardinality((Counted(d) \cup {c}) \ B) = Cardinality(Counted(d) \ B) + 1
      BY <1>14, <1>15, <1>18, <2>7, OneMore
    <3>2. m = n + 1
      BY <3>1, <2>4, <2>9, <1>14
    <3>3. daily'[a].prompts = daily[a].prompts + 1
      BY <2>4, <1>13
    <3> QED BY <3>2, <3>3
  <2>5. ASSUME a # d PROVE m = n /\ daily'[a].prompts = daily[a].prompts
    <3>1. Counted(a)' = Counted(a) /\ daily'[a] = daily[a]
      BY <2>5, <1>13, <1>14
    <3> QED BY <3>1, <2>9
  <2>12. m \in {n, n + 1} /\ daily'[a].prompts = daily[a].prompts + (m - n)
    BY <2>2, <2>4, <2>5
  <2> HIDE DEF m
  <2>10. daily'[a].prompts < l + m
    BY <2>2, <2>3, <2>12
  <2>11. calls'[p].asked = a /\ calls'[p].before = B /\ PromptLimit(calls'[p].plan) = l
    BY <1>18, <2>6, <2>7, <2>8
  <2> QED BY <2>10, <2>11 DEF m
<1> QED BY <1>11, <1>17, <1>19, <1>20 DEF UsageInv

LEMMA UsageNextKeeps == UsageInv /\ [UsageNext]_usageVars => UsageInv'
<1> SUFFICES ASSUME UsageInv, [UsageNext]_usageVars PROVE UsageInv'
  OBVIOUS
<1>1. CASE UNCHANGED usageVars
  BY <1>1, CallsRest DEF usageVars, UsageInv, UsageOK
<1>2. CASE \E c \in Calls : CallBegins(c) \/ CallSteps(c)
  BY <1>2, BeginsKeep, RefreshesKeep, ReadsKeep, AnswersKeep, GivesUpKeep, CountKeeps DEF CallSteps
<1>3. CASE \E k \in ApiKeys : CreateKey(k) \/ RevokeKey(k)
  BY <1>3, CallsRest DEF CreateKey, RevokeKey, UsageInv, UsageOK
<1>4. CASE NextDay
  <2>1. day' \in Days
    BY <1>4, UsageAssumption DEF NextDay, UsageInv, UsageOK, Days
  <2> QED BY <1>4, <2>1, CallsRest DEF NextDay, UsageInv, UsageOK
<1>5. CASE Subscribe \/ Lapse
  <2>1. /\ era' \in 0..MaxEra /\ userPlan' \in Plans /\ day' \in Days
        /\ UNCHANGED <<daily, spent, calls, usageSlips, keys>>
    BY <1>5, UsageAssumption DEF Subscribe, Lapse, UsageInv, UsageOK, Plans
  <2>2. entitled' \in BOOLEAN
    BY <1>5 DEF Subscribe, Lapse
  <2> QED BY <2>1, <2>2, CallsRest DEF UsageInv, UsageOK
<1> QED BY <1>1, <1>2, <1>3, <1>4, <1>5 DEF UsageNext

\* The rows of the days hold every counted call once, whatever fails and however calls
\* interleave (Count, CountFails).
THEOREM UsageKeeps == UsageSpec => []UsageInv
BY InitUsageInv, UsageNextKeeps, PTL DEF UsageSpec

\* Who is held to a limit of a day gets beyond it only by calls that were at work at the
\* same time: nothing is reserved between checkUserQuota and IncrementDailyUsage.
THEOREM PromptLimitHolds == UsageSpec => []PromptOverrun
BY UsageKeeps, PTL DEF UsageInv

-----------------------------------------------------------------------------
(* Usage: the plan that keys find, and that refreshes write.               *)

\* The UPDATE of its refresh is done; whether it was, a call that failed does not tell.
Refreshed(q) ==
  /\ calls[q].pc \notin {"new", "refresh"} /\ calls[q].kind \in SiteKinds
  /\ calls[q].out # "failed"

\* A call began at the time its era says, and carries what the subscriptions said then.
BegunInEra ==
  \A q \in Calls :
    /\ calls[q].pc # "new" => calls[q].era <= era
    /\ calls[q].lapsed => calls[q].pc # "new"
    /\ calls[q].pc \in {"refresh", "reload"} =>
         calls[q].kind \in SiteKinds /\ (calls[q].lapsed <=> calls[q].plan = "free")
    /\ calls[q].pc \notin {"new", "done"} =>
         /\ calls[q].era = era => (calls[q].lapsed <=> ~entitled)
         /\ \A p \in Calls : calls[p].pc \notin {"new", "done"} /\ calls[p].era = calls[q].era =>
              (calls[p].lapsed <=> calls[q].lapsed)

\* If a plan that came to its end is in users, who has written since wrote before a refresh
\* that had read before the end.
PlanIsStale ==
  ~entitled /\ userPlan = "pro" =>
    \A q \in Calls : Refreshed(q) /\ calls[q].era = era => RefreshedBeside(q)

\* So it is with the plan a call finds that has written that there is none.
ReloadTells ==
  userPlan = "pro" =>
    \A q \in Calls : calls[q].pc = "reload" /\ calls[q].lapsed => RefreshedBeside(q)

PlanTells == BegunInEra /\ PlanIsStale /\ ReloadTells /\ LatePlanIsByKey
PlanInv == UsageInv /\ PlanTells

\* Who has begun stays who it was.
SameCalls ==
  \A q \in Calls : calls[q].pc # "new" =>
    /\ calls'[q].pc # "new" /\ calls'[q].kind = calls[q].kind
    /\ calls'[q].era = calls[q].era /\ calls'[q].before = calls[q].before

LEMMA BesideStays ==
  ASSUME SameCalls, NEW q \in Calls, calls[q].pc # "new", RefreshedBeside(q)
  PROVE  RefreshedBeside(q)'
BY DEF SameCalls, RefreshedBeside

\* What was said of the plan of a call that rests, or that keeps its plan, stays said.
LEMMA LateStays ==
  ASSUME PlanInv, SameCalls, NEW p \in Calls, calls[p].pc # "new",
         calls'[p].lapsed /\ calls'[p].plan = "pro",
         calls[p].lapsed /\ calls[p].plan = "pro",
         \A b \in Calls : calls[b].pc = "done" => calls'[b] = calls[b]
  PROVE  IF calls'[p].kind = "gateway"
         THEN \A b \in calls'[p].before :
                calls'[b].kind \in SiteKinds /\ calls'[b].era = calls'[p].era
                  /\ calls'[b].out # "failed" => RefreshedBeside(b)'
         ELSE RefreshedBeside(p)'
<1>1. calls'[p].kind = calls[p].kind /\ calls'[p].era = calls[p].era
      /\ calls'[p].before = calls[p].before
  BY DEF SameCalls
<1>2. \A b \in calls[p].before : b \in Calls /\ calls[b].pc = "done" /\ calls'[b] = calls[b]
  BY DEF PlanInv, UsageInv, UsageOK, Histories, Call
<1>3. CASE calls[p].kind = "gateway"
  BY <1>1, <1>2, <1>3, BesideStays DEF PlanInv, PlanTells, LatePlanIsByKey
<1>4. CASE calls[p].kind # "gateway"
  BY <1>1, <1>4, BesideStays DEF PlanInv, PlanTells, LatePlanIsByKey
<1> QED BY <1>3, <1>4

\* A call goes on with its plan or the one it has loaded, or is over.
LEMMA GoesOnKeeps ==
  ASSUME PlanInv, NEW c \in Calls, NEW q \in Call,
         calls[c].pc \notin {"new", "done"}, calls' = [calls EXCEPT ![c] = q],
         q.kind = calls[c].kind, q.era = calls[c].era, q.before = calls[c].before,
         q.pc \notin {"new", "refresh", "reload"},
         q.out # "failed" => calls[c].pc # "refresh",
         \/ q.lapsed = FALSE /\ q.pc = "done"
         \/ /\ q.lapsed = calls[c].lapsed
            /\ q.plan = calls[c].plan \/ (q.plan = userPlan /\ calls[c].pc = "reload"),
         UNCHANGED <<era, entitled, userPlan>>
  PROVE  PlanTells'
<1>1. calls \in [Calls -> Call]
  BY DEF PlanInv, UsageInv, UsageOK
<1>2. calls'[c] = q /\ \A p \in Calls \ {c} : calls'[p] = calls[p]
  BY <1>1
<1>3. SameCalls /\ \A b \in Calls : calls[b].pc = "done" => calls'[b] = calls[b]
  BY <1>2 DEF SameCalls
<1>4. BegunInEra'
  <2>1. \A p \in Calls : calls'[p].pc \notin {"new", "done"} =>
          calls[p].pc \notin {"new", "done"} /\ calls'[p].lapsed = calls[p].lapsed
            /\ calls'[p].era = calls[p].era
    BY <1>2
  <2>2. \A p \in Calls : calls'[p].pc # "new" => calls[p].pc # "new" /\ calls'[p].era = calls[p].era
    BY <1>2
  <2>3. \A p \in Calls : calls'[p].pc \in {"refresh", "reload"} => calls'[p] = calls[p]
    BY <1>2
  <2>4. \A p \in Calls : calls'[p].lapsed => calls'[p].pc # "new"
    BY <1>2 DEF PlanInv, PlanTells, BegunInEra
  <2> QED BY <2>1, <2>2, <2>3, <2>4 DEF PlanInv, PlanTells, BegunInEra
<1>5. PlanIsStale'
  <2>1. \A p \in Calls : Refreshed(p)' => Refreshed(p) /\ calls[p].pc # "new"
                                          /\ calls'[p].era = calls[p].era
    <3>1. calls[c].out = "none"
      BY DEF PlanInv, UsageInv, Histories
    <3> QED BY <1>2, <3>1 DEF Refreshed
  <2> QED BY <2>1, <1>3, BesideStays DEF PlanInv, PlanTells, PlanIsStale
<1>6. ReloadTells'
  BY <1>2, <1>3, BesideStays DEF PlanInv, PlanTells, ReloadTells
<1>7. LatePlanIsByKey'
  <2> SUFFICES ASSUME NEW p \in Calls, calls'[p].lapsed, calls'[p].plan = "pro"
      PROVE IF calls'[p].kind = "gateway"
            THEN \A b \in calls'[p].before :
                   calls'[b].kind \in SiteKinds /\ calls'[b].era = calls'[p].era
                     /\ calls'[b].out # "failed" => RefreshedBeside(b)'
            ELSE RefreshedBeside(p)'
    BY DEF LatePlanIsByKey
  <2>1. calls[p].lapsed
    BY <1>2
  <2>2. CASE calls[p].plan = "pro" /\ calls[p].pc # "new"
    BY <1>3, <2>1, <2>2, LateStays
  <2>3. CASE calls[p].plan # "pro"
    <3>1. p = c /\ calls[c].pc = "reload" /\ userPlan = "pro"
      BY <1>2, <2>3
    <3>2. RefreshedBeside(c) /\ calls[c].kind \in SiteKinds
      BY <2>1, <3>1 DEF PlanInv, PlanTells, ReloadTells, BegunInEra
    <3>3. calls'[c].kind # "gateway"
      BY <1>2, <3>2 DEF SiteKinds
    <3> QED BY <1>3, <3>1, <3>2, <3>3, BesideStays
  <2>4. CASE calls[p].pc = "new"
    BY <2>1, <2>4 DEF PlanInv, PlanTells, BegunInEra
  <2> QED BY <2>2, <2>3, <2>4
<1> QED BY <1>4, <1>5, <1>6, <1>7 DEF PlanTells

LEMMA BeginsByPlan ==
  ASSUME PlanInv, NEW c \in Calls, CallBegins(c)
  PROVE  PlanTells'
<1>1. /\ UsageOK /\ calls \in [Calls -> Call] /\ era \in Nat /\ UNCHANGED <<era, entitled, userPlan>>
      /\ calls[c].pc = "new"
  BY UsageAssumption
     DEF PlanInv, UsageInv, UsageOK, CallBegins, CallBySession, CallByKey
<1>2. PICK kind \in CallKinds, plan \in Plans, pc \in {"refresh", "purchases"} :
        /\ calls' = [calls EXCEPT ![c] = Begun(kind, plan, pc)]
        /\ \/ kind \in SiteKinds /\ plan = Entitled /\ pc = "refresh"
           \/ kind = "gateway" /\ plan = userPlan /\ pc = "purchases"
  BY <1>1 DEF CallBegins, CallBySession, CallByKey, CallKinds, Plans, Entitled, UsageOK
<1>3. PICK q \in Call :
        /\ q = Begun(kind, plan, pc) /\ q.pc = pc /\ q.before = CallsOver
        /\ q.kind = kind /\ q.plan = plan /\ q.era = era /\ q.lapsed = ~entitled
  BY <1>1, BegunIsCall
<1>4. calls'[c] = q /\ \A p \in Calls \ {c} : calls'[p] = calls[p]
  BY <1>1, <1>2, <1>3
<1>5. SameCalls /\ \A b \in Calls : calls[b].pc = "done" => calls'[b] = calls[b]
  BY <1>1, <1>4 DEF SameCalls
<1>6. BegunInEra'
  <2>1. entitled \in BOOLEAN /\ (plan = Entitled => (q.lapsed <=> plan = "free"))
    BY <1>1, <1>3 DEF UsageOK, Entitled
  <2>2. kind \in SiteKinds => kind # "gateway"
    BY DEF SiteKinds
  <2>3. \A p \in Calls : calls'[p].pc # "new" => calls'[p].era <= era'
    BY <1>1, <1>3, <1>4 DEF PlanInv, PlanTells, BegunInEra
  <2>4. \A p \in Calls : calls'[p].lapsed => calls'[p].pc # "new"
    BY <1>2, <1>3, <1>4 DEF PlanInv, PlanTells, BegunInEra
  <2>5. \A p \in Calls : calls'[p].pc \in {"refresh", "reload"} =>
          calls'[p].kind \in SiteKinds /\ (calls'[p].lapsed <=> calls'[p].plan = "free")
    BY <1>2, <1>3, <1>4, <2>1 DEF PlanInv, PlanTells, BegunInEra
  <2>6. \A p \in Calls : calls'[p].pc \notin {"new", "done"} /\ calls'[p].era = era =>
          (calls'[p].lapsed <=> ~entitled)
    BY <1>3, <1>4 DEF PlanInv, PlanTells, BegunInEra
  <2>7. \A p, r \in Calls :
          calls'[p].pc \notin {"new", "done"} /\ calls'[r].pc \notin {"new", "done"}
            /\ calls'[r].era = calls'[p].era =>
              (calls'[r].lapsed <=> calls'[p].lapsed)
    BY <1>3, <1>4, <2>6 DEF PlanInv, PlanTells, BegunInEra
  <2> QED BY <1>1, <2>3, <2>4, <2>5, <2>6, <2>7 DEF BegunInEra
<1>7. PlanIsStale'
  <2>1. \A p \in Calls : Refreshed(p)' => Refreshed(p) /\ calls[p].pc # "new"
                                          /\ calls'[p].era = calls[p].era
    <3>1. ~Refreshed(c)'
      BY <1>2, <1>3, <1>4 DEF Refreshed, SiteKinds
    <3> QED BY <1>4, <3>1 DEF Refreshed
  <2> QED BY <1>1, <2>1, <1>5, BesideStays DEF PlanInv, PlanTells, PlanIsStale
<1>8. ReloadTells'
  <2>1. \A p \in Calls : calls'[p].pc = "reload" => calls'[p] = calls[p]
    BY <1>3, <1>4
  <2> QED BY <1>1, <1>5, <2>1, BesideStays DEF PlanInv, PlanTells, ReloadTells
<1>9. LatePlanIsByKey'
  <2> SUFFICES ASSUME NEW p \in Calls, calls'[p].lapsed, calls'[p].plan = "pro"
      PROVE IF calls'[p].kind = "gateway"
            THEN \A b \in calls'[p].before :
                   calls'[b].kind \in SiteKinds /\ calls'[b].era = calls'[p].era
                     /\ calls'[b].out # "failed" => RefreshedBeside(b)'
            ELSE RefreshedBeside(p)'
    BY DEF LatePlanIsByKey
  <2>1. CASE p # c
    <3>1. calls'[p] = calls[p]
      BY <2>1, <1>4
    <3>2. calls[p].pc # "new"
      BY <3>1 DEF PlanInv, PlanTells, BegunInEra
    <3> QED BY <1>5, <3>1, <3>2, LateStays
  <2>2. CASE p = c
    <3>1. ~entitled /\ plan = "pro" /\ q.kind = kind
      BY <2>2, <1>3, <1>4
    <3>2. kind = "gateway" /\ userPlan = "pro"
      BY <3>1, <1>2 DEF Entitled
    <3>3. \A b \in CallsOver : b \in Calls /\ b # c /\ calls[b].pc = "done" /\ calls'[b] = calls[b]
      BY <1>1, <1>4 DEF CallsOver
    <3>4. \A b \in CallsOver : calls[b].kind \in SiteKinds /\ calls[b].era = era
                                 /\ calls[b].out # "failed" => RefreshedBeside(b)
      BY <3>1, <3>2, <3>3 DEF PlanInv, PlanTells, PlanIsStale, Refreshed
    <3> QED BY <2>2, <3>2, <3>3, <3>4, <1>3, <1>4, <1>5, BesideStays
  <2> QED BY <2>1, <2>2
<1> QED BY <1>6, <1>7, <1>8, <1>9 DEF PlanTells

\* An older refresh that writes last was not over when any other began.
LEMMA UpdatesByPlan ==
  ASSUME PlanInv, NEW c \in Calls, UpdatePlan(c)
  PROVE  PlanTells'
<1>1. /\ calls \in [Calls -> Call] /\ calls[c].pc = "refresh" /\ UNCHANGED <<era, entitled>>
      /\ userPlan' = calls[c].plan
  BY DEF PlanInv, UsageInv, UsageOK, UpdatePlan
<1>2. /\ calls'[c] = [calls[c] EXCEPT !.pc = "reload"]
      /\ \A p \in Calls \ {c} : calls'[p] = calls[p]
  BY <1>1 DEF UpdatePlan
<1>3. \A p \in Calls : /\ calls'[p].kind = calls[p].kind /\ calls'[p].era = calls[p].era
                       /\ calls'[p].before = calls[p].before /\ calls'[p].lapsed = calls[p].lapsed
                       /\ calls'[p].plan = calls[p].plan /\ calls'[p].out = calls[p].out
                       /\ calls'[p].pc = IF p = c THEN "reload" ELSE calls[p].pc
  BY <1>1, <1>2 DEF Call
<1>4. SameCalls /\ \A b \in Calls : calls[b].pc = "done" => calls'[b] = calls[b]
  BY <1>1, <1>2, <1>3 DEF SameCalls
<1>5. BegunInEra'
  BY <1>1, <1>3 DEF PlanInv, PlanTells, BegunInEra
<1>6. ASSUME calls[c].plan = "pro", NEW p \in Calls, calls[p].pc # "new",
             calls[p].era # calls[c].era
      PROVE  RefreshedBeside(p)'
  <2>1. calls[c].kind \in SiteKinds
    BY <1>1 DEF PlanInv, PlanTells, BegunInEra
  <2>2. c \notin calls[p].before
    BY <1>1 DEF PlanInv, UsageInv, Histories
  <2> QED BY <1>1, <1>3, <1>6, <2>1, <2>2 DEF RefreshedBeside
<1>7. calls[c].plan = "pro" => ~calls[c].lapsed
  BY <1>1 DEF PlanInv, PlanTells, BegunInEra
<1>8. PlanIsStale'
  <2> SUFFICES ASSUME ~entitled, calls[c].plan = "pro", NEW p \in Calls, Refreshed(p)',
                      calls'[p].era = era
      PROVE  RefreshedBeside(p)'
    BY <1>1 DEF PlanIsStale
  <2>1. calls[c].era # era
    BY <1>1, <1>7 DEF PlanInv, PlanTells, BegunInEra
  <2>2. calls[p].pc # "new" /\ calls[p].era = era
    BY <1>1, <1>3 DEF Refreshed
  <2> QED BY <1>6, <2>1, <2>2
<1>9. ReloadTells'
  <2> SUFFICES ASSUME calls[c].plan = "pro", NEW p \in Calls, calls'[p].pc = "reload",
                      calls'[p].lapsed
      PROVE  RefreshedBeside(p)'
    BY <1>1 DEF ReloadTells
  <2>1. p # c /\ calls[p].pc = "reload" /\ calls[p].lapsed
    BY <1>3, <1>7
  <2>2. calls[p].era # calls[c].era
    BY <1>1, <1>7, <2>1 DEF PlanInv, PlanTells, BegunInEra
  <2> QED BY <1>6, <2>1, <2>2
<1>10. LatePlanIsByKey'
  <2> SUFFICES ASSUME NEW p \in Calls, calls'[p].lapsed, calls'[p].plan = "pro"
      PROVE IF calls'[p].kind = "gateway"
            THEN \A b \in calls'[p].before :
                   calls'[b].kind \in SiteKinds /\ calls'[b].era = calls'[p].era
                     /\ calls'[b].out # "failed" => RefreshedBeside(b)'
            ELSE RefreshedBeside(p)'
    BY DEF LatePlanIsByKey
  <2>1. calls[p].lapsed /\ calls[p].plan = "pro" /\ calls[p].pc # "new"
    BY <1>3 DEF PlanInv, PlanTells, BegunInEra
  <2> QED BY <1>4, <2>1, LateStays
<1> QED BY <1>5, <1>8, <1>9, <1>10 DEF PlanTells

LEMMA StepsByPlan ==
  ASSUME PlanInv, NEW c \in Calls, CallSteps(c), ~UpdatePlan(c)
  PROVE  PlanTells'
<1>1. /\ UsageOK /\ calls \in [Calls -> Call] /\ calls[c] \in Call
      /\ UNCHANGED <<era, entitled, userPlan>> /\ calls[c].pc \notin {"new", "done"}
  BY DEF PlanInv, UsageInv, UsageOK, CallSteps, LoadUser, ReadPurchases, ReadWeek, ReadDay,
         Answered, AnsweredUnmeasured, Count, CountFails, CallFails
<1>2. UsageOK'
  <2>1. UsageNext
    BY DEF UsageNext
  <2> QED BY <2>1, UsageNextKeeps DEF PlanInv, UsageInv
<1>3. CASE \E out \in {"refused", "failed", "uncounted", "answered"} : CallEnds(c, out)
  <2>1. PICK out \in {"refused", "failed", "uncounted", "answered"} : CallEnds(c, out)
    BY <1>3
  <2>2. calls' = [calls EXCEPT ![c] = Left(c, out)]
    BY <2>1 DEF CallEnds, Left
  <2>3. Left(c, out).out = out /\ Left(c, out).pc = "done" /\ calls'[c] = Left(c, out)
    BY <1>1, <2>2, LeftIsCall
  <2>4. out # "failed" => calls[c].pc # "refresh"
    <3> SUFFICES ASSUME out # "failed", calls[c].pc = "refresh" PROVE FALSE
      OBVIOUS
    <3>1. CallFails(c)
      BY <1>1 DEF CallSteps, LoadUser, ReadPurchases, ReadWeek, ReadDay,
             Answered, AnsweredUnmeasured, Count, CountFails
    <3>2. calls'[c].out = "failed"
      BY <1>1, <3>1, LeftIsCall DEF CallFails, CallEnds, Left
    <3> QED BY <2>3, <3>2
  <2> QED BY <1>1, <2>2, <2>3, <2>4, LeftIsCall, GoesOnKeeps
<1>4. CASE ~\E out \in {"refused", "failed", "uncounted", "answered"} : CallEnds(c, out)
  <2>1. LoadUser(c) \/ ReadPurchases(c) \/ ReadWeek(c) \/ ReadDay(c) \/ Answered(c) \/ Count(c)
    BY <1>4 DEF CallSteps, AnsweredUnmeasured, CountFails, CallFails
  <2>2. /\ calls' = [calls EXCEPT ![c] = calls'[c]] /\ calls[c].pc # "refresh"
        /\ calls'[c].kind = calls[c].kind /\ calls'[c].era = calls[c].era
        /\ calls'[c].before = calls[c].before /\ calls'[c].lapsed = calls[c].lapsed
        /\ calls'[c].pc \notin {"new", "refresh", "reload"}
        /\ \/ calls'[c].plan = calls[c].plan
           \/ calls'[c].plan = userPlan /\ calls[c].pc = "reload"
    <3>1. CASE ReadPurchases(c)
      <4>1. PICK q : /\ calls' = [calls EXCEPT ![c].pc = q.pc, ![c].seen = q.seen]
                     /\ q.pc \in {"ask", "daily", "week"} /\ calls[c].pc = "purchases"
        <5>1. PICK bought \in 0..MaxBought :
                LET total == IncludedCredit(calls[c].plan) + bought IN
                calls' = [calls EXCEPT ![c].pc = IF total = 0 THEN CreditGiven(c) ELSE "week",
                                       ![c].seen = total]
          BY <3>1 DEF ReadPurchases
        <5> DEFINE total == IncludedCredit(calls[c].plan) + bought
                   q == [pc |-> IF total = 0 THEN CreditGiven(c) ELSE "week", seen |-> total]
        <5>2. q.pc \in {"ask", "daily", "week"} /\ calls[c].pc = "purchases"
          BY <3>1 DEF ReadPurchases, CreditGiven
        <5> QED BY <5>1, <5>2
      <4> QED BY <1>1, <4>1 DEF Call
    <3>2. CASE ReadWeek(c)
      BY <1>1, <1>4, <3>2 DEF ReadWeek, CreditGiven, Call
    <3>3. CASE ReadDay(c)
      BY <1>1, <1>4, <3>3 DEF ReadDay, Call
    <3>4. CASE Answered(c)
      <4>1. PICK n \in Researched(c) :
              \E t \in IF calls[c].kind = "research" THEN {0} ELSE 1..MaxTokens :
                calls' = [calls EXCEPT ![c].pc = "count", ![c].research = n, ![c].tokens = t,
                                       ![c].date = day]
        BY <3>4 DEF Answered
      <4>2. PICK t : calls' = [calls EXCEPT ![c].pc = "count", ![c].research = n,
                                            ![c].tokens = t, ![c].date = day]
        BY <4>1
      <4> QED BY ZenonT(60), <1>1, <3>4, <4>2 DEF Answered, Call
    <3>5. CASE Count(c)
      BY <1>1, <3>5 DEF Count, Call
    <3>6. CASE LoadUser(c)
      BY <1>1, <1>4, <3>6 DEF LoadUser, Call
    <3> QED BY <2>1, <3>1, <3>2, <3>3, <3>4, <3>5, <3>6
  <2>3. calls'[c] \in Call
    BY <1>2 DEF UsageOK
  <2> QED BY <1>1, <2>2, <2>3, GoesOnKeeps
<1> QED BY <1>3, <1>4

LEMMA PlanNextKeeps == PlanInv /\ [UsageNext]_usageVars => PlanInv'
<1> SUFFICES ASSUME PlanInv, [UsageNext]_usageVars PROVE PlanInv'
  OBVIOUS
<1>0. UsageInv' /\ era \in Nat
  BY UsageNextKeeps, UsageAssumption DEF PlanInv, UsageInv, UsageOK
<1>1. CASE UNCHANGED <<era, entitled, userPlan, calls>>
  BY <1>0, <1>1 DEF PlanInv, PlanTells, BegunInEra, PlanIsStale, ReloadTells, Refreshed,
                    RefreshedBeside, LatePlanIsByKey
<1>2. CASE \E c \in Calls : CallBegins(c) \/ CallSteps(c)
  BY <1>0, <1>2, BeginsByPlan, StepsByPlan, UpdatesByPlan DEF PlanInv
<1>3. CASE Subscribe \/ Lapse
  <2>1. calls' = calls /\ userPlan' = userPlan /\ era' = era + 1
    BY <1>3 DEF Subscribe, Lapse
  <2>2. \A q \in Calls : calls[q].pc # "new" => calls[q].era <= era /\ calls[q].era \in Nat
    BY DEF PlanInv, PlanTells, BegunInEra, UsageInv, UsageOK, Call
  <2>3. \A q \in Calls : calls[q].pc # "new" => calls[q].era <= era' /\ calls[q].era # era'
    BY <1>0, <2>1, <2>2
  <2>4. BegunInEra'
    BY <2>1, <2>3 DEF PlanInv, PlanTells, BegunInEra
  <2>5. PlanIsStale'
    BY <2>1, <2>3 DEF PlanIsStale, Refreshed
  <2>6. ReloadTells' /\ LatePlanIsByKey'
    BY <2>1 DEF PlanInv, PlanTells, ReloadTells, RefreshedBeside, LatePlanIsByKey
  <2> QED BY <1>0, <2>4, <2>5, <2>6 DEF PlanInv, PlanTells
<1>4. CASE \E k \in ApiKeys : CreateKey(k) \/ RevokeKey(k)
  BY <1>1, <1>4 DEF CreateKey, RevokeKey
<1>5. CASE NextDay
  BY <1>1, <1>5 DEF NextDay
<1>6. CASE UNCHANGED usageVars
  BY <1>1, <1>6 DEF usageVars
<1> QED BY <1>2, <1>3, <1>4, <1>5, <1>6 DEF UsageNext

\* AuthenticateUserAPIKey takes users.plan as it is, so a plan may outlive its end for keys
\* until the site is used; and refreshUserEntitlement writes what it read a statement ago, so
\* it may come back, but only where refreshes overlap, for any number of calls.
THEOREM LatePlans == UsageSpec => []LatePlanIsByKey
<1>1. UsageInit => PlanInv
  BY InitUsageInv DEF UsageInit, PlanInv, PlanTells, BegunInEra, PlanIsStale, ReloadTells,
                      Refreshed, LatePlanIsByKey, NewCall, Entitled
<1> QED BY <1>1, PlanNextKeeps, PTL DEF UsageSpec, PlanInv, PlanTells

-----------------------------------------------------------------------------
(* Usage: the credit of a week.                                            *)

\* The tokens that calls T have of the calls S.
TokensIn(T, S) == {p \in S \X (1..MaxTokens) : p[2] <= T[p[1]].tokens}

LEMMA TokensAreFinite ==
  ASSUME NEW T, NEW S \in SUBSET Calls
  PROVE  IsFiniteSet(TokensIn(T, S)) /\ Cardinality(TokensIn(T, S)) \in Nat
<1>1. IsFiniteSet(S) /\ IsFiniteSet(1..MaxTokens)
  BY CountedIsFinite, FS_Interval, UsageAssumption
<1>2. IsFiniteSet(S \X (1..MaxTokens))
  BY <1>1, FS_Product
<1>3. TokensIn(T, S) \subseteq S \X (1..MaxTokens)
  BY DEF TokensIn
<1> QED BY <1>2, <1>3, FS_Subset, FS_CardinalityType

\* A call more has its tokens more.
LEMMA TokensAdd ==
  ASSUME NEW T, NEW S \in SUBSET Calls, NEW c \in Calls, c \notin S, T[c].tokens \in 0..MaxTokens
  PROVE  Cardinality(TokensIn(T, S \cup {c})) = Cardinality(TokensIn(T, S)) + T[c].tokens
<1> DEFINE own == {c} \X (1..T[c].tokens)
<1>1. PICK n \in 0..MaxTokens : n = T[c].tokens
  OBVIOUS
<1>2. TokensIn(T, S \cup {c}) = TokensIn(T, S) \cup own
  <2>1. ASSUME NEW p PROVE p \in TokensIn(T, S \cup {c}) => p \in TokensIn(T, S) \cup own
    BY <1>1, UsageAssumption DEF TokensIn
  <2>2. ASSUME NEW p PROVE p \in TokensIn(T, S) \cup own => p \in TokensIn(T, S \cup {c})
    BY <1>1, UsageAssumption DEF TokensIn
  <2> QED BY <2>1, <2>2
<1>3. TokensIn(T, S) \cap own = {}
  <2> SUFFICES ASSUME NEW p, p \in TokensIn(T, S), p \in own PROVE FALSE
    OBVIOUS
  <2>1. p[1] \in S /\ p[1] = c
    BY DEF TokensIn
  <2> QED BY <2>1
<1>4. IsFiniteSet(own) /\ Cardinality(own) = T[c].tokens
  <2>1. IsFiniteSet({c}) /\ Cardinality({c}) = 1
    BY FS_Singleton
  <2>2. IsFiniteSet(1..n) /\ Cardinality(1..n) = n
    <3>1. n \in Nat
      BY <1>1, UsageAssumption
    <3>2. IsFiniteSet(1..n) /\ Cardinality(1..n) = IF 1 > n THEN 0 ELSE n - 1 + 1
      BY <3>1, FS_Interval
    <3> QED BY <3>1, <3>2
  <2>3. IsFiniteSet(own) /\ Cardinality(own) = 1 * n
    <3>1. own = {c} \X (1..n)
      BY <1>1
    <3>2. /\ IsFiniteSet({c} \X (1..n))
          /\ Cardinality({c} \X (1..n)) = Cardinality({c}) * Cardinality(1..n)
      BY <2>1, <2>2, FS_Product
    <3> QED BY <3>1, <3>2, <2>1, <2>2
  <2> QED BY <2>3, <1>1, UsageAssumption
<1>5. IsFiniteSet(TokensIn(T, S)) /\ Cardinality(TokensIn(T, S)) \in Nat
  BY TokensAreFinite
<1>6. Cardinality(TokensIn(T, S) \cap own) = 0
  BY <1>3, FS_EmptySet
<1>7. Cardinality(TokensIn(T, S) \cup own)
        = Cardinality(TokensIn(T, S)) + Cardinality(own) - Cardinality(TokensIn(T, S) \cap own)
  BY <1>4, <1>5, FS_Union
<1> HIDE DEF own
<1>8. Cardinality(TokensIn(T, S) \cup own) = Cardinality(TokensIn(T, S)) + T[c].tokens
  BY <1>1, <1>4, <1>5, <1>6, <1>7, UsageAssumption
<1> QED BY <1>2, <1>8

\* The week is not known before it was read.
PaidLater == \A c \in Calls : calls[c].pc \in {"new", "refresh", "reload", "purchases", "week"} => calls[c].paid = 0

CreditInv == UsageInv /\ PaidLater /\ CreditOverrun

\* A call moves without being counted, and is held to a week only if that has credit left.
LEMMA CreditMoves ==
  ASSUME CreditInv, NEW c \in Calls, NEW q \in Call,
         calls[c].pc # "done", calls' = [calls EXCEPT ![c] = q], q.out # "counted",
         q.pc \in {"new", "refresh", "reload", "purchases", "week"} => q.paid = 0,
         \/ q.paid = 0
         \/ q.paid = calls[c].paid /\ q.seen = calls[c].seen /\ q.before = calls[c].before
         \/ q.paid \in Days /\ spent[q.paid] < q.seen,
         UNCHANGED spent
  PROVE  (PaidLater /\ CreditOverrun)'
<1>1. calls \in [Calls -> Call] /\ spent \in [Days -> Nat] /\ calls[c].out = "none"
  BY DEF CreditInv, UsageInv, UsageOK, Histories, Call
<1>2. calls'[c] = q /\ \A p \in Calls \ {c} : calls'[p] = calls[p]
  BY <1>1
<1>3. ASSUME NEW w PROVE CountedIn(w)' = CountedIn(w) /\ c \notin CountedIn(w)
  BY <1>1, <1>2 DEF CountedIn
<1>4. \A w, B : TokensIn(calls', CountedIn(w)' \ B) = TokensIn(calls, CountedIn(w) \ B)
  BY <1>2, <1>3 DEF TokensIn, CountedIn
<1>5. PaidLater'
  BY <1>2 DEF CreditInv, PaidLater
<1>6. CreditOverrun'
  <2> SUFFICES ASSUME NEW p \in Calls, calls'[p].paid # 0
      PROVE spent'[calls'[p].paid]
              < calls'[p].seen + TokensOf(CountedIn(calls[p].paid) \ calls[p].before)'
    BY DEF CreditOverrun
  <2>3. TokensOf(CountedIn(calls[p].paid) \ calls[p].before)'
          = Cardinality(TokensIn(calls, CountedIn(calls'[p].paid) \ calls'[p].before))
    BY <1>4 DEF TokensOf, TokensIn
  <2>1. CASE /\ calls'[p].paid = calls[p].paid /\ calls'[p].seen = calls[p].seen
             /\ calls'[p].before = calls[p].before
    BY <2>1, <2>3 DEF CreditInv, CreditOverrun, TokensOf, TokensIn
  <2>2. CASE p = c /\ q.paid \in Days /\ spent[q.paid] < q.seen
    <3> DEFINE n == Cardinality(TokensIn(calls, CountedIn(q.paid) \ q.before))
    <3>1. n \in Nat
      BY TokensAreFinite DEF CountedIn
    <3>2. spent[q.paid] \in Nat /\ q.seen \in Nat
      BY <2>2, <1>1 DEF Call
    <3> HIDE DEF n
    <3>3. spent[q.paid] < q.seen + n
      BY <2>2, <3>1, <3>2
    <3> QED BY <2>2, <2>3, <3>3, <1>2 DEF n
  <2> QED BY <2>1, <2>2, <1>2
<1> QED BY <1>5, <1>6

LEMMA CreditRests ==
  ASSUME CreditInv, UNCHANGED <<calls, spent>>
  PROVE  (PaidLater /\ CreditOverrun)'
BY DEF CreditInv, PaidLater, CreditOverrun, CountedIn, TokensOf

LEMMA CreditLeaves ==
  ASSUME CreditInv, NEW c \in Calls, NEW out \in {"refused", "failed", "uncounted", "answered"},
         calls[c].pc # "done", CallEnds(c, out), UNCHANGED spent
  PROVE  (PaidLater /\ CreditOverrun)'
<1>1. calls' = [calls EXCEPT ![c] = Left(c, out)] /\ UsageOK
  BY DEF CallEnds, Left, CreditInv, UsageInv
<1>2. Left(c, out) \in Call /\ Left(c, out).out = out
  BY <1>1, LeftIsCall
<1>3. Left(c, out).paid = 0
  BY <1>1, NewCalls DEF Left, Call, NewCall
<1> QED BY <1>1, <1>2, <1>3, CreditMoves

\* A call is counted: the week and the calls that were not over grow by its tokens.
LEMMA CreditCounts ==
  ASSUME CreditInv, NEW c \in Calls, Count(c)
  PROVE  (PaidLater /\ CreditOverrun)'
<1> DEFINE q == [calls[c] EXCEPT !.pc = "done", !.out = "counted", !.week = WeekOf(day)]
<1>1. /\ UsageOK /\ calls \in [Calls -> Call] /\ spent \in [Days -> Nat] /\ calls[c] \in Call
      /\ calls[c].pc = "count" /\ calls[c].out = "none"
  BY DEF CreditInv, UsageInv, UsageOK, Histories, Call, Count
<1>2. PICK w \in Days : w = WeekOf(day)
  BY <1>1, WeeksAreDays DEF UsageOK
<1>3. calls' = [calls EXCEPT ![c] = q]
  BY <1>1 DEF Count
<1>4. /\ q.out = "counted" /\ q.week = w /\ q.pc = "done" /\ q.paid = calls[c].paid
      /\ q.seen = calls[c].seen /\ q.before = calls[c].before /\ q.tokens = calls[c].tokens
  BY <1>1, <1>2 DEF Call
<1> HIDE DEF q
<1>5. calls'[c] = q /\ \A p \in Calls \ {c} : calls'[p] = calls[p]
  BY <1>1, <1>3
<1>6. \A p \in Calls : /\ calls'[p].paid = calls[p].paid /\ calls'[p].seen = calls[p].seen
                       /\ calls'[p].before = calls[p].before
                       /\ calls'[p].tokens = calls[p].tokens
                       /\ calls[p].before \in SUBSET Calls /\ c \notin calls[p].before
                       /\ calls[p].paid \in 0..LastDay /\ calls[p].seen \in Nat
                       /\ calls[p].tokens \in 0..MaxTokens
  BY <1>1, <1>4, <1>5 DEF CreditInv, UsageInv, Histories, Call
<1>7. ASSUME NEW S \in SUBSET Calls PROVE TokensIn(calls', S) = TokensIn(calls, S)
  BY <1>6 DEF TokensIn
<1>8. /\ c \notin CountedIn(w) /\ CountedIn(w)' = CountedIn(w) \cup {c}
      /\ \A x \in Days \ {w} : CountedIn(x)' = CountedIn(x)
      /\ \A x : CountedIn(x) \in SUBSET Calls
  BY <1>1, <1>4, <1>5 DEF CountedIn
<1>9. /\ spent'[w] = spent[w] + calls[c].tokens
      /\ \A x \in Days \ {w} : spent'[x] = spent[x]
  BY <1>1, <1>2 DEF Count
<1>10. PaidLater'
  BY <1>4, <1>5 DEF CreditInv, PaidLater
<1>11. CreditOverrun'
  <2> SUFFICES ASSUME NEW p \in Calls, calls'[p].paid # 0
      PROVE spent'[calls'[p].paid]
              < calls'[p].seen + TokensOf(CountedIn(calls[p].paid) \ calls[p].before)'
    BY DEF CreditOverrun
  <2>1. PICK a \in Days : a = calls[p].paid
    BY <1>6, UsageAssumption DEF Days
  <2>2. PICK B \in SUBSET Calls : B = calls[p].before /\ B = calls'[p].before /\ c \notin B
    BY <1>6
  <2>3. PICK n \in Nat : n = Cardinality(TokensIn(calls, CountedIn(a) \ B))
    BY <1>8, TokensAreFinite
  <2>4. spent[a] \in Nat /\ calls[p].seen \in Nat /\ calls[c].tokens \in Nat
    BY <1>1, <1>6, UsageAssumption
  <2>5. spent[a] < calls[p].seen + n
    BY <1>6, <2>1, <2>2, <2>3 DEF CreditInv, CreditOverrun, TokensOf, TokensIn
  <2> DEFINE m == Cardinality(TokensIn(calls', CountedIn(a)' \ B))
  <2>6. ASSUME a = w PROVE m = n + calls[c].tokens
    <3>1. CountedIn(a)' \ B = (CountedIn(a) \ B) \cup {c}
      BY <1>8, <2>2, <2>6
    <3>2. m = Cardinality(TokensIn(calls, (CountedIn(a) \ B) \cup {c}))
      BY <3>1, <1>7, <1>8
    <3>3. CountedIn(a) \ B \in SUBSET Calls /\ c \notin CountedIn(a) \ B
      BY <1>8, <2>6
    <3> QED BY <3>2, <3>3, <2>3, <1>6, TokensAdd
  <2>7. ASSUME a # w PROVE m = n
    BY <2>7, <2>3, <1>7, <1>8
  <2> HIDE DEF m
  <2>8. spent'[a] < calls[p].seen + m
    BY <2>3, <2>4, <2>5, <2>6, <2>7, <1>9
  <2>9. m = TokensOf(CountedIn(calls[p].paid) \ calls[p].before)'
    BY <1>6, <2>1, <2>2 DEF m, TokensOf, TokensIn
  <2> QED BY <2>8, <2>9, <2>1, <1>6
<1> QED BY <1>10, <1>11

LEMMA CreditSteps ==
  ASSUME CreditInv, NEW c \in Calls, CallBegins(c) \/ CallSteps(c)
  PROVE  (PaidLater /\ CreditOverrun)'
<1>1. /\ UsageOK /\ calls \in [Calls -> Call] /\ calls[c] \in Call /\ spent \in [Days -> Nat]
      /\ \A p \in Calls : calls[p].pc # "done" => calls[p].out = "none"
      /\ day \in Days /\ WeekOf(day) \in Days
  BY WeeksAreDays DEF CreditInv, UsageInv, UsageOK, Histories
<1>2. UsageOK'
  <2>1. UsageNext
    BY DEF UsageNext
  <2> QED BY <2>1, UsageNextKeeps DEF CreditInv, UsageInv
<1>3. CASE CallBegins(c)
  <2>1. PICK kind \in CallKinds, plan \in Plans, pc \in {"refresh", "purchases"} :
          calls' = [calls EXCEPT ![c] = Begun(kind, plan, pc)]
    BY <1>1, <1>3 DEF CallBegins, CallBySession, CallByKey, CallKinds, Plans, Entitled, UsageOK
  <2>2. calls[c].pc = "new" /\ UNCHANGED spent
    BY <1>3 DEF CallBegins, CallBySession, CallByKey
  <2>3. Begun(kind, plan, pc) \in Call /\ Begun(kind, plan, pc).out = "none"
    BY <1>1, BegunIsCall
  <2>4. Begun(kind, plan, pc).paid = 0
    BY <1>1, NewCalls DEF Begun, Call, NewCall
  <2> QED BY <2>1, <2>2, <2>3, <2>4, CreditMoves
<1>4. CASE \E out \in {"refused", "failed", "uncounted", "answered"} : CallEnds(c, out)
           /\ calls[c].pc # "done" /\ UNCHANGED spent
  BY <1>4, CreditLeaves
<1>5. CASE ReadPurchases(c)
  <2>0. PICK bought \in 0..MaxBought :
          LET total == IncludedCredit(calls[c].plan) + bought IN
          calls' = [calls EXCEPT ![c].pc = IF total = 0 THEN CreditGiven(c) ELSE "week",
                                 ![c].seen = total]
    BY <1>5 DEF ReadPurchases
  <2> DEFINE total == IncludedCredit(calls[c].plan) + bought
             q == [calls[c] EXCEPT !.pc = IF total = 0 THEN CreditGiven(c) ELSE "week",
                                   !.seen = total]
  <2>1. calls' = [calls EXCEPT ![c] = q] /\ calls[c].pc = "purchases" /\ UNCHANGED spent
    BY <1>1, <1>5, <2>0 DEF ReadPurchases
  <2>2. q \in Call
    BY <1>1, <1>2, <2>1 DEF UsageOK
  <2>3. q.paid = 0 /\ q.out = "none"
    BY <1>1, <2>1 DEF CreditInv, PaidLater, Call
  <2> HIDE DEF q
  <2> QED BY <2>1, <2>2, <2>3, CreditMoves
<1>6. CASE ReadWeek(c) /\ spent[WeekOf(day)] < calls[c].seen
  <2> DEFINE q == [calls[c] EXCEPT !.pc = CreditGiven(c), !.paid = WeekOf(day)]
  <2>1. calls' = [calls EXCEPT ![c] = q] /\ calls[c].pc = "week" /\ UNCHANGED spent
    BY <1>1, <1>6 DEF ReadWeek
  <2>2. q \in Call
    BY <1>1, <1>2, <2>1 DEF UsageOK
  <2>3. /\ q.paid = WeekOf(day) /\ q.seen = calls[c].seen /\ q.out = "none"
        /\ q.pc \in {"ask", "daily"}
    BY <1>1, <2>1 DEF Call, CreditGiven
  <2> HIDE DEF q
  <2> QED BY <1>1, <1>6, <2>1, <2>2, <2>3, CreditMoves
<1>7. CASE ReadDay(c) /\ Within(c, daily[day])
  <2> DEFINE q == [calls[c] EXCEPT !.pc = "ask", !.asked = day]
  <2>1. calls' = [calls EXCEPT ![c] = q] /\ calls[c].pc = "daily" /\ UNCHANGED spent
    BY <1>1, <1>7 DEF ReadDay
  <2>2. q \in Call
    BY <1>1, <1>2, <2>1 DEF UsageOK
  <2>3. /\ q.paid = calls[c].paid /\ q.seen = calls[c].seen /\ q.before = calls[c].before
        /\ q.out = "none" /\ q.pc = "ask"
    BY <1>1, <2>1 DEF Call
  <2> HIDE DEF q
  <2> QED BY <2>1, <2>2, <2>3, CreditMoves
<1>8. CASE Answered(c)
  <2>1. PICK n \in Researched(c) :
          \E t \in IF calls[c].kind = "research" THEN {0} ELSE 1..MaxTokens :
            calls' = [calls EXCEPT ![c].pc = "count", ![c].research = n, ![c].tokens = t,
                                   ![c].date = day]
    BY <1>8 DEF Answered
  <2>2. PICK t : calls' = [calls EXCEPT ![c].pc = "count", ![c].research = n,
                                        ![c].tokens = t, ![c].date = day]
    BY <2>1
  <2> DEFINE q == [calls[c] EXCEPT !.pc = "count", !.research = n, !.tokens = t, !.date = day]
  <2>3. calls' = [calls EXCEPT ![c] = q] /\ calls[c].pc = "ask" /\ UNCHANGED spent
    BY <1>1, <1>8, <2>2 DEF Answered
  <2>4. q \in Call
    BY <1>1, <1>2, <2>3 DEF UsageOK
  <2>5. /\ q.paid = calls[c].paid /\ q.seen = calls[c].seen /\ q.before = calls[c].before
        /\ q.out = "none" /\ q.pc = "count"
    BY <1>1, <2>3 DEF Call
  <2> HIDE DEF q
  <2> QED BY <2>3, <2>4, <2>5, CreditMoves
<1>9. CASE Count(c)
  BY <1>9, CreditCounts
<1>12. CASE UpdatePlan(c)
  <2> DEFINE q == [calls[c] EXCEPT !.pc = "reload"]
  <2>1. calls' = [calls EXCEPT ![c] = q] /\ calls[c].pc = "refresh" /\ UNCHANGED spent
    BY <1>1, <1>12 DEF UpdatePlan
  <2>2. q \in Call
    BY <1>1, <1>2, <2>1 DEF UsageOK
  <2>3. q.paid = 0 /\ q.out = "none"
    BY <1>1, <2>1 DEF CreditInv, PaidLater, Call
  <2> HIDE DEF q
  <2> QED BY <2>1, <2>2, <2>3, CreditMoves
<1>13. CASE LoadUser(c) /\ calls[c].kind # "account"
  <2> DEFINE q == [calls[c] EXCEPT !.pc = "purchases", !.plan = userPlan]
  <2>1. calls' = [calls EXCEPT ![c] = q] /\ calls[c].pc = "reload" /\ UNCHANGED spent
    BY <1>1, <1>13 DEF LoadUser
  <2>2. q \in Call
    BY <1>1, <1>2, <2>1 DEF UsageOK
  <2>3. q.paid = 0 /\ q.out = "none"
    BY <1>1, <2>1 DEF CreditInv, PaidLater, Call
  <2> HIDE DEF q
  <2> QED BY <2>1, <2>2, <2>3, CreditMoves
<1>10. CASE /\ CallSteps(c)
            /\ ~\E out \in {"refused", "failed", "uncounted", "answered"} : CallEnds(c, out)
  BY <1>5, <1>6, <1>7, <1>8, <1>9, <1>10, <1>12, <1>13
     DEF CallSteps, LoadUser, AnsweredUnmeasured, CountFails, CallFails, ReadWeek, ReadDay
<1>11. CASE /\ CallSteps(c) /\ ~Count(c)
            /\ \E out \in {"refused", "failed", "uncounted", "answered"} : CallEnds(c, out)
  <2>1. calls[c].pc # "done" /\ UNCHANGED spent
    BY <1>11 DEF CallSteps, UpdatePlan, LoadUser, ReadPurchases, ReadWeek, ReadDay, Answered, AnsweredUnmeasured,
                 CountFails, CallFails
  <2> QED BY <1>4, <1>11, <2>1
<1> QED BY <1>3, <1>9, <1>10, <1>11

\* Who is held to the credit of a week gets beyond it only by calls that were at work at
\* the same time, and by what the last call costs more than was left (checkUserQuota,
\* IncrementDailyUsage).
THEOREM CreditHolds == UsageSpec => []CreditOverrun
<1>1. UsageInit => CreditInv
  BY InitUsageInv DEF UsageInit, CreditInv, PaidLater, CreditOverrun, NewCall
<1>2. CreditInv /\ [UsageNext]_usageVars => CreditInv'
  <2> SUFFICES ASSUME CreditInv, [UsageNext]_usageVars PROVE CreditInv'
    OBVIOUS
  <2>1. UsageInv'
    BY UsageNextKeeps DEF CreditInv
  <2>2. CASE \E c \in Calls : CallBegins(c) \/ CallSteps(c)
    BY <2>1, <2>2, CreditSteps DEF CreditInv
  <2>3. CASE UNCHANGED <<calls, spent>>
    BY <2>1, <2>3, CreditRests DEF CreditInv
  <2> QED BY <2>2, <2>3 DEF UsageNext, usageVars, CreateKey, RevokeKey, NextDay,
                            Subscribe, Lapse
<1> QED BY <1>1, <1>2, PTL DEF UsageSpec, CreditInv

-----------------------------------------------------------------------------
(* Guests: the chats of one cookie.                                        *)

GuestWaits(g) == guestChats[g].pc \in {"sent", "answering"}
GuestCounts(g) == IF guestChats[g].pc = "answering" THEN 1 ELSE 0

\* A chat that is under way knows of all that count: who was served since it was sent
\* overlaps it.  One sent with an earlier cookie was sent before all chats of this one.
GuestsTell ==
  \A g \in GuestChats :
    /\ guestChats[g].of <= cookies
    /\ guestChats[g].out = "served" => guestChats[g].pc = "done"
    /\ \A q \in guestChats[g].before :
         guestChats[q].pc = "done" /\ guestChats[q].of <= guestChats[g].of
    /\ GuestWaits(g) => guestChats[g].used <= GuestLimit
    /\ GuestWaits(g) /\ guestChats[g].of = cookies =>
         Cardinality(ServedAlone) + GuestCounts(g) <= guestChats[g].used

GuestIInv == GuestInv /\ GuestsTell

LEMMA AloneIsFinite ==
  ASSUME NEW S \in SUBSET GuestChats
  PROVE  /\ IsFiniteSet(S) /\ Cardinality(S) \in Nat
         /\ \A T \in SUBSET S : Cardinality(T) <= Cardinality(S)
         /\ \A g : Cardinality(S \cup {g}) <= Cardinality(S) + 1
<1>1. IsFiniteSet(S) /\ Cardinality(S) \in Nat
  BY GuestAssumption, FS_Subset, FS_CardinalityType
<1>2. \A T \in SUBSET S : Cardinality(T) <= Cardinality(S)
  BY <1>1, FS_Subset
<1>3. ASSUME NEW g PROVE Cardinality(S \cup {g}) <= Cardinality(S) + 1
  BY <1>1, FS_AddElement
<1> QED BY <1>1, <1>2, <1>3

\* What one chat does to those that were had alone.
LEMMA AloneGrowsByServed ==
  ASSUME GuestIInv, NEW g \in GuestChats, NEW r \in GuestChat,
         guestChats' = [guestChats EXCEPT ![g] = r], guestChats[g].pc # "done", r.pc # "new",
         guestChats[g].pc # "new" =>
           r.before = guestChats[g].before /\ r.of = guestChats[g].of,
         guestChats[g].pc = "new" => r.out # "served",
         cookies' = cookies
  PROVE  /\ ServedAlone' \subseteq ServedAlone \cup {g}
         /\ r.out # "served" \/ r.of # cookies => ServedAlone' \subseteq ServedAlone
         /\ \A h \in GuestChats \ {g} : GuestWaits(h) => ServedAlone' \subseteq ServedAlone
<1>1. guestChats \in [GuestChats -> GuestChat]
  BY DEF GuestIInv, GuestInv, GuestOK
<1>2. guestChats'[g] = r /\ \A h \in GuestChats \ {g} : guestChats'[h] = guestChats[h]
  BY <1>1
<1>3. \A h \in GuestChats : g \notin guestChats[h].before
  BY DEF GuestIInv, GuestsTell
<1>4. ASSUME NEW p \in GuestChats, NEW q \in GuestChats, GuestsOverlap(p, q)
      PROVE  GuestsOverlap(p, q)'
  BY <1>2, <1>4 DEF GuestsOverlap
<1>5. ServedAlone' \subseteq ServedAlone \cup {g}
  BY <1>2, <1>4 DEF ServedAlone
<1>6. r.out # "served" \/ r.of # cookies => g \notin ServedAlone'
  BY <1>2 DEF ServedAlone
<1>7. ASSUME NEW h \in GuestChats \ {g}, GuestWaits(h) PROVE g \notin ServedAlone'
  <2>1. CASE guestChats[g].pc # "new"
    <3>1. h \notin guestChats[g].before
      BY <1>7 DEF GuestIInv, GuestsTell, GuestWaits
    <3>2. GuestsOverlap(g, h)
      BY <1>3, <1>7, <2>1, <3>1 DEF GuestsOverlap, GuestWaits
    <3> QED BY <1>4, <3>2 DEF ServedAlone
  <2>2. CASE guestChats[g].pc = "new"
    BY <1>6, <2>2
  <2> QED BY <2>1, <2>2
<1> QED BY <1>5, <1>6, <1>7

\* The others that are under way still know of all that count.
LEMMA GuestMoves ==
  ASSUME GuestIInv, NEW g \in GuestChats, NEW r \in GuestChat,
         guestChats' = [guestChats EXCEPT ![g] = r], guestChats[g].pc # "done", r.pc # "new",
         guestChats[g].pc # "new" =>
           r.before = guestChats[g].before /\ r.of = guestChats[g].of,
         guestChats[g].pc = "new" =>
           /\ r.before = {q \in GuestChats : guestChats[q].pc = "done"}
           /\ r.of = cookies,
         r.out = "served" => r.pc = "done" /\ guestChats[g].pc = "answering",
         r.pc = "answering" => r.used <= GuestLimit,
         r.pc = "sent" => r.used <= GuestLimit,
         r.pc \in {"sent", "answering"} /\ r.of = cookies =>
           Cardinality(ServedAlone) + (IF r.pc = "answering" THEN 1 ELSE 0) <= r.used,
         \/ cookie' = cookie /\ r.out # "served"
         \/ cookie' = guestChats[g].used /\ guestChats[g].pc = "answering" /\ r.pc = "done",
         cookies' = cookies, guestSlips' \in 0..MaxGuestSlips
  PROVE  GuestIInv'
<1>1. /\ guestChats \in [GuestChats -> GuestChat] /\ GuestOK
      /\ guestChats[g] \in GuestChat
  BY DEF GuestIInv, GuestInv, GuestOK
<1>2. guestChats'[g] = r /\ \A h \in GuestChats \ {g} : guestChats'[h] = guestChats[h]
  BY <1>1
<1>3. ServedAlone \in SUBSET GuestChats /\ ServedAlone' \in SUBSET GuestChats
  BY DEF ServedAlone
<1>4. /\ ServedAlone' \subseteq ServedAlone \cup {g}
      /\ r.out # "served" \/ r.of # cookies => ServedAlone' \subseteq ServedAlone
      /\ \A h \in GuestChats \ {g} : GuestWaits(h) => ServedAlone' \subseteq ServedAlone
  BY AloneGrowsByServed
<1>5. PICK n \in Nat : n = Cardinality(ServedAlone)
  BY <1>3, AloneIsFinite
<1>6. PICK m \in Nat : m = Cardinality(ServedAlone')
  BY <1>3, AloneIsFinite
<1>7. m <= n + 1 /\ (ServedAlone' \subseteq ServedAlone => m <= n)
  <2>1. ServedAlone' \subseteq ServedAlone => m <= n
    BY <1>3, <1>5, <1>6, AloneIsFinite
  <2>2. ServedAlone \cup {g} \in SUBSET GuestChats /\ Cardinality(ServedAlone \cup {g}) <= n + 1
    BY <1>3, <1>5, AloneIsFinite
  <2>3. PICK k \in Nat : k = Cardinality(ServedAlone \cup {g})
    BY <2>2, AloneIsFinite
  <2>4. m <= k
    BY <1>4, <1>6, <2>2, <2>3, AloneIsFinite
  <2> QED BY <2>1, <2>2, <2>3, <2>4
<1>8. /\ cookie \in 0..GuestLimit /\ n <= cookie /\ GuestLimit \in Nat /\ cookies \in Nat
  BY <1>1, <1>5, GuestAssumption DEF GuestIInv, GuestInv, GuestsAreCounted, GuestOK
<1>9. cookie' \in 0..GuestLimit /\ m <= cookie'
  <2>1. CASE cookie' = cookie /\ r.out # "served"
    BY <2>1, <1>4, <1>5, <1>6, <1>7, <1>8
  <2>2. CASE cookie' = guestChats[g].used /\ guestChats[g].pc = "answering" /\ r.pc = "done"
    <3>1. guestChats[g].used \in 0..GuestLimit
      BY <1>1, <1>8, <2>2 DEF GuestIInv, GuestsTell, GuestWaits, GuestChat
    <3>2. CASE guestChats[g].of = cookies
      <4>1. n + 1 <= guestChats[g].used
        BY <2>2, <3>2, <1>5 DEF GuestIInv, GuestsTell, GuestWaits, GuestCounts
      <4> QED BY <2>2, <3>1, <4>1, <1>7
    <3>3. CASE guestChats[g].of # cookies
      <4>1. ServedAlone = {}
        <5> SUFFICES ASSUME NEW s \in ServedAlone PROVE FALSE
          OBVIOUS
        <5>1. /\ s \in GuestChats /\ guestChats[s].of = cookies /\ guestChats[s].pc = "done"
              /\ ~GuestsOverlap(s, g)
          BY DEF ServedAlone, GuestIInv, GuestsTell
        <5>2. guestChats[g].of \in Nat /\ guestChats[g].of < cookies
          BY <1>1, <1>8, <3>3, GuestAssumption DEF GuestIInv, GuestsTell, GuestChat
        <5>3. s \notin guestChats[g].before
          BY <5>1, <5>2, <1>8 DEF GuestIInv, GuestsTell
        <5>4. g \notin guestChats[s].before
          BY <5>1, <2>2 DEF GuestIInv, GuestsTell
        <5> QED BY <5>1, <5>3, <5>4, <2>2 DEF GuestsOverlap
      <4>2. ServedAlone' = {}
        BY <4>1, <1>4, <3>3, <2>2
      <4>3. m = 0
        BY <4>2, <1>6, FS_EmptySet
      <4> QED BY <4>3, <2>2, <3>1
    <3> QED BY <3>2, <3>3
  <2> QED BY <2>1, <2>2
<1>10. GuestInv'
  BY <1>1, <1>2, <1>6, <1>8, <1>9 DEF GuestInv, GuestOK, GuestsAreCounted
<1>11. GuestsTell'
  <2> SUFFICES ASSUME NEW h \in GuestChats
      PROVE (/\ guestChats[h].of <= cookies
             /\ guestChats[h].out = "served" => guestChats[h].pc = "done"
             /\ \A q \in guestChats[h].before :
                  guestChats[q].pc = "done" /\ guestChats[q].of <= guestChats[h].of
             /\ GuestWaits(h) => guestChats[h].used <= GuestLimit
             /\ GuestWaits(h) /\ guestChats[h].of = cookies =>
                  Cardinality(ServedAlone) + GuestCounts(h) <= guestChats[h].used)'
    BY DEF GuestsTell
  <2>1. \A p \in GuestChats : g \notin guestChats[p].before
    BY DEF GuestIInv, GuestsTell
  <2>2. CASE h # g
    <3>1. guestChats'[h] = guestChats[h] /\ guestChats[h] \in GuestChat
      BY <1>1, <1>2, <2>2
    <3>2. \A q \in guestChats[h].before : q \in GuestChats /\ q # g
      BY <2>1, <3>1 DEF GuestChat
    <3>3. (GuestWaits(h) <=> GuestWaits(h)') /\ GuestCounts(h)' = GuestCounts(h)
      BY <3>1 DEF GuestWaits, GuestCounts
    <3>4. GuestWaits(h) => m <= n
      BY <1>4, <1>7, <2>2
    <3>5. GuestCounts(h) \in {0, 1} /\ guestChats[h].used \in Nat
      BY <3>1, <1>8 DEF GuestCounts, GuestChat
    <3>6. GuestWaits(h) /\ guestChats[h].of = cookies =>
            m + GuestCounts(h) <= guestChats[h].used
      BY <3>4, <3>5, <1>5 DEF GuestIInv, GuestsTell
    <3>7. \A q \in guestChats'[h].before :
            guestChats'[q].pc = "done" /\ guestChats'[q].of <= guestChats'[h].of
      BY <3>1, <3>2, <1>2 DEF GuestIInv, GuestsTell
    <3> QED BY <3>1, <3>3, <3>6, <3>7, <1>6 DEF GuestIInv, GuestsTell
  <2>3. CASE h = g
    <3>1. guestChats'[g] = r /\ r.before \subseteq GuestChats /\ r.of <= cookies
      BY <1>2, <1>8, GuestAssumption DEF GuestChat, GuestIInv, GuestsTell
    <3>2. \A q \in r.before : q # g /\ guestChats[q].pc = "done" /\ guestChats[q].of <= r.of
      BY <3>1 DEF GuestIInv, GuestsTell
    <3>3. \A q \in r.before : guestChats'[q].pc = "done" /\ guestChats'[q].of <= r.of
      BY <3>1, <3>2, <1>2
    <3>4. GuestWaits(g)' <=> r.pc \in {"sent", "answering"}
      BY <3>1 DEF GuestWaits
    <3>5. GuestWaits(g)' => m <= n
      BY <3>4, <1>4, <1>7
    <3>6. GuestCounts(g)' = (IF r.pc = "answering" THEN 1 ELSE 0) /\ r.used \in Nat
      BY <3>1, <1>8 DEF GuestCounts, GuestChat
    <3>7. GuestWaits(g)' /\ r.of = cookies => m + GuestCounts(g)' <= r.used
      BY <3>4, <3>5, <3>6, <1>5
    <3> QED BY <2>3, <3>1, <3>3, <3>4, <3>7, <1>6
  <2> QED BY <2>2, <2>3
<1> QED BY <1>10, <1>11 DEF GuestIInv

LEMMA GuestNextKeeps == GuestIInv /\ [GuestNext]_guestVars => GuestIInv'
<1> SUFFICES ASSUME GuestIInv, [GuestNext]_guestVars PROVE GuestIInv'
  OBVIOUS
<1>0. /\ guestChats \in [GuestChats -> GuestChat] /\ guestSlips \in 0..MaxGuestSlips
      /\ cookie \in 0..GuestLimit /\ cookies \in 0..MaxCookies
      /\ Cardinality(ServedAlone) <= cookie
      /\ GuestLimit \in Nat /\ MaxCookies \in Nat /\ MaxGuestSlips \in Nat
  BY GuestAssumption DEF GuestIInv, GuestInv, GuestOK, GuestsAreCounted
<1>9. Cardinality(ServedAlone) \in Nat
  BY AloneIsFinite DEF ServedAlone
<1>1. ASSUME NEW g \in GuestChats, GuestSends(g) PROVE GuestIInv'
  <2> DEFINE r == [pc |-> "sent", used |-> cookie, of |-> cookies,
                   before |-> {q \in GuestChats : guestChats[q].pc = "done"}, out |-> "none"]
  <2>1. /\ r \in GuestChat /\ r.pc = "sent" /\ r.used = cookie /\ r.of = cookies
        /\ r.before = {q \in GuestChats : guestChats[q].pc = "done"} /\ r.out = "none"
    BY <1>0 DEF GuestChat
  <2>2. /\ guestChats' = [guestChats EXCEPT ![g] = r] /\ guestChats[g].pc = "new"
        /\ UNCHANGED <<cookie, cookies, guestSlips>>
    BY <1>1 DEF GuestSends
  <2> HIDE DEF r
  <2>3. r.used <= GuestLimit /\ guestSlips' \in 0..MaxGuestSlips
        /\ Cardinality(ServedAlone) + (IF r.pc = "answering" THEN 1 ELSE 0) <= r.used
    BY <1>0, <1>9, <2>1, <2>2
  <2> QED BY <2>1, <2>2, <2>3, GuestMoves
<1>2. ASSUME NEW g \in GuestChats, guestChats[g].pc \in {"sent", "answering"},
             NEW out \in {"refused", "lost", "served"}, GuestEnds(g, out),
             \/ out # "served" /\ cookie' = cookie
             \/ guestChats[g].pc = "answering" /\ cookie' = guestChats[g].used,
             cookies' = cookies, guestSlips' \in 0..MaxGuestSlips
      PROVE  GuestIInv'
  <2> DEFINE r == [guestChats[g] EXCEPT !.pc = "done", !.out = out]
  <2>3. guestChats[g] \in GuestChat
    BY <1>0
  <2>1. /\ r \in GuestChat /\ r.pc = "done" /\ r.out = out
        /\ r.before = guestChats[g].before /\ r.of = guestChats[g].of
    BY <2>3 DEF GuestChat
  <2>2. guestChats' = [guestChats EXCEPT ![g] = r]
    BY <1>0, <1>2 DEF GuestEnds
  <2> HIDE DEF r
  <2> QED BY <1>2, <2>1, <2>2, GuestMoves
<1>3. ASSUME NEW g \in GuestChats, GuestAdmitted(g) PROVE GuestIInv'
  <2>1. CASE guestChats[g].used < GuestLimit
    <3> DEFINE r == [guestChats[g] EXCEPT !.pc = "answering", !.used = @ + 1]
    <3>1. /\ guestChats' = [guestChats EXCEPT ![g] = r] /\ guestChats[g].pc = "sent"
          /\ UNCHANGED <<cookie, cookies, guestSlips>>
      BY <1>0, <1>3, <2>1 DEF GuestAdmitted
    <3>2. guestChats[g] \in GuestChat /\ guestChats[g].used \in Nat
      BY <1>0 DEF GuestChat
    <3>3. /\ r \in GuestChat /\ r.pc = "answering" /\ r.used = guestChats[g].used + 1
          /\ r.before = guestChats[g].before /\ r.of = guestChats[g].of
          /\ r.out = guestChats[g].out
      <4>1. guestChats[g].used + 1 \in 0..(GuestLimit + 1)
        BY <1>0, <2>1, <3>2
      <4> QED BY <3>2, <4>1 DEF GuestChat
    <3>4. guestChats[g].out # "served"
      BY <3>1 DEF GuestIInv, GuestsTell
    <3>5. guestChats[g].of = cookies => Cardinality(ServedAlone) + 0 <= guestChats[g].used
      BY <3>1 DEF GuestIInv, GuestsTell, GuestWaits, GuestCounts
    <3> HIDE DEF r
    <3>6. r.used <= GuestLimit
      BY <3>2, <3>3, <2>1, <1>0
    <3>7. r.of = cookies => Cardinality(ServedAlone) + 1 <= r.used
      BY <3>2, <3>3, <3>5, <1>9
    <3> QED BY <1>0, <3>1, <3>3, <3>4, <3>6, <3>7, GuestMoves
  <2>2. CASE ~(guestChats[g].used < GuestLimit)
    BY <1>0, <1>2, <1>3, <2>2 DEF GuestAdmitted
  <2> QED BY <2>1, <2>2
<1>4. ASSUME NEW g \in GuestChats, GuestServed(g) PROVE GuestIInv'
  BY <1>0, <1>2, <1>4 DEF GuestServed
<1>5. ASSUME NEW g \in GuestChats, GuestLost(g) PROVE GuestIInv'
  <2>1. guestSlips' \in 0..MaxGuestSlips
    BY <1>0, <1>5 DEF GuestLost
  <2> QED BY <1>2, <1>5, <2>1 DEF GuestLost
<1>6. CASE CookieGoes
  <2>1. \A g \in GuestChats : guestChats[g].of \in Nat /\ guestChats[g].of <= cookies
    BY <1>0 DEF GuestIInv, GuestsTell, GuestChat
  <2>2. cookies' = cookies + 1 /\ cookie' = 0 /\ UNCHANGED <<guestChats, guestSlips>>
        /\ cookies < MaxCookies
    BY <1>6 DEF CookieGoes
  <2>3. \A g \in GuestChats : guestChats'[g].of < cookies'
    BY <1>0, <2>1, <2>2
  <2>4. ServedAlone' = {}
    BY <2>3, <1>0, <2>1, <2>2 DEF ServedAlone
  <2>5. Cardinality(ServedAlone') = 0
    BY <2>4, FS_EmptySet
  <2>6. GuestInv'
    BY <1>0, <2>2, <2>5 DEF GuestInv, GuestOK, GuestsAreCounted
  <2>7. \A g \in GuestChats : guestChats'[g].of # cookies' /\ guestChats'[g].of <= cookies'
    BY <1>0, <2>1, <2>2
  <2>8. \A g : GuestWaits(g)' <=> GuestWaits(g)
    BY <2>2 DEF GuestWaits
  <2>9. GuestsTell'
    BY <2>2, <2>7, <2>8 DEF GuestIInv, GuestsTell
  <2> QED BY <2>6, <2>9 DEF GuestIInv
<1>7. CASE UNCHANGED guestVars
  BY <1>7 DEF guestVars, GuestIInv, GuestInv, GuestOK, GuestsAreCounted, GuestsTell,
              GuestWaits, GuestCounts, ServedAlone, GuestsOverlap
<1> QED BY <1>1, <1>3, <1>4, <1>5, <1>6, <1>7 DEF GuestNext

LEMMA InitGuestIInv == GuestInit => GuestIInv
<1> SUFFICES ASSUME GuestInit PROVE GuestIInv
  OBVIOUS
<1>1. \A g \in GuestChats :
        guestChats[g] = [pc |-> "new", used |-> 0, of |-> 0, before |-> {}, out |-> "none"]
  BY DEF GuestInit
<1>2. GuestOK
  BY GuestAssumption DEF GuestInit, GuestOK, GuestChat
<1>3. ServedAlone = {}
  BY <1>1 DEF ServedAlone
<1>4. Cardinality(ServedAlone) = 0
  BY <1>3, FS_EmptySet
<1>5. GuestInv
  BY <1>2, <1>4, GuestAssumption DEF GuestInv, GuestsAreCounted, GuestInit
<1>6. GuestsTell
  BY <1>1, GuestAssumption DEF GuestsTell, GuestWaits, GuestInit
<1> QED BY <1>5, <1>6 DEF GuestIInv

\* Whoever chats without an account one chat at a time is counted for each of them, and has
\* no more than the limit, whatever the tabs did before (guestChatStream, the cookie
\* miaw_guest).
THEOREM GuestsKeep == GuestSpec => []GuestInv
<1>1. GuestIInv => GuestInv
  BY DEF GuestIInv
<1> QED BY <1>1, InitGuestIInv, GuestNextKeeps, PTL DEF GuestSpec

-----------------------------------------------------------------------------
(* CentralAccount: the order of the accounts.                              *)

LEMMA MinIsLeast ==
  ASSUME NEW T \in SUBSET Nat, T # {}
  PROVE  Min(T) \in T /\ \A y \in T : Min(T) <= y
<1> DEFINE R == {ss \in Nat \X Nat : ss[1] < ss[2]}
<1>1. IsWellFoundedOn(R, Nat)
  BY NatLessThanWellFounded DEF OpToRel
<1>2. \E x \in T : \A y \in T : ~(<<y, x>> \in R)
  <2> HIDE DEF R
  <2> QED BY <1>1, WFMin, Zenon
<1>3. \A x, y \in T : <<y, x>> \notin R => x <= y
  OBVIOUS
<1>4. \E x \in T : \A y \in T : x <= y
  BY <1>2, <1>3
<1> QED BY <1>4 DEF Min

\* An account that changes is listed, as are all others.
LEMMA TouchedLists ==
  ASSUME NEW a \in Accounts, changed \in Seq(Accounts)
  PROVE  /\ Touched(a) \in Seq(Accounts)
         /\ ToSet(changed) \cup {a} \subseteq ToSet(Touched(a))
<1> DEFINE rest == RemoveFirst(changed, a)
<1>1. rest \in Seq(Accounts) /\ \A b \in ToSet(changed) : b = a \/ b \in ToSet(rest)
  <2>1. CASE ~\E i \in 1..Len(changed) : changed[i] = a
    BY <2>1 DEF RemoveFirst
  <2>2. CASE \E i \in 1..Len(changed) : changed[i] = a
    <3> DEFINE I == {i \in 1..Len(changed) : changed[i] = a}
               k == Min(I)
    <3>1. k \in 1..Len(changed) /\ changed[k] = a
      <4>1. I \in SUBSET Nat /\ I # {}
        BY <2>2
      <4>2. k \in I
        <5> HIDE DEF I
        <5> QED BY <4>1, MinIsLeast
      <4> QED BY <4>2
    <3>2. rest = SubSeq(changed, 1, k - 1) \o SubSeq(changed, k + 1, Len(changed))
      BY <2>2 DEF RemoveFirst, SelectInSeq, RemoveAt
    <3> HIDE DEF k, rest
    <3> DEFINE s == SubSeq(changed, 1, k - 1)
               t == SubSeq(changed, k + 1, Len(changed))
    <3>3. Len(changed) \in Nat /\ \A i \in 1..Len(changed) : changed[i] \in Accounts
      OBVIOUS
    <3>4. /\ s \in Seq(Accounts) /\ Len(s) = k - 1
          /\ \A i \in 1..(k - 1) : s[i] = changed[i]
      <4>1. \A i \in 1..(k - 1) : changed[i] \in Accounts
        BY <3>1, <3>3
      <4>2. k - 1 \in Nat
        BY <3>1
      <4> QED BY <4>1, <4>2, SubSeqProperties
    <3>5. /\ t \in Seq(Accounts) /\ Len(t) = Len(changed) - k
          /\ \A i \in 1..(Len(changed) - k) : t[i] = changed[k + i]
      <4>1. \A i \in (k + 1)..Len(changed) : changed[i] \in Accounts
        BY <3>1, <3>3
      <4>2. k + 1 \in Int /\ Len(changed) \in Int
        BY <3>1, <3>3
      <4>3. /\ t \in Seq(Accounts)
            /\ Len(t) = IF k + 1 <= Len(changed) THEN Len(changed) - (k + 1) + 1 ELSE 0
            /\ \A i \in 1..(Len(changed) - (k + 1) + 1) : t[i] = changed[(k + 1) + i - 1]
        BY <4>1, <4>2, SubSeqProperties
      <4> QED BY <4>3, <3>1, <3>3
    <3> HIDE DEF s, t
    <3>6. /\ rest \in Seq(Accounts) /\ Len(rest) = Len(s) + Len(t)
          /\ \A i \in 1..(Len(s) + Len(t)) :
               rest[i] = IF i <= Len(s) THEN s[i] ELSE t[i - Len(s)]
      <4>1. rest = s \o t
        BY <3>2 DEF s, t
      <4> QED BY <3>4, <3>5, <4>1, ConcatProperties
    <3>7. ASSUME NEW i \in 1..Len(changed), i # k PROVE changed[i] \in ToSet(rest)
      <4>1. CASE i < k
        <5>1. i \in 1..Len(rest) /\ rest[i] = changed[i]
          BY <3>1, <3>3, <3>4, <3>5, <3>6, <4>1
        <5> QED BY <5>1, <3>6 DEF ToSet
      <4>2. CASE i > k
        <5>1. i - 1 \in 1..Len(rest) /\ rest[i - 1] = changed[i]
          <6>1. i - k \in 1..(Len(changed) - k) /\ k + (i - k) = i
            BY <3>1, <3>3, <4>2
          <6>2. t[i - k] = changed[i]
            BY <3>5, <6>1
          <6>3. i - 1 \in 1..(Len(s) + Len(t)) /\ ~(i - 1 <= Len(s)) /\ (i - 1) - Len(s) = i - k
            BY <3>1, <3>3, <3>4, <3>5, <4>2
          <6> QED BY <6>2, <6>3, <3>6
        <5> QED BY <5>1, <3>6 DEF ToSet
      <4> QED BY <4>1, <4>2, <3>1, <3>7
    <3> QED BY <3>1, <3>6, <3>7 DEF ToSet
  <2> QED BY <2>1, <2>2
<1> HIDE DEF rest
<1>2. Touched(a) = <<a>> \o rest
  BY DEF Touched, Cons, rest
<1>3. /\ Touched(a) \in Seq(Accounts) /\ Len(Touched(a)) = 1 + Len(rest)
      /\ \A i \in 1..(1 + Len(rest)) : Touched(a)[i] = IF i <= 1 THEN <<a>>[i] ELSE rest[i - 1]
  <2>1. <<a>> \in Seq(Accounts) /\ Len(<<a>>) = 1
    OBVIOUS
  <2> QED BY <1>1, <1>2, <2>1, ConcatProperties
<1>4. a \in ToSet(Touched(a))
  <2>1. 1 \in DOMAIN Touched(a) /\ Touched(a)[1] = a
    BY <1>1, <1>3
  <2> QED BY <2>1 DEF ToSet
<1>5. ASSUME NEW b \in ToSet(rest) PROVE b \in ToSet(Touched(a))
  <2>1. PICK i \in 1..Len(rest) : rest[i] = b
    BY <1>1, <1>5 DEF ToSet
  <2>2. i + 1 \in DOMAIN Touched(a) /\ Touched(a)[i + 1] = b
    BY <1>1, <1>3, <2>1
  <2> QED BY <2>2 DEF ToSet
<1> QED BY <1>1, <1>3, <1>4, <1>5

\* The SELECT finds an open account of the owner, if there is one.
LEMMA CentralFinds ==
  ASSUME NEW o, CentralOK
  PROVE  /\ Central(o) \in Accounts \cup {NoAccount}
         /\ Central(o) # NoAccount => Open(Central(o)) /\ accounts[Central(o)].owner = o
         /\ Central(o) = NoAccount =>
              \A a \in ToSet(changed) : ~(Open(a) /\ accounts[a].owner = o)
<1> DEFINE I == {i \in 1..Len(changed) : Open(changed[i]) /\ accounts[changed[i]].owner = o}
<1>1. changed \in Seq(Accounts) /\ NoAccount \notin Accounts
  BY CentralAssumption DEF CentralOK
<1>2. CASE I = {}
  <2>1. Central(o) = NoAccount
    BY <1>2 DEF Central, SelectInSeq
  <2> QED BY <2>1, <1>1, <1>2 DEF ToSet
<1>3. CASE I # {}
  <2>1. Min(I) \in I
    <3>1. I \in SUBSET Nat
      BY <1>1
    <3> HIDE DEF I
    <3> QED BY <3>1, <1>3, MinIsLeast
  <2>2. Min(I) # 0
    BY <2>1
  <2>3. Central(o) = changed[Min(I)]
    BY <1>3, <2>2 DEF Central, SelectInSeq
  <2> QED BY <2>1, <2>3, <1>1
<1> QED BY <1>2, <1>3

-----------------------------------------------------------------------------
(* CentralAccount: the accounts of an owner.                               *)

\* A page has an account of its owner.
HoldsCentral(p) ==
  /\ pages[p].of \in Accounts /\ accounts[pages[p].of].is # "none"
  /\ accounts[pages[p].of].owner = pages[p].owner

\* An account is listed and made by a page that has done so; a page that is about to make
\* one found none, so that every open one there is now is of a page that was not over.
CentralTells ==
  /\ \A a \in Accounts : accounts[a].is # "none" =>
       /\ a \in ToSet(changed)
       /\ accounts[a].by \in Pages /\ pages[accounts[a].by].pc \notin {"new", "insert"}
  /\ \A p \in Pages :
       /\ \A q \in pages[p].before : pages[q].pc = "done"
       /\ pages[p].pc = "insert" =>
            \A a \in Accounts :
              Open(a) /\ accounts[a].owner = pages[p].owner =>
                accounts[a].by \notin pages[p].before
       /\ pages[p].pc \in {"policy", "use"} \/ pages[p].missed => HoldsCentral(p)
       /\ pages[p].missed => pages[p].pc = "done"
       /\ pages[p].kind = "start" => pages[p].owner = RunnerOwner
  /\ served # NoAccount =>
       accounts[served].is # "none" /\ accounts[served].owner = RunnerOwner

CentralIInv == CentralInv /\ ListsReachRunner /\ CentralTells

LEMMA InitCentralIInv == CentralInit => CentralIInv
<1> SUFFICES ASSUME CentralInit PROVE CentralIInv
  OBVIOUS
<1>1. /\ \A a \in Accounts : accounts[a] = [is |-> "none", owner |-> RunnerOwner, by |-> NoAccount]
      /\ \A p \in Pages : pages[p] =
           [pc |-> "new", kind |-> "show", owner |-> RunnerOwner, of |-> NoAccount, before |-> {},
            missed |-> FALSE, out |-> "none"]
      /\ served = NoAccount
  BY DEF CentralInit
<1>2. CentralOK
  <2>1. accounts \in [Accounts -> Account] /\ pages \in [Pages -> Page]
    BY CentralAssumption DEF CentralInit, Account, Page
  <2>2. changed \in Seq(Accounts) /\ served = NoAccount /\ pageSlips \in 0..MaxPageSlips
    BY CentralAssumption DEF CentralInit
  <2> QED BY <2>1, <2>2 DEF CentralOK
<1>3. CentralInv
  BY <1>1, <1>2 DEF CentralInv, OneCentralEach, Open
<1>4. ListsReachRunner /\ CentralTells
  BY <1>1 DEF ListsReachRunner, CentralTells
<1> QED BY <1>3, <1>4 DEF CentralIInv

\* Pages go on, the process restarts, accounts change or are revoked.
LEMMA PagesGoOn ==
  ASSUME CentralIInv, CentralOK',
         \A p \in Pages :
           /\ pages'[p].kind = pages[p].kind /\ pages'[p].owner = pages[p].owner
           /\ pages'[p].of = pages[p].of /\ pages'[p].before = pages[p].before
           /\ pages'[p].pc = pages[p].pc
                \/ (pages[p].pc \notin {"new", "done"} /\ pages'[p].pc = "done")
                \/ (pages[p].pc = "policy" /\ pages'[p].pc = "use")
           /\ \/ pages'[p].missed => pages[p].missed
              \/ /\ pages[p].pc = "use" /\ pages'[p].pc = "done"
                 /\ Open(served) /\ served # pages[p].of,
         \A a \in Accounts :
           /\ accounts'[a].owner = accounts[a].owner /\ accounts'[a].by = accounts[a].by
           /\ \/ accounts'[a].is = accounts[a].is
              \/ accounts[a].is = "open" /\ accounts'[a].is = "revoked",
         ToSet(changed) \subseteq ToSet(changed'),
         \/ served' \in {served, NoAccount}
         \/ \E p \in Pages :
              pages[p].pc = "use" /\ pages[p].kind = "start" /\ served' = pages[p].of
  PROVE  CentralIInv'
<1>1. /\ CentralOK /\ OneCentralEach /\ ListsReachRunner /\ CentralTells
      /\ \A a \in Accounts : accounts[a] \in Account
      /\ \A p \in Pages : pages[p] \in Page
  BY DEF CentralIInv, CentralInv, CentralOK
<1>2. \A p, q \in Pages : PagesOverlap(p, q) <=> PagesOverlap(p, q)'
  BY DEF PagesOverlap
<1>3. \A a \in Accounts : Open(a)' => Open(a)
  BY DEF Open
<1>4. OneCentralEach'
  <2> SUFFICES ASSUME NEW a \in Accounts, NEW b \in Accounts, a # b, Open(a)', Open(b)',
                      accounts'[a].owner = accounts'[b].owner
      PROVE  PagesOverlap(accounts[a].by, accounts[b].by)'
    BY DEF OneCentralEach
  <2>1. PagesOverlap(accounts[a].by, accounts[b].by)
    BY <1>1, <1>3 DEF OneCentralEach
  <2>2. accounts[a].by \in Pages /\ accounts[b].by \in Pages
    BY <1>1, <1>3 DEF CentralTells, Open
  <2> QED BY <1>2, <2>1, <2>2 DEF PagesOverlap
<1>5. \A p \in Pages : HoldsCentral(p) => HoldsCentral(p)'
  BY DEF HoldsCentral
<1>6. Doubled(RunnerOwner) => Doubled(RunnerOwner)'
  <2> SUFFICES ASSUME Doubled(RunnerOwner) PROVE Doubled(RunnerOwner)'
    OBVIOUS
  <2>1. PICK a \in Accounts, b \in Accounts :
          /\ a # b /\ accounts[a].is # "none" /\ accounts[b].is # "none"
          /\ accounts[a].owner = RunnerOwner /\ accounts[b].owner = RunnerOwner
          /\ PagesOverlap(accounts[a].by, accounts[b].by)
    BY DEF Doubled
  <2>2. accounts[a].by \in Pages /\ accounts[b].by \in Pages
    BY <1>1, <2>1 DEF CentralTells
  <2>3. PagesOverlap(accounts[a].by, accounts[b].by)'
    BY <2>1, <2>2 DEF PagesOverlap
  <2>4. accounts'[a].is # "none" /\ accounts'[b].is # "none"
    BY <2>1
  <2> QED BY <2>1, <2>3, <2>4 DEF Doubled
<1>7. ListsReachRunner'
  <2> SUFFICES ASSUME NEW p \in Pages, pages'[p].missed, pages[p].owner = RunnerOwner,
                      accounts'[pages[p].of].is # "revoked"
      PROVE  Doubled(RunnerOwner)
    BY <1>6 DEF ListsReachRunner
  <2>1. CASE pages[p].missed
    <3>1. pages[p].of \in Accounts /\ accounts[pages[p].of].is # "none"
      BY <1>1, <2>1 DEF CentralTells, HoldsCentral
    <3>2. accounts[pages[p].of].is # "revoked"
      BY <3>1
    <3> QED BY <1>1, <2>1, <3>2 DEF ListsReachRunner
  <2>2. CASE pages[p].pc = "use" /\ Open(served) /\ served # pages[p].of
    <3>1. /\ pages[p].of \in Accounts /\ accounts[pages[p].of].is # "none"
          /\ accounts[pages[p].of].owner = RunnerOwner
      BY <1>1, <2>2 DEF CentralTells, HoldsCentral
    <3>2. accounts[pages[p].of].is \in {"none", "open", "revoked"}
      BY <1>1, <3>1 DEF Account
    <3>3. Open(pages[p].of)
      BY <3>1, <3>2 DEF Open
    <3>4. served \in Accounts /\ served # NoAccount /\ accounts[served].is # "none"
      BY <2>2, CentralAssumption DEF Open
    <3>5. accounts[served].owner = RunnerOwner
      BY <1>1, <3>4 DEF CentralTells
    <3>6. PagesOverlap(accounts[served].by, accounts[pages[p].of].by)
      BY <1>1, <2>2, <3>1, <3>3, <3>4, <3>5 DEF OneCentralEach
    <3> QED BY <2>2, <3>1, <3>4, <3>5, <3>6 DEF Doubled
  <2> QED BY <2>1, <2>2
<1>8. CentralTells'
  <2>1. ASSUME NEW a \in Accounts, accounts'[a].is # "none"
        PROVE  /\ a \in ToSet(changed')
               /\ accounts'[a].by \in Pages
               /\ pages'[accounts'[a].by].pc \notin {"new", "insert"}
    <3>1. accounts[a].is # "none"
      BY <2>1
    <3>2. /\ a \in ToSet(changed) /\ accounts[a].by \in Pages
          /\ pages[accounts[a].by].pc \notin {"new", "insert"}
      BY <1>1, <3>1 DEF CentralTells
    <3> QED BY <3>2
  <2>2. ASSUME NEW p \in Pages
        PROVE  /\ \A q \in pages'[p].before : pages'[q].pc = "done"
               /\ pages'[p].pc = "insert" =>
                    \A a \in Accounts :
                      Open(a)' /\ accounts'[a].owner = pages'[p].owner =>
                        accounts'[a].by \notin pages'[p].before
               /\ pages'[p].pc \in {"policy", "use"} \/ pages'[p].missed => HoldsCentral(p)'
               /\ pages'[p].missed => pages'[p].pc = "done"
               /\ pages'[p].kind = "start" => pages'[p].owner = RunnerOwner
    <3>1. \A q \in pages[p].before : q \in Pages /\ pages[q].pc = "done"
      BY <1>1 DEF CentralTells, Page
    <3>2. \A q \in pages'[p].before : pages'[q].pc = "done"
      BY <3>1
    <3>3. pages'[p].pc = "insert" => pages[p].pc = "insert"
      OBVIOUS
    <3>4. pages'[p].pc \in {"policy", "use"} \/ pages'[p].missed
            => pages[p].pc \in {"policy", "use"} \/ pages[p].missed
      OBVIOUS
    <3>5. pages[p].kind = "start" => pages[p].owner = RunnerOwner
      BY <1>1 DEF CentralTells
    <3>6. pages[p].pc \in {"policy", "use"} \/ pages[p].missed => HoldsCentral(p)
      BY <1>1 DEF CentralTells
    <3>7. pages[p].pc = "insert" =>
            \A a \in Accounts : Open(a) /\ accounts[a].owner = pages[p].owner =>
              accounts[a].by \notin pages[p].before
      BY <1>1 DEF CentralTells
    <3>8. pages'[p].missed => pages'[p].pc = "done"
      BY <1>1 DEF CentralTells
    <3> QED BY <1>3, <1>5, <3>2, <3>3, <3>4, <3>5, <3>6, <3>7, <3>8
  <2>3. served' # NoAccount =>
          accounts'[served'].is # "none" /\ accounts'[served'].owner = RunnerOwner
    <3>1. served' # NoAccount =>
            /\ served' \in Accounts /\ accounts[served'].is # "none"
            /\ accounts[served'].owner = RunnerOwner
      BY <1>1 DEF CentralTells, CentralOK, HoldsCentral
    <3> QED BY <3>1
  <2> QED BY <2>1, <2>2, <2>3 DEF CentralTells
<1> QED BY <1>4, <1>7, <1>8 DEF CentralIInv, CentralInv

LEMMA PageIsSame ==
  ASSUME NEW p \in Pages, NEW r \in Page, CentralOK, pages' = [pages EXCEPT ![p] = r]
  PROVE  /\ pages' \in [Pages -> Page] /\ pages'[p] = r
         /\ \A q \in Pages \ {p} : pages'[q] = pages[q]
BY DEF CentralOK

LEMMA PageBeginsKeeps ==
  ASSUME CentralIInv, NEW p \in Pages, NEW kind \in {"start", "edit", "show"}, NEW o \in Admins,
         PageBegins(p, kind, o), kind = "start" => o = RunnerOwner
  PROVE  CentralIInv'
<1> DEFINE over == {q \in Pages : pages[q].pc = "done"}
           r == [pc |-> IF Central(o) = NoAccount THEN "insert" ELSE "use", kind |-> kind,
                 owner |-> o, of |-> Central(o), before |-> over, missed |-> FALSE,
                 out |-> "none"]
<1>1. /\ CentralOK /\ OneCentralEach /\ ListsReachRunner /\ CentralTells
      /\ \A q \in Pages : pages[q] \in Page
  BY DEF CentralIInv, CentralInv, CentralOK
<1>2. /\ pages' = [pages EXCEPT ![p] = r] /\ pages[p].pc = "new"
      /\ UNCHANGED <<accounts, changed, served, pageSlips>>
  BY DEF PageBegins
<1>3. /\ Central(o) \in Accounts \cup {NoAccount}
      /\ Central(o) # NoAccount => Open(Central(o)) /\ accounts[Central(o)].owner = o
      /\ Central(o) = NoAccount => \A a \in ToSet(changed) : ~(Open(a) /\ accounts[a].owner = o)
  BY <1>1, CentralFinds
<1>4. /\ r \in Page /\ r.owner = o /\ r.of = Central(o) /\ r.before = over /\ ~r.missed
      /\ r.kind = kind /\ r.pc = IF Central(o) = NoAccount THEN "insert" ELSE "use"
  BY <1>3 DEF Page
<1> HIDE DEF r
<1>5. /\ pages' \in [Pages -> Page] /\ pages'[p] = r
      /\ \A q \in Pages \ {p} : pages'[q] = pages[q]
  BY <1>1, <1>2, <1>4, PageIsSame
<1>6. \A a : Open(a)' <=> Open(a)
  BY <1>2 DEF Open
<1>7. \A a \in Accounts : accounts[a].is # "none" =>
        accounts[a].by \in Pages \ {p} /\ pages'[accounts[a].by] = pages[accounts[a].by]
  BY <1>1, <1>2, <1>5 DEF CentralTells
<1>8. \A a, b \in Accounts : accounts[a].is # "none" /\ accounts[b].is # "none" =>
        (PagesOverlap(accounts[a].by, accounts[b].by)' <=>
           PagesOverlap(accounts[a].by, accounts[b].by))
  BY <1>2, <1>7 DEF PagesOverlap
<1>9. CentralOK'
  BY <1>1, <1>2, <1>5 DEF CentralOK
<1>10. OneCentralEach'
  BY <1>1, <1>2, <1>6, <1>8 DEF OneCentralEach, Open
<1>11. ListsReachRunner'
  <2>1. Doubled(RunnerOwner) => Doubled(RunnerOwner)'
    BY <1>2, <1>8 DEF Doubled
  <2>2. \A q \in Pages : pages'[q].missed => q # p
    BY <1>4, <1>5
  <2> QED BY <1>1, <1>2, <1>5, <2>1, <2>2 DEF ListsReachRunner
<1>12. CentralTells'
  <2>1. ASSUME NEW a \in Accounts, accounts[a].is # "none"
        PROVE  /\ a \in ToSet(changed)
               /\ accounts[a].by \in Pages /\ pages'[accounts[a].by].pc \notin {"new", "insert"}
    BY <1>1, <1>7, <2>1 DEF CentralTells
  <2>2. ASSUME NEW q \in Pages
        PROVE  /\ \A x \in pages'[q].before : pages'[x].pc = "done"
               /\ pages'[q].pc = "insert" =>
                    \A a \in Accounts :
                      Open(a)' /\ accounts[a].owner = pages'[q].owner =>
                        accounts[a].by \notin pages'[q].before
               /\ pages'[q].pc \in {"policy", "use"} \/ pages'[q].missed => HoldsCentral(q)'
               /\ pages'[q].missed => pages'[q].pc = "done"
               /\ pages'[q].kind = "start" => pages'[q].owner = RunnerOwner
    <3>1. CASE q # p
      <4>1. \A x \in pages[q].before : x \in Pages /\ x # p
        BY <1>1, <1>2 DEF CentralTells, Page
      <4>2. pages'[q] = pages[q] /\ (HoldsCentral(q)' <=> HoldsCentral(q))
        BY <1>2, <1>5, <3>1 DEF HoldsCentral
      <4> QED BY <1>1, <1>5, <1>6, <4>1, <4>2 DEF CentralTells
    <3>2. CASE q = p
      <4>1. \A x \in over : x \in Pages /\ x # p /\ pages[x].pc = "done"
        BY <1>2
      <4>2. r.pc = "use" => HoldsCentral(p)'
        BY <1>2, <1>3, <1>4, <1>5, CentralAssumption DEF HoldsCentral, Open
      <4>3. r.pc = "insert" =>
              \A a \in Accounts : ~(Open(a) /\ accounts[a].owner = o)
        BY <1>1, <1>3, <1>4 DEF CentralTells, Open
      <4> QED BY <3>2, <1>4, <1>5, <1>6, <4>1, <4>2, <4>3
    <3> QED BY <3>1, <3>2
  <2> QED BY <1>1, <1>2, <2>1, <2>2 DEF CentralTells
<1> QED BY <1>9, <1>10, <1>11, <1>12 DEF CentralIInv, CentralInv

\* A page that makes an account overlaps those that made the open ones of its owner.
LEMMA InsertKeeps ==
  ASSUME CentralIInv, NEW p \in Pages, Insert(p)
  PROVE  CentralIInv'
<1>1. /\ CentralOK /\ OneCentralEach /\ ListsReachRunner /\ CentralTells
      /\ \A q \in Pages : pages[q] \in Page
      /\ accounts \in [Accounts -> Account] /\ changed \in Seq(Accounts)
  BY DEF CentralIInv, CentralInv, CentralOK
<1>2. PICK a \in Accounts :
        /\ accounts[a].is = "none"
        /\ accounts' = [accounts EXCEPT ![a] = [is |-> "open", owner |-> pages[p].owner, by |-> p]]
        /\ changed' = Touched(a)
        /\ pages' = [pages EXCEPT ![p].pc = "policy", ![p].of = a]
  BY DEF Insert
<1> DEFINE r == [pages[p] EXCEPT !.pc = "policy", !.of = a]
           n == [is |-> "open", owner |-> pages[p].owner, by |-> p]
<1>3. pages' = [pages EXCEPT ![p] = r] /\ pages[p].pc = "insert" /\ UNCHANGED <<served, pageSlips>>
  BY <1>1, <1>2 DEF Insert, CentralOK
<1>4. /\ r \in Page /\ r.pc = "policy" /\ r.of = a /\ r.owner = pages[p].owner
      /\ r.before = pages[p].before /\ r.missed = pages[p].missed /\ r.kind = pages[p].kind
  <2>1. pages[p] \in Page
    BY <1>1
  <2> QED BY <2>1 DEF Page
<1>5. /\ n \in Account /\ n.is = "open" /\ n.owner = pages[p].owner /\ n.by = p
  BY <1>1 DEF Account, Page
<1> HIDE DEF r, n
<1>6. /\ pages' \in [Pages -> Page] /\ pages'[p] = r
      /\ \A q \in Pages \ {p} : pages'[q] = pages[q]
  BY <1>1, <1>3, <1>4, PageIsSame
<1>7. /\ accounts' \in [Accounts -> Account] /\ accounts'[a] = n
      /\ \A b \in Accounts \ {a} : accounts'[b] = accounts[b]
  BY <1>1, <1>2, <1>5 DEF n
<1>8. changed' \in Seq(Accounts) /\ ToSet(changed) \cup {a} \subseteq ToSet(changed')
  BY <1>1, <1>2, TouchedLists
<1>9. \A q \in Pages : pages'[q].before = pages[q].before /\ pages'[q].owner = pages[q].owner
  BY <1>4, <1>6
<1>10. \A b \in Accounts : accounts[b].is # "none" =>
         b # a /\ accounts[b].by \in Pages \ {p}
         /\ pages[accounts[b].by].pc \notin {"new", "insert"}
  BY <1>1, <1>2, <1>3 DEF CentralTells
<1>11. \A b, d \in Accounts : accounts[b].is # "none" /\ accounts[d].is # "none" =>
         (PagesOverlap(accounts[b].by, accounts[d].by) =>
            PagesOverlap(accounts[b].by, accounts[d].by)')
  BY <1>7, <1>9, <1>10 DEF PagesOverlap
<1>12. \A q \in Pages : p \notin pages[q].before
  BY <1>1, <1>3 DEF CentralTells
<1>13. \A b \in Accounts \ {a} : Open(b)' <=> Open(b)
  BY <1>7 DEF Open
<1>14. CentralOK'
  BY <1>1, <1>3, <1>6, <1>7, <1>8 DEF CentralOK
<1>15. OneCentralEach'
  <2>1. ASSUME NEW b \in Accounts \ {a}, Open(b), accounts[b].owner = pages[p].owner
        PROVE  /\ PagesOverlap(accounts[a].by, accounts[b].by)'
               /\ PagesOverlap(accounts[b].by, accounts[a].by)'
    <3>1. accounts[b].by \in Pages \ {p} /\ accounts[b].by \notin pages[p].before
      BY <1>1, <1>3, <1>10, <2>1 DEF CentralTells, Open
    <3> QED BY <3>1, <1>5, <1>7, <1>9, <1>12 DEF PagesOverlap
  <2>2. ASSUME NEW b \in Accounts \ {a}, NEW d \in Accounts \ {a}, b # d, Open(b), Open(d),
               accounts[b].owner = accounts[d].owner
        PROVE  PagesOverlap(accounts[b].by, accounts[d].by)'
    BY <1>1, <1>11, <2>2 DEF OneCentralEach, Open
  <2>3. SUFFICES ASSUME NEW b \in Accounts, NEW d \in Accounts, b # d, Open(b)', Open(d)',
                        accounts'[b].owner = accounts'[d].owner
        PROVE  PagesOverlap(accounts[b].by, accounts[d].by)'
    BY DEF OneCentralEach
  <2>4. CASE b = a
    BY <2>1, <2>3, <2>4, <1>5, <1>7, <1>13
  <2>5. CASE d = a
    BY <2>1, <2>3, <2>5, <1>5, <1>7, <1>13
  <2>6. CASE b # a /\ d # a
    BY <2>2, <2>3, <2>6, <1>7, <1>13
  <2> QED BY <2>4, <2>5, <2>6
<1>16. \A q \in Pages \ {p} : HoldsCentral(q) => HoldsCentral(q)'
  <2> SUFFICES ASSUME NEW q \in Pages \ {p}, HoldsCentral(q) PROVE HoldsCentral(q)'
    OBVIOUS
  <2>1. pages[q].of # a
    BY <1>2 DEF HoldsCentral
  <2> QED BY <2>1, <1>6, <1>7 DEF HoldsCentral
<1>17. ~r.missed
  BY <1>1, <1>3, <1>4 DEF CentralTells
<1>18. ListsReachRunner'
  <2> SUFFICES ASSUME NEW q \in Pages, pages'[q].missed
      PROVE  \/ pages'[q].owner # RunnerOwner
             \/ Doubled(RunnerOwner)'
             \/ accounts'[pages'[q].of].is = "revoked"
    BY DEF ListsReachRunner
  <2>1. q # p /\ pages'[q] = pages[q]
    BY <1>6, <1>17
  <2>2. pages[q].of \in Accounts /\ pages[q].of # a
    BY <1>1, <1>2, <2>1 DEF CentralTells, HoldsCentral
  <2>3. Doubled(RunnerOwner) => Doubled(RunnerOwner)'
    <3> SUFFICES ASSUME Doubled(RunnerOwner) PROVE Doubled(RunnerOwner)'
      OBVIOUS
    <3>1. PICK b \in Accounts, d \in Accounts :
            /\ b # d /\ accounts[b].is # "none" /\ accounts[d].is # "none"
            /\ accounts[b].owner = RunnerOwner /\ accounts[d].owner = RunnerOwner
            /\ PagesOverlap(accounts[b].by, accounts[d].by)
      BY DEF Doubled
    <3>2. accounts'[b] = accounts[b] /\ accounts'[d] = accounts[d]
      BY <1>7, <1>10, <3>1
    <3>3. PagesOverlap(accounts[b].by, accounts[d].by)'
      BY <1>11, <3>1
    <3> QED BY <3>1, <3>2, <3>3 DEF Doubled
  <2> QED BY <1>1, <1>7, <2>1, <2>2, <2>3 DEF ListsReachRunner
<1>19. CentralTells'
  <2>1. ASSUME NEW b \in Accounts, accounts'[b].is # "none"
        PROVE  /\ b \in ToSet(changed')
               /\ accounts'[b].by \in Pages
               /\ pages'[accounts'[b].by].pc \notin {"new", "insert"}
    <3>1. CASE b = a
      BY <3>1, <1>4, <1>5, <1>6, <1>7, <1>8
    <3>2. CASE b # a
      BY <3>2, <2>1, <1>1, <1>6, <1>7, <1>8, <1>10 DEF CentralTells
    <3> QED BY <3>1, <3>2
  <2>2. ASSUME NEW q \in Pages
        PROVE  /\ \A x \in pages'[q].before : pages'[x].pc = "done"
               /\ pages'[q].pc = "insert" =>
                    \A b \in Accounts :
                      Open(b)' /\ accounts'[b].owner = pages'[q].owner =>
                        accounts'[b].by \notin pages'[q].before
               /\ pages'[q].pc \in {"policy", "use"} \/ pages'[q].missed => HoldsCentral(q)'
               /\ pages'[q].missed => pages'[q].pc = "done"
               /\ pages'[q].kind = "start" => pages'[q].owner = RunnerOwner
    <3>1. \A x \in pages[q].before : x \in Pages \ {p} /\ pages[x].pc = "done"
      BY <1>1, <1>12 DEF CentralTells, Page
    <3>2. \A x \in pages'[q].before : pages'[x].pc = "done"
      BY <3>1, <1>6, <1>9
    <3>3. CASE q = p
      <4>1. HoldsCentral(p)'
        BY <1>4, <1>5, <1>6, <1>7 DEF HoldsCentral
      <4>2. pages[p].kind = "start" => pages[p].owner = RunnerOwner
        BY <1>1 DEF CentralTells
      <4> QED BY <3>2, <3>3, <4>1, <4>2, <1>4, <1>6, <1>17
    <3>4. CASE q # p
      <4>1. pages'[q] = pages[q]
        BY <3>4, <1>6
      <4>2. ASSUME pages[q].pc = "insert", NEW b \in Accounts, Open(b)',
                   accounts'[b].owner = pages[q].owner
            PROVE  accounts'[b].by \notin pages[q].before
        <5>1. CASE b = a
          BY <5>1, <1>5, <1>7, <1>12
        <5>2. CASE b # a
          BY <5>2, <4>2, <1>1, <1>7, <1>13 DEF CentralTells
        <5> QED BY <5>1, <5>2
      <4>3. HoldsCentral(q) => HoldsCentral(q)'
        BY <1>16, <3>4
      <4>4. /\ pages[q].pc \in {"policy", "use"} \/ pages[q].missed => HoldsCentral(q)
            /\ pages[q].missed => pages[q].pc = "done"
            /\ pages[q].kind = "start" => pages[q].owner = RunnerOwner
        BY <1>1 DEF CentralTells
      <4> QED BY <3>2, <4>1, <4>2, <4>3, <4>4
    <3> QED BY <3>3, <3>4
  <2>3. served # NoAccount =>
          served # a /\ accounts'[served].is # "none" /\ accounts'[served].owner = RunnerOwner
    BY <1>1, <1>2, <1>7 DEF CentralTells, CentralOK
  <2> QED BY <1>3, <2>1, <2>2, <2>3 DEF CentralTells
<1> QED BY <1>14, <1>15, <1>18, <1>19 DEF CentralIInv, CentralInv

\* One page goes on, with the account it has.
LEMMA PageGoesOn ==
  ASSUME CentralIInv, NEW p \in Pages, NEW r \in Page, pages' = [pages EXCEPT ![p] = r],
         r.kind = pages[p].kind, r.owner = pages[p].owner, r.of = pages[p].of,
         r.before = pages[p].before,
         \/ pages[p].pc \notin {"new", "done"} /\ r.pc = "done"
         \/ pages[p].pc = "policy" /\ r.pc = "use",
         \/ r.missed => pages[p].missed
         \/ pages[p].pc = "use" /\ r.pc = "done" /\ Open(served) /\ served # pages[p].of,
         accounts' = accounts, changed' \in Seq(Accounts), ToSet(changed) \subseteq ToSet(changed'),
         \/ served' = served
         \/ pages[p].pc = "use" /\ pages[p].kind = "start" /\ served' = pages[p].of,
         pageSlips' \in 0..MaxPageSlips
  PROVE  CentralIInv'
<1>1. CentralOK /\ pages[p] \in Page
  BY DEF CentralIInv, CentralInv, CentralOK
<1>2. /\ pages' \in [Pages -> Page] /\ pages'[p] = r
      /\ \A q \in Pages \ {p} : pages'[q] = pages[q]
  BY <1>1, PageIsSame
<1>3. CentralOK'
  BY <1>1, <1>2 DEF CentralOK, Page
<1> QED BY <1>2, <1>3, PagesGoOn

\* An account is changed, or revoked.
LEMMA AccountChangesKeep ==
  ASSUME CentralIInv, NEW a \in Accounts, changed' = Touched(a),
         \/ accounts' = accounts
         \/ Open(a) /\ accounts' = [accounts EXCEPT ![a].is = "revoked"],
         UNCHANGED <<served, pages, pageSlips>>
  PROVE  CentralIInv'
<1>1. /\ CentralOK /\ accounts[a] \in Account /\ accounts \in [Accounts -> Account]
      /\ changed \in Seq(Accounts)
  BY DEF CentralIInv, CentralInv, CentralOK
<1>2. changed' \in Seq(Accounts) /\ ToSet(changed) \subseteq ToSet(changed')
  BY <1>1, TouchedLists
<1>3. accounts' \in [Accounts -> Account]
  BY <1>1 DEF Account
<1>4. CentralOK'
  BY <1>1, <1>2, <1>3 DEF CentralOK
<1>5. \A b \in Accounts :
        /\ accounts'[b].owner = accounts[b].owner /\ accounts'[b].by = accounts[b].by
        /\ \/ accounts'[b].is = accounts[b].is
           \/ accounts[b].is = "open" /\ accounts'[b].is = "revoked"
  BY <1>1 DEF Account, Open
<1> QED BY <1>2, <1>4, <1>5, PagesGoOn

LEMMA CentralNextKeeps == CentralIInv /\ [CentralNext]_centralVars => CentralIInv'
<1> SUFFICES ASSUME CentralIInv, [CentralNext]_centralVars PROVE CentralIInv'
  OBVIOUS
<1>1. /\ CentralOK /\ pages \in [Pages -> Page] /\ changed \in Seq(Accounts)
      /\ pageSlips \in 0..MaxPageSlips /\ MaxPageSlips \in Nat
  BY CentralAssumption DEF CentralIInv, CentralInv, CentralOK
<1>2. ASSUME NEW p \in Pages, pages[p].pc \notin {"new", "done"}, PageEnds(p, "failed"),
             accounts' = accounts, changed' = changed, served' = served,
             pageSlips' \in 0..MaxPageSlips
      PROVE  CentralIInv'
  <2> DEFINE r == [pages[p] EXCEPT !.pc = "done", !.out = "failed"]
  <2>1. pages' = [pages EXCEPT ![p] = r] /\ pages[p] \in Page
    BY <1>1, <1>2 DEF PageEnds
  <2>2. /\ r \in Page /\ r.kind = pages[p].kind /\ r.owner = pages[p].owner
        /\ r.of = pages[p].of /\ r.before = pages[p].before /\ r.pc = "done"
        /\ r.missed = pages[p].missed
    BY <2>1 DEF Page
  <2> HIDE DEF r
  <2> QED BY <1>1, <1>2, <2>1, <2>2, PageGoesOn
<1>3. ASSUME NEW p \in Pages, \/ \E o \in Admins : EditList(p, o)
                             \/ ShowAccounts(p) \/ StartRunner(p)
      PROVE  CentralIInv'
  BY <1>3, PageBeginsKeeps, CentralAssumption DEF EditList, ShowAccounts, StartRunner
<1>4. ASSUME NEW p \in Pages, SetPolicy(p) PROVE CentralIInv'
  <2>1. CASE Open(pages[p].of)
    <3> DEFINE r == [pages[p] EXCEPT !.pc = "use"]
    <3>1. /\ pages' = [pages EXCEPT ![p] = r] /\ pages[p] \in Page /\ pages[p].pc = "policy"
          /\ changed' = Touched(pages[p].of) /\ UNCHANGED <<accounts, served, pageSlips>>
      BY <1>1, <1>4, <2>1 DEF SetPolicy
    <3>2. /\ r \in Page /\ r.kind = pages[p].kind /\ r.owner = pages[p].owner
          /\ r.of = pages[p].of /\ r.before = pages[p].before /\ r.pc = "use"
          /\ r.missed = pages[p].missed
      BY <3>1 DEF Page
    <3>3. changed' \in Seq(Accounts) /\ ToSet(changed) \subseteq ToSet(changed')
      BY <1>1, <2>1, <3>1, TouchedLists DEF Open
    <3> HIDE DEF r
    <3> QED BY <1>1, <3>1, <3>2, <3>3, PageGoesOn
  <2>2. CASE ~Open(pages[p].of)
    BY <1>1, <1>2, <1>4, <2>2 DEF SetPolicy
  <2> QED BY <2>1, <2>2
<1>5. ASSUME NEW p \in Pages, UsePage(p) PROVE CentralIInv'
  <2> DEFINE m == pages[p].kind = "edit" /\ Open(served) /\ served # pages[p].of
             r == [pages[p] EXCEPT !.pc = "done", !.out = "ok", !.missed = m]
  <2>1. /\ pages' = [pages EXCEPT ![p] = r] /\ pages[p] \in Page /\ pages[p].pc = "use"
        /\ served' = IF pages[p].kind = "start" THEN pages[p].of ELSE served
        /\ UNCHANGED <<accounts, changed, pageSlips>>
    BY <1>1, <1>5 DEF UsePage
  <2>2. m \in BOOLEAN
    OBVIOUS
  <2> HIDE DEF m
  <2>3. /\ r \in Page /\ r.kind = pages[p].kind /\ r.owner = pages[p].owner
        /\ r.of = pages[p].of /\ r.before = pages[p].before /\ r.pc = "done"
        /\ r.missed = m
    BY <2>1, <2>2 DEF Page
  <2> HIDE DEF r
  <2>4. m => Open(served) /\ served # pages[p].of
    BY DEF m
  <2> QED BY <1>1, <2>1, <2>3, <2>4, PageGoesOn
<1>6. ASSUME NEW p \in Pages, PageFails(p) PROVE CentralIInv'
  <2>1. pageSlips' \in 0..MaxPageSlips
    BY <1>1, <1>6 DEF PageFails
  <2> QED BY <1>2, <1>6, <2>1 DEF PageFails
<1>7. ASSUME NEW a \in Accounts, UpdatePolicy(a) \/ Revoke(a) PROVE CentralIInv'
  BY <1>7, AccountChangesKeep DEF UpdatePolicy, Revoke
<1>8. CASE Report
  BY <1>8, AccountChangesKeep DEF Report, Open
<1>9. CASE Restart
  <2>5. pageSlips' \in 0..MaxPageSlips
    <3>1. pageSlips < MaxPageSlips /\ pageSlips' = pageSlips + 1
      BY <1>9, Zenon DEF Restart
    <3> QED BY <1>1, <3>1
  <2>1. /\ served' = NoAccount /\ UNCHANGED <<accounts, changed>>
        /\ pages' = [p \in Pages |->
             IF pages[p].pc \in {"new", "done"} THEN pages[p]
             ELSE [pages[p] EXCEPT !.pc = "done", !.out = "failed"]]
    BY <1>9 DEF Restart
  <2>2. ASSUME NEW p \in Pages
        PROVE  /\ pages'[p] \in Page
               /\ pages'[p].kind = pages[p].kind /\ pages'[p].owner = pages[p].owner
               /\ pages'[p].of = pages[p].of /\ pages'[p].before = pages[p].before
               /\ \/ pages'[p].pc = pages[p].pc
                  \/ pages[p].pc \notin {"new", "done"} /\ pages'[p].pc = "done"
               /\ pages'[p].missed = pages[p].missed
    <3>1. pages[p] \in Page
      BY <1>1
    <3> QED BY <2>1, <3>1 DEF Page
  <2>3. pages' \in [Pages -> Page]
    BY <2>1, <2>2
  <2>4. CentralOK'
    BY <1>1, <2>1, <2>3, <2>5 DEF CentralOK
  <2> QED BY <2>1, <2>2, <2>4, PagesGoOn
<1>10. CASE UNCHANGED centralVars
  BY <1>10 DEF centralVars, CentralIInv, CentralInv, CentralOK, OneCentralEach, ListsReachRunner,
               CentralTells, HoldsCentral, Open, Doubled, PagesOverlap
<1> QED BY <1>3, <1>4, <1>5, <1>6, <1>7, <1>8, <1>9, <1>10, InsertKeeps DEF CentralNext

\* An owner has two open accounts only if the requests that made them overlapped: SELECT
\* and INSERT of GetOrCreateCentralWhatsAppAccount are two statements.
THEOREM OneAccountEach == CentralSpec => []CentralInv
<1>1. CentralIInv => CentralInv
  BY DEF CentralIInv
<1> QED BY <1>1, InitCentralIInv, CentralNextKeeps, PTL DEF CentralSpec

\* The allow list an admin edits is that of the account the runner answers for, if the
\* runner is the admin's, no two requests have made its account, and it was not revoked.
THEOREM EditsReachRunner == CentralSpec => []ListsReachRunner
<1>1. CentralIInv => ListsReachRunner
  BY DEF CentralIInv
<1> QED BY <1>1, InitCentralIInv, CentralNextKeeps, PTL DEF CentralSpec

-----------------------------------------------------------------------------
(* DeepTutor: what a visit has in hand, and what is on the shelf.          *)

\* An object somebody has made.
Real(o) ==
  /\ o \in Visits /\ visits[o].pc # "new"
  /\ objects[o].title \in Visits /\ objects[o].body \in Visits

\* It is as it was when the mutex was free.
Whole(o) == <<objects[o].title, objects[o].body>> \in objects[o].had
BeingWritten(o) == Writing(o, "setTitle") \/ Writing(o, "setBody")

Disturbed(v) == \E q \in Visits : Changes(q) /\ visits[q].of = visits[v].of /\ VisitsOverlap(v, q)

HasPlaced(c) ==
  \/ visits[c].kind = "create"
  \/ visits[c].kind = "rename" /\ visits[c].pc \notin {"setTitle", "setBody"}
TakenAway(c, n) ==
  \E q \in Visits : /\ visits[q].kind \in {"delete", "rename"} /\ visits[q].name = n
                    /\ visits[q].pc # "new" /\ q \notin visits[c].before

VisitTells(v) ==
  /\ visits[v].era <= ends
  /\ IF visits[v].pc = "new" THEN visits[v].kind = "get" ELSE visits[v].to \in Names
  /\ visits[v].pc = "list" => visits[v].kind = "list"
  /\ visits[v].out # "none" => visits[v].pc = "done"
  /\ visits[v].of # NoVisit => Real(visits[v].of)
  /\ visits[v].of = NoVisit =>
       /\ visits[v].pc \notin {"setTitle", "setBody", "title", "body"}
       /\ visits[v].out = "ok" => visits[v].kind \in {"list", "delete"}
  /\ visits[v].pc \in {"setTitle", "setBody"} =>
       visits[v].kind = IF visits[v].to = visits[v].name THEN "update" ELSE "rename"
  /\ visits[v].pc \in {"title", "body"} /\ ~Disturbed(v) =>
       /\ Whole(visits[v].of)
       /\ visits[v].pc = "body" => visits[v].got[1] = objects[visits[v].of].title
  /\ \A q \in visits[v].before : visits[q].pc = "done"
  /\ HasPlaced(v) /\ visits[v].era = ends =>
       shelf[visits[v].to] # NoVisit \/ TakenAway(v, visits[v].to)

\* What a visit has in hand is whole unless an update overlaps, what is on the shelf unless
\* it is being written, and what was placed is there unless it was taken away.
TutorTells ==
  /\ \A v \in Visits : VisitTells(v)
  /\ \A n \in Names :
       shelf[n] # NoVisit => Real(shelf[n]) /\ (Whole(shelf[n]) \/ BeingWritten(shelf[n]))

TutorIInv == TutorInv /\ TutorTells

\* A visit goes from one step to the next, or begins.
VisitStep(v, r) ==
  /\ visits' = [visits EXCEPT ![v] = r] /\ ends' = ends
  /\ visits[v].pc # "done" /\ r.pc # "new"
  /\ visits[v].pc # "new" =>
       /\ r.kind = visits[v].kind /\ r.name = visits[v].name /\ r.to = visits[v].to
       /\ r.of = visits[v].of /\ r.before = visits[v].before /\ r.era = visits[v].era
  /\ visits[v].pc = "new" =>
       r.before = {q \in Visits : visits[q].pc = "done"} /\ r.era = ends

\* It changes no object but the one it makes, or holds to update; no title is empty.
Touches(v) ==
  /\ objects' \in [Visits -> Object]
  /\ \A o \in Visits :
       \/ objects'[o] = objects[o]
       \/ o = v /\ visits[v].pc = "new"
       \/ o = visits[v].of /\ visits[v].pc \in {"setTitle", "setBody"}
  /\ \A o \in Visits : visits[o].pc # "new" =>
       /\ objects[o].had \subseteq objects'[o].had
       /\ objects[o].title \in Visits => objects'[o].title \in Visits
       /\ objects[o].body \in Visits => objects'[o].body \in Visits

LEMMA GoesFacts ==
  ASSUME TutorIInv, NEW v \in Visits, NEW r \in Visit, VisitStep(v, r), Touches(v)
  PROVE  /\ visits' \in [Visits -> Visit] /\ visits'[v] = r
         /\ \A w \in Visits \ {v} : visits'[w] = visits[w]
         /\ \A w \in Visits : v \notin visits[w].before
         /\ \A w \in Visits : visits[w].pc # "new" =>
              /\ visits'[w].pc # "new"
              /\ visits'[w].kind = visits[w].kind /\ visits'[w].of = visits[w].of
              /\ visits'[w].before = visits[w].before /\ visits'[w].name = visits[w].name
              /\ visits'[w].to = visits[w].to /\ visits'[w].era = visits[w].era
         /\ \A w \in Visits : visits[w].pc # "new" /\ Disturbed(w) => Disturbed(w)'
         /\ \A w \in Visits \ {v} :
              visits[w].pc \notin {"new", "done"} /\ r.kind \in {"update", "rename"}
              /\ r.of = visits[w].of => Disturbed(w)'
         /\ \A o \in Visits : Real(o) => Real(o)'
<1>1. visits \in [Visits -> Visit]
  BY DEF TutorIInv, TutorInv, TutorOK
<1>2. /\ visits' \in [Visits -> Visit] /\ visits'[v] = r
      /\ \A w \in Visits \ {v} : visits'[w] = visits[w]
  BY <1>1 DEF VisitStep
<1>3. \A w \in Visits : v \notin visits[w].before
  BY DEF VisitStep, TutorIInv, TutorTells, VisitTells
<1>4. \A w \in Visits : visits[w].pc # "new" =>
        /\ visits'[w].pc # "new"
        /\ visits'[w].kind = visits[w].kind /\ visits'[w].of = visits[w].of
        /\ visits'[w].before = visits[w].before /\ visits'[w].name = visits[w].name
        /\ visits'[w].to = visits[w].to /\ visits'[w].era = visits[w].era
  BY <1>2 DEF VisitStep
<1>5. ASSUME NEW w \in Visits, visits[w].pc # "new", Disturbed(w) PROVE Disturbed(w)'
  <2>1. PICK q \in Visits : Changes(q) /\ visits[q].of = visits[w].of /\ VisitsOverlap(w, q)
    BY <1>5 DEF Disturbed
  <2>2. visits[q].pc # "new"
    BY <2>1 DEF VisitsOverlap
  <2>3. Changes(q)' /\ visits'[q].of = visits'[w].of /\ VisitsOverlap(w, q)'
    BY <1>4, <1>5, <2>1, <2>2 DEF Changes, VisitsOverlap
  <2> QED BY <2>3 DEF Disturbed
<1>6. ASSUME NEW w \in Visits \ {v}, visits[w].pc \notin {"new", "done"},
             r.kind \in {"update", "rename"}, r.of = visits[w].of
      PROVE  Disturbed(w)'
  <2>1. w \notin visits'[v].before
    BY <1>2, <1>6 DEF VisitStep, TutorIInv, TutorTells, VisitTells
  <2>2. VisitsOverlap(w, v)' /\ Changes(v)' /\ visits'[v].of = visits'[w].of
    BY <1>2, <1>3, <1>6, <2>1 DEF VisitsOverlap, Changes, VisitStep
  <2> QED BY <2>2 DEF Disturbed
<1>7. \A o \in Visits : Real(o) => Real(o)'
  BY <1>4 DEF Real, Touches
<1> QED BY <1>2, <1>3, <1>4, <1>5, <1>6, <1>7

\* Answers are whole, and what is in hand.
LEMMA GoesWhole ==
  ASSUME TutorIInv, NEW v \in Visits, NEW r \in Visit, VisitStep(v, r), Touches(v),
         r.out = "ok" /\ r.kind \notin {"list", "delete"} /\ ~Disturbed(v)' =>
           r.of # NoVisit /\ r.got \in objects'[r.of].had,
         r.pc \in {"title", "body"} /\ ~Disturbed(v)' =>
           /\ Whole(r.of)'
           /\ r.pc = "body" => r.got[1] = objects'[r.of].title
  PROVE  /\ AnswersAreWhole'
         /\ \A w \in Visits :
              visits'[w].pc \in {"title", "body"} /\ ~Disturbed(w)' =>
                /\ Whole(visits[w].of)'
                /\ visits'[w].pc = "body" => visits'[w].got[1] = objects'[visits'[w].of].title
<1>1. /\ visits'[v] = r /\ \A w \in Visits \ {v} : visits'[w] = visits[w]
      /\ \A w \in Visits : visits[w].pc # "new" /\ Disturbed(w) => Disturbed(w)'
      /\ \A w \in Visits \ {v} :
           visits[w].pc \notin {"new", "done"} /\ r.kind \in {"update", "rename"}
           /\ r.of = visits[w].of => Disturbed(w)'
  BY GoesFacts
<1>2. \A w \in Visits : VisitTells(w) /\ visits[w] \in Visit
  BY DEF TutorIInv, TutorTells, TutorInv, TutorOK
<1>3. ASSUME NEW w \in Visits, visits'[w].out = "ok", visits'[w].kind \notin {"list", "delete"},
             ~Disturbed(w)'
      PROVE  visits'[w].got \in objects'[visits'[w].of].had
  <2>1. CASE w = v
    BY <1>1, <1>3, <2>1
  <2>2. CASE w # v
    <3>1. visits'[w] = visits[w] /\ visits[w].pc = "done"
      BY <1>1, <1>2, <1>3, <2>2 DEF VisitTells
    <3>2. visits[w].got \in objects[visits[w].of].had
      BY <1>1, <1>3, <3>1 DEF TutorIInv, TutorInv, AnswersAreWhole, Disturbed
    <3>3. visits[w].of # NoVisit /\ visits[w].of \in Visits /\ visits[visits[w].of].pc # "new"
      BY <1>2, <1>3, <3>1 DEF VisitTells, Real
    <3> QED BY <3>1, <3>2, <3>3 DEF Touches
  <2> QED BY <2>1, <2>2
<1>4. AnswersAreWhole'
  BY <1>3 DEF AnswersAreWhole, Disturbed
<1>5. ASSUME NEW w \in Visits, visits'[w].pc \in {"title", "body"}, ~Disturbed(w)'
      PROVE  /\ Whole(visits[w].of)'
             /\ visits'[w].pc = "body" => visits'[w].got[1] = objects'[visits'[w].of].title
  <2>1. CASE w = v
    BY <1>1, <1>5, <2>1
  <2>2. CASE w # v
    <3>1. visits'[w] = visits[w] /\ ~Disturbed(w) /\ Whole(visits[w].of)
      BY <1>1, <1>2, <1>5, <2>2 DEF VisitTells
    <3>2. visits[w].of # NoVisit /\ visits[w].of \in Visits /\ visits[visits[w].of].pc # "new"
      BY <1>2, <1>5, <3>1 DEF VisitTells, Real
    <3>3. ~(visits[w].of = visits[v].of /\ visits[v].pc \in {"setTitle", "setBody"})
      BY <1>1, <1>2, <1>5, <2>2, <3>1 DEF VisitTells, Changes, VisitStep
    <3>4. objects'[visits[w].of] = objects[visits[w].of]
      BY <3>2, <3>3 DEF Touches
    <3>5. visits[w].pc = "body" => visits[w].got[1] = objects[visits[w].of].title
      BY <1>2, <1>5, <3>1 DEF VisitTells
    <3> QED BY <3>1, <3>4, <3>5 DEF Whole
  <2> QED BY <2>1, <2>2
<1> QED BY <1>4, <1>5

\* What is on the shelf.
LEMMA GoesShelf ==
  ASSUME TutorIInv, NEW v \in Visits, NEW r \in Visit, VisitStep(v, r), Touches(v),
         \A n \in Names :
           \/ shelf'[n] \in {NoVisit, shelf[n]}
           \/ shelf'[n] = r.of /\ visits[v].pc = "setBody"
           \/ shelf'[n] = v /\ Real(v)' /\ Whole(v)',
         visits[v].pc = "setTitle" => r.pc = "setBody",
         visits[v].pc = "setBody" => Whole(r.of)'
  PROVE  \A n \in Names :
           shelf'[n] # NoVisit => Real(shelf[n])' /\ (Whole(shelf[n])' \/ BeingWritten(shelf[n])')
<1>1. /\ visits'[v] = r /\ \A w \in Visits \ {v} : visits'[w] = visits[w]
      /\ \A o \in Visits : Real(o) => Real(o)'
  BY GoesFacts
<1>2. \A w \in Visits : VisitTells(w) /\ visits[w] \in Visit
  BY DEF TutorIInv, TutorTells, TutorInv, TutorOK
<1>3. ASSUME NEW n \in Names, NEW o, o = shelf'[n], o # NoVisit
      PROVE  Real(o)' /\ (Whole(o)' \/ BeingWritten(o)')
  <2>1. CASE o = v /\ Real(v)' /\ Whole(v)'
    BY <2>1
  <2>2. CASE o = r.of /\ visits[v].pc = "setBody"
    <3>1. Real(o) /\ o \in Visits
      BY <1>2, <1>3, <2>2 DEF VisitTells, VisitStep, Real
    <3> QED BY <3>1, <1>1, <2>2
  <2>3. CASE o = shelf[n]
    <3>1. Real(o) /\ (Whole(o) \/ BeingWritten(o)) /\ o \in Visits /\ visits[o].pc # "new"
      BY <1>3, <2>3 DEF TutorIInv, TutorTells, Real
    <3>2. Real(o)'
      BY <1>1, <3>1
    <3>3. CASE o = visits[v].of /\ visits[v].pc = "setTitle"
      <4>1. r.pc = "setBody" /\ r.of = o
        BY <3>3 DEF VisitStep
      <4> QED BY <3>2, <4>1, <1>1 DEF BeingWritten, Writing
    <3>4. CASE o = visits[v].of /\ visits[v].pc = "setBody"
      <4>1. r.of = o
        BY <3>4 DEF VisitStep
      <4> QED BY <3>2, <3>4, <4>1
    <3>5. CASE ~(o = visits[v].of /\ visits[v].pc \in {"setTitle", "setBody"})
      <4>1. objects'[o] = objects[o]
        BY <3>1, <3>5 DEF Touches
      <4>2. ASSUME NEW pc \in {"setTitle", "setBody"}, Writing(o, pc) PROVE Writing(o, pc)'
        <5>1. PICK q \in Visits : visits[q].pc = pc /\ visits[q].of = o
          BY <4>2 DEF Writing
        <5>2. q # v
          BY <5>1, <3>5
        <5> QED BY <5>1, <5>2, <1>1 DEF Writing
      <4>3. BeingWritten(o) => BeingWritten(o)'
        BY <4>2 DEF BeingWritten
      <4> QED BY <3>1, <3>2, <4>1, <4>3 DEF Whole
    <3> QED BY <3>3, <3>4, <3>5
  <2> QED BY <1>3, <2>1, <2>2, <2>3
<1> QED BY <1>3 DEF Real, Whole, BeingWritten, Writing

\* What was placed is there, or was taken away.
LEMMA GoesFound ==
  ASSUME TutorIInv, NEW v \in Visits, NEW r \in Visit, VisitStep(v, r), Touches(v),
         \A n \in Names :
           \/ shelf'[n] # NoVisit
           \/ shelf'[n] = shelf[n]
           \/ r.kind \in {"delete", "rename"} /\ r.name = n,
         r.kind = "create" \/ (r.kind = "rename" /\ r.pc \notin {"setTitle", "setBody"}) =>
           \/ shelf'[r.to] # NoVisit
           \/ visits[v].pc # "new" /\ HasPlaced(v),
         r.to \in Names,
         r.out = "missing" =>
           visits[v].pc = "new" /\ r.name \in Names /\ shelf[r.name] = NoVisit
  PROVE  /\ MadeIsFound'
         /\ \A w \in Visits : HasPlaced(w)' /\ visits'[w].era = ends' =>
              shelf'[visits'[w].to] # NoVisit \/ TakenAway(w, visits[w].to)'
<1>1. /\ visits' \in [Visits -> Visit] /\ visits'[v] = r
      /\ \A w \in Visits \ {v} : visits'[w] = visits[w]
      /\ \A w \in Visits : v \notin visits[w].before
      /\ \A w \in Visits : visits[w].pc # "new" =>
           /\ visits'[w].pc # "new"
           /\ visits'[w].kind = visits[w].kind
           /\ visits'[w].before = visits[w].before /\ visits'[w].name = visits[w].name
           /\ visits'[w].to = visits[w].to /\ visits'[w].era = visits[w].era
  BY GoesFacts
<1>2. \A w \in Visits : VisitTells(w) /\ visits[w] \in Visit
  BY DEF TutorIInv, TutorTells, TutorInv, TutorOK
<1>3. ASSUME NEW c \in Visits, HasPlaced(c)', visits'[c].era = ends'
      PROVE  shelf'[visits'[c].to] # NoVisit \/ TakenAway(c, visits[c].to)'
  <2>1. CASE c = v /\ shelf'[r.to] # NoVisit
    BY <2>1, <1>1
  <2>2. CASE visits[c].pc # "new" /\ HasPlaced(c)
    <3>1. /\ visits'[c].to = visits[c].to /\ visits[c].era = ends
          /\ visits'[c].before = visits[c].before
      BY <1>1, <1>3, <2>2 DEF VisitStep
    <3>2. shelf[visits[c].to] # NoVisit \/ TakenAway(c, visits[c].to)
      BY <1>2, <2>2, <3>1 DEF VisitTells
    <3>3. CASE TakenAway(c, visits[c].to)
      BY <1>1, <2>2, <3>1, <3>3 DEF TakenAway
    <3>4. CASE shelf[visits[c].to] # NoVisit
      <4>1. visits[c].to \in Names
        BY <1>2, <2>2 DEF VisitTells
      <4>2. \/ shelf'[visits[c].to] # NoVisit
            \/ r.kind \in {"delete", "rename"} /\ r.name = visits[c].to
        BY <3>4, <4>1
      <4>3. r.kind \in {"delete", "rename"} /\ r.name = visits[c].to =>
              TakenAway(c, visits[c].to)'
        BY <1>1, <3>1 DEF TakenAway, VisitStep
      <4> QED BY <3>1, <4>2, <4>3
    <3> QED BY <3>2, <3>3, <3>4
  <2>3. CASE c # v
    <3>1. visits[c].pc # "new"
      BY <1>1, <1>2, <1>3, <2>3 DEF VisitTells, HasPlaced
    <3>2. HasPlaced(c)
      BY <1>1, <1>3, <2>3 DEF HasPlaced
    <3> QED BY <2>2, <3>1, <3>2
  <2>4. CASE c = v
    BY <1>1, <1>3, <2>1, <2>2, <2>4 DEF HasPlaced
  <2> QED BY <2>3, <2>4
<1>4. MadeIsFound'
  <2> SUFFICES ASSUME NEW w \in Visits, NEW c \in visits'[w].before,
                      visits'[w].out = "missing", visits'[w].era = visits'[c].era,
                      visits'[c].out = "ok", visits'[c].kind \in {"create", "rename"},
                      visits'[c].to = visits'[w].name
      PROVE  \E q \in Visits :
               /\ visits'[q].kind \in {"delete", "rename"} /\ visits'[q].name = visits'[w].name
               /\ visits'[q].pc # "new" /\ q \notin visits'[c].before /\ w \notin visits'[q].before
    BY DEF MadeIsFound
  <2>1. c \in Visits /\ c # v /\ visits'[c] = visits[c] /\ visits[c].pc # "new"
    <3>1. c \in Visits
      BY <1>1 DEF Visit
    <3>2. c # v
      BY <1>1, <1>2 DEF VisitStep
    <3>3. visits[c].pc = "done"
      BY <1>1, <1>2, <3>1, <3>2 DEF VisitTells
    <3> QED BY <3>1, <3>2, <3>3, <1>1
  <2>2. CASE w # v
    <3>1. visits'[w] = visits[w] /\ visits[w].pc # "new"
      BY <1>1, <1>2, <2>2 DEF VisitTells
    <3>2. PICK q \in Visits :
            /\ visits[q].kind \in {"delete", "rename"} /\ visits[q].name = visits[w].name
            /\ visits[q].pc # "new" /\ q \notin visits[c].before /\ w \notin visits[q].before
      BY <2>1, <3>1 DEF TutorIInv, TutorInv, MadeIsFound
    <3> QED BY <1>1, <2>1, <3>1, <3>2
  <2>3. CASE w = v
    <3>1. /\ visits[v].pc = "new" /\ r.name \in Names /\ shelf[r.name] = NoVisit
          /\ r.era = ends
      BY <1>1, <2>3 DEF VisitStep
    <3>2. visits[c].era = ends /\ HasPlaced(c) /\ visits[c].to = r.name
      <4>1. visits[c].pc = "done"
        BY <1>2, <2>1 DEF VisitTells
      <4> QED BY <1>1, <2>1, <2>3, <3>1, <4>1 DEF HasPlaced
    <3>3. PICK q \in Visits :
            /\ visits[q].kind \in {"delete", "rename"} /\ visits[q].name = r.name
            /\ visits[q].pc # "new" /\ q \notin visits[c].before
      BY <1>2, <2>1, <3>1, <3>2 DEF VisitTells, TakenAway
    <3> QED BY <1>1, <2>1, <2>3, <3>3
  <2> QED BY <2>2, <2>3
<1> QED BY <1>3, <1>4

LEMMA VisitGoes ==
  ASSUME TutorIInv, NEW v \in Visits, NEW r \in Visit, VisitStep(v, r), Touches(v),
         mutex' \in Visits \cup {NoVisit}, shelf' \in [Names -> Visits \cup {NoVisit}],
         restarts' \in 0..MaxRestarts,
         mutex' = mutex \/ mutex \in {NoVisit, v},
         r.pc \in {"list", "setTitle", "setBody"} => mutex' = v,
         r.pc = "list" => r.kind = "list",
         r.out # "none" => r.pc = "done",
         r.of # NoVisit => Real(r.of)',
         r.of = NoVisit =>
           /\ r.pc \notin {"setTitle", "setBody", "title", "body"}
           /\ r.out = "ok" => r.kind \in {"list", "delete"},
         r.pc \in {"setTitle", "setBody"} =>
           r.kind = IF r.to = r.name THEN "update" ELSE "rename",
         r.out = "ok" /\ r.kind \notin {"list", "delete"} /\ ~Disturbed(v)' =>
           r.of # NoVisit /\ r.got \in objects'[r.of].had,
         r.pc \in {"title", "body"} /\ ~Disturbed(v)' =>
           /\ Whole(r.of)'
           /\ r.pc = "body" => r.got[1] = objects'[r.of].title,
         \A n \in Names :
           \/ shelf'[n] \in {NoVisit, shelf[n]}
           \/ shelf'[n] = r.of /\ visits[v].pc = "setBody"
           \/ shelf'[n] = v /\ Real(v)' /\ Whole(v)',
         visits[v].pc = "setTitle" => r.pc = "setBody",
         visits[v].pc = "setBody" => Whole(r.of)',
         \A n \in Names :
           \/ shelf'[n] # NoVisit
           \/ shelf'[n] = shelf[n]
           \/ r.kind \in {"delete", "rename"} /\ r.name = n,
         r.kind = "create" \/ (r.kind = "rename" /\ r.pc \notin {"setTitle", "setBody"}) =>
           \/ shelf'[r.to] # NoVisit
           \/ visits[v].pc # "new" /\ HasPlaced(v),
         r.to \in Names,
         r.out = "missing" =>
           visits[v].pc = "new" /\ r.name \in Names /\ shelf[r.name] = NoVisit
  PROVE  TutorIInv'
<1>1. /\ visits' \in [Visits -> Visit] /\ visits'[v] = r
      /\ \A w \in Visits \ {v} : visits'[w] = visits[w]
      /\ \A w \in Visits : v \notin visits[w].before
      /\ \A o \in Visits : Real(o) => Real(o)'
  BY GoesFacts
<1>2. /\ \A w \in Visits : VisitTells(w) /\ visits[w] \in Visit
      /\ TutorOK /\ MutexIsHeld
  BY DEF TutorIInv, TutorTells, TutorInv, TutorOK
<1>3. TutorOK'
  BY <1>1, <1>2 DEF TutorOK, VisitStep, Touches
<1>4. MutexIsHeld'
  <2> SUFFICES ASSUME NEW w \in Visits, visits'[w].pc \in {"list", "setTitle", "setBody"}
      PROVE  mutex' = w
    BY DEF MutexIsHeld
  <2>1. CASE w = v
    BY <2>1, <1>1
  <2>2. CASE w # v
    <3>1. mutex = w
      BY <2>2, <1>1, <1>2 DEF MutexIsHeld
    <3> QED BY <2>2, <3>1, TutorAssumption
  <2> QED BY <2>1, <2>2
<1>5. /\ AnswersAreWhole'
      /\ \A w \in Visits :
           visits'[w].pc \in {"title", "body"} /\ ~Disturbed(w)' =>
             /\ Whole(visits[w].of)'
             /\ visits'[w].pc = "body" => visits'[w].got[1] = objects'[visits'[w].of].title
  BY GoesWhole
<1>6. \A n \in Names :
        shelf'[n] # NoVisit => Real(shelf[n])' /\ (Whole(shelf[n])' \/ BeingWritten(shelf[n])')
  BY GoesShelf
<1>7. /\ MadeIsFound'
      /\ \A w \in Visits : HasPlaced(w)' /\ visits'[w].era = ends' =>
           shelf'[visits'[w].to] # NoVisit \/ TakenAway(w, visits[w].to)'
  BY GoesFound
<1>8. ASSUME NEW w \in Visits PROVE VisitTells(w)'
  <2>1. /\ visits'[w].era <= ends'
        /\ IF visits'[w].pc = "new" THEN visits'[w].kind = "get" ELSE visits'[w].to \in Names
        /\ visits'[w].pc = "list" => visits'[w].kind = "list"
        /\ visits'[w].out # "none" => visits'[w].pc = "done"
        /\ visits'[w].of = NoVisit =>
             /\ visits'[w].pc \notin {"setTitle", "setBody", "title", "body"}
             /\ visits'[w].out = "ok" => visits'[w].kind \in {"list", "delete"}
        /\ visits'[w].pc \in {"setTitle", "setBody"} =>
             visits'[w].kind = IF visits'[w].to = visits'[w].name THEN "update" ELSE "rename"
    <3>1. CASE w = v
      <4>1. r.era <= ends'
        BY <1>2 DEF VisitStep, VisitTells, TutorOK
      <4> QED BY <3>1, <4>1, <1>1 DEF VisitStep
    <3>2. CASE w # v
      BY <3>2, <1>1, <1>2 DEF VisitTells, VisitStep, Changes
    <3> QED BY <3>1, <3>2
  <2>2. visits'[w].of # NoVisit => Real(visits[w].of)'
    <3>1. CASE w = v
      BY <3>1, <1>1 DEF Real
    <3>2. CASE w # v
      <4>1. visits'[w].of = visits[w].of
        BY <3>2, <1>1
      <4>2. visits[w].of # NoVisit => Real(visits[w].of) /\ visits[w].of \in Visits
        BY <1>2 DEF VisitTells, Real
      <4> QED BY <4>1, <4>2, <1>1 DEF Real
    <3> QED BY <3>1, <3>2
  <2>3. \A q \in visits'[w].before : visits'[q].pc = "done"
    <3>1. \A q \in visits'[w].before : q \in Visits /\ q # v /\ visits[q].pc = "done"
      <4>1. CASE w = v
        BY <4>1, <1>1, <1>2 DEF VisitStep, VisitTells, Visit
      <4>2. CASE w # v
        BY <4>2, <1>1, <1>2 DEF VisitTells, Visit
      <4> QED BY <4>1, <4>2
    <3> QED BY <3>1, <1>1
  <2> QED BY <2>1, <2>2, <2>3, <1>5, <1>7 DEF VisitTells, Changes
<1> QED BY <1>3, <1>4, <1>5, <1>6, <1>7, <1>8 DEF TutorIInv, TutorInv, TutorTells

-----------------------------------------------------------------------------
(* DeepTutor: requests that enter.                                         *)

Kinds == {"get", "copy", "list", "create", "update", "rename", "delete"}
FirstPcs == {"list", "setTitle", "title", "body", "done"}
Outs == {"none", "missing", "ok", "failed"}
EntryAs(q, kind, n, o, over, now, pc, out) ==
  [q EXCEPT !.pc = pc, !.kind = kind, !.name = n, !.to = n, !.of = o,
     !.before = over, !.era = now, !.out = out]

LEMMA EntryIsVisit ==
  ASSUME NEW q \in Visit, NEW out \in Outs, NEW now \in Nat,
         NEW over \in SUBSET Visits, NEW n \in Names, NEW o \in Visits \cup {NoVisit},
         NEW kind \in Kinds,
         NEW pc \in FirstPcs
  PROVE  \E e \in Visit :
           /\ e = EntryAs(q, kind, n, o, over, now, pc, out)
           /\ e.pc = pc /\ e.kind = kind /\ e.name = n /\ e.to = n /\ e.of = o
           /\ e.era = now /\ e.before = over /\ e.out = out
<1>1. PICK P, K, O, G :
        /\ Visit = [pc : P, kind : K, name : Names \cup {NoVisit}, to : Names \cup {NoVisit},
                    of : Visits \cup {NoVisit}, got : G, before : SUBSET Visits, era : Nat, out : O]
        /\ pc \in P /\ kind \in K /\ out \in O
  <2> DEFINE P == {"new", "list", "setTitle", "setBody", "title", "body", "done"}
             G == (Visits \cup {NoVisit, Garbled}) \X (Visits \cup {NoVisit, Garbled})
  <2>1. Visit = [pc : P, kind : Kinds, name : Names \cup {NoVisit}, to : Names \cup {NoVisit},
                 of : Visits \cup {NoVisit}, got : G, before : SUBSET Visits, era : Nat, out : Outs]
    BY DEF Visit, Kinds, Outs
  <2>2. pc \in P
    BY DEF FirstPcs
  <2> HIDE DEF P, G
  <2> QED BY <2>1, <2>2
<1>2. n \in Names \cup {NoVisit}
  OBVIOUS
<1>3. EntryAs(q, kind, n, o, over, now, pc, out) \in Visit
  BY <1>1, <1>2 DEF EntryAs
<1> DEFINE e == EntryAs(q, kind, n, o, over, now, pc, out)
<1>4. /\ e.pc = pc /\ e.kind = kind /\ e.name = n /\ e.to = n /\ e.of = o
      /\ e.era = now /\ e.before = over /\ e.out = out
  BY <1>1 DEF EntryAs
<1> HIDE DEF e
<1>5. \E x : x = e /\ x = EntryAs(q, kind, n, o, over, now, pc, out)
  BY DEF e
<1> QED BY <1>3, <1>4, <1>5

LEMMA EnteredFacts ==
  ASSUME TutorIInv, NEW v \in Visits, Enters(v), NEW n \in Names,
         NEW kind \in Kinds,
         NEW pc \in FirstPcs
  PROVE  /\ Entered(v, kind, n, pc) \in Visit
         /\ Entered(v, kind, n, pc).pc = pc /\ Entered(v, kind, n, pc).kind = kind
         /\ Entered(v, kind, n, pc).name = n /\ Entered(v, kind, n, pc).to = n
         /\ Entered(v, kind, n, pc).of = shelf[n] /\ Entered(v, kind, n, pc).era = ends
         /\ Entered(v, kind, n, pc).before = {q \in Visits : visits[q].pc = "done"}
         /\ Entered(v, kind, n, pc).out = IF pc = "done" THEN "ok" ELSE "none"
<1>1. /\ visits[v] \in Visit /\ shelf[n] \in Visits \cup {NoVisit} /\ ends \in Nat
  BY DEF TutorIInv, TutorInv, TutorOK
<1>2. /\ \E x \in Visits \cup {NoVisit} : x = shelf[n]
      /\ \E x \in SUBSET Visits : x = {q \in Visits : visits[q].pc = "done"}
      /\ \E x \in Outs : x = IF pc = "done" THEN "ok" ELSE "none"
  BY <1>1 DEF Outs
<1>3. PICK q \in Visit, o \in Visits \cup {NoVisit}, now \in Nat, over \in SUBSET Visits,
           out \in Outs :
        /\ q = visits[v] /\ o = shelf[n] /\ now = ends
        /\ over = {p \in Visits : visits[p].pc = "done"}
        /\ out = IF pc = "done" THEN "ok" ELSE "none"
  BY <1>1, <1>2
<1>4. Entered(v, kind, n, pc) = EntryAs(q, kind, n, o, over, now, pc, out)
  BY <1>3 DEF Entered, EntryAs
<1>5. PICK e \in Visit :
        /\ e = EntryAs(q, kind, n, o, over, now, pc, out)
        /\ e.pc = pc /\ e.kind = kind /\ e.name = n /\ e.to = n /\ e.of = o
        /\ e.era = now /\ e.before = over /\ e.out = out
  BY EntryIsVisit
<1> QED BY <1>3, <1>4, <1>5

\* Nobody writes while the mutex is free.
LEMMA FreeMutex ==
  ASSUME TutorIInv, mutex = NoVisit
  PROVE  \A n \in Names : shelf[n] # NoVisit => Real(shelf[n]) /\ Whole(shelf[n])
<1>1. \A o : ~BeingWritten(o)
  BY TutorAssumption DEF TutorIInv, TutorInv, MutexIsHeld, BeingWritten, Writing
<1> QED BY <1>1 DEF TutorIInv, TutorTells

\* A request that leaves objects and names as they are.
LEMMA EntersKeep ==
  ASSUME TutorIInv, NEW v \in Visits, Enters(v), NEW n \in Names, NEW r \in Visit,
         visits' = [visits EXCEPT ![v] = r],
         r.pc \in {"list", "setTitle", "title", "body", "done"},
         r.name = n, r.to \in Names, r.of = shelf[n], r.era = ends,
         r.before = {q \in Visits : visits[q].pc = "done"},
         r.pc = "list" => r.kind = "list",
         r.out # "none" => r.pc = "done",
         r.out = "missing" => shelf[n] = NoVisit,
         r.out = "ok" => r.kind = "list" \/ r.kind = "delete"
                         \/ r.got = <<objects[shelf[n]].title, objects[shelf[n]].body>>,
         r.pc = "body" => r.got[1] = objects[shelf[n]].title,
         shelf[n] = NoVisit =>
           r.pc \in {"list", "done"} /\ (r.out = "ok" => r.kind \in {"list", "delete"}),
         r.pc = "setTitle" => r.kind = IF r.to = r.name THEN "update" ELSE "rename",
         r.kind # "create" /\ (r.kind = "rename" => r.pc = "setTitle"),
         mutex' = IF r.pc \in {"list", "setTitle"} THEN v ELSE mutex,
         \/ shelf' = shelf
         \/ r.kind = "delete" /\ shelf' = [shelf EXCEPT ![n] = NoVisit],
         UNCHANGED <<objects, ends, restarts>>
  PROVE  TutorIInv'
<1>1. /\ visits[v].pc = "new" /\ mutex = NoVisit /\ TutorOK
      /\ shelf \in [Names -> Visits \cup {NoVisit}] /\ objects \in [Visits -> Object]
      /\ restarts \in 0..MaxRestarts
  BY DEF Enters, TutorIInv, TutorInv, TutorOK
<1>2. VisitStep(v, r) /\ Touches(v)
  BY <1>1 DEF VisitStep, Touches
<1>3. shelf[n] # NoVisit => Real(shelf[n]) /\ Whole(shelf[n]) /\ shelf[n] \in Visits
  BY <1>1, FreeMutex DEF Real
<1>4. \A o \in Visits : Real(o) => Real(o)'
  BY <1>2, GoesFacts
<1>5. r.of # NoVisit => Real(r.of)' /\ Whole(r.of)'
  BY <1>3, <1>4 DEF Whole
<1>6. r.out = "ok" /\ r.kind \notin {"list", "delete"} =>
        r.of # NoVisit /\ r.got \in objects'[r.of].had
  BY <1>3 DEF Whole
<1>7. r.pc \in {"title", "body"} =>
        Whole(r.of)' /\ (r.pc = "body" => r.got[1] = objects'[r.of].title)
  BY <1>5
<1>8. shelf' \in [Names -> Visits \cup {NoVisit}] /\ mutex' \in Visits \cup {NoVisit}
  BY <1>1
<1>9. \A m \in Names :
        /\ shelf'[m] \in {NoVisit, shelf[m]}
        /\ \/ shelf'[m] = shelf[m]
           \/ r.kind \in {"delete", "rename"} /\ r.name = m
  BY <1>1
<1> QED BY <1>1, <1>2, <1>5, <1>6, <1>7, <1>8, <1>9, VisitGoes

LEMMA RequestsEnter ==
  ASSUME TutorIInv, NEW v \in Visits, NEW n \in Names,
         \/ Get(v, n) \/ Copy(v, n) \/ Delete(v, n) \/ List(v, n) \/ Update(v, n) \/ Missing(v, n)
         \/ \E to \in Names : Rename(v, n, to)
  PROVE  TutorIInv'
<1>1. Enters(v) /\ visits \in [Visits -> Visit] /\ NoVisit \notin Visits
  BY TutorAssumption
     DEF Get, Copy, Delete, List, Update, Missing, Rename, TutorIInv, TutorInv, TutorOK
<1>2. CASE Get(v, n)
  <2>1. PICK r \in Visit :
          /\ r = Entered(v, "get", n, "title")
          /\ r.pc = "title" /\ r.kind = "get" /\ r.name = n /\ r.to = n /\ r.of = shelf[n]
          /\ r.era = ends /\ r.before = {q \in Visits : visits[q].pc = "done"} /\ r.out = "none"
    BY <1>1, EnteredFacts DEF Kinds, FirstPcs
  <2>2. /\ visits' = [visits EXCEPT ![v] = r] /\ shelf[n] # NoVisit
        /\ UNCHANGED <<mutex, shelf, objects, ends, restarts>>
    BY <1>2, <2>1 DEF Get
  <2> QED BY <1>1, <2>1, <2>2, EntersKeep
<1>3. CASE Copy(v, n)
  <2> DEFINE o == objects[shelf[n]]
             pc == IF o.inPlace THEN "body" ELSE "done"
             e == Entered(v, "copy", n, pc)
             r == [e EXCEPT !.got = <<o.title, o.body>>]
  <2>1. /\ e \in Visit /\ e.pc = pc /\ e.kind = "copy" /\ e.name = n /\ e.to = n
        /\ e.of = shelf[n] /\ e.era = ends
        /\ e.before = {q \in Visits : visits[q].pc = "done"}
        /\ e.out = IF pc = "done" THEN "ok" ELSE "none"
    <3> HIDE DEF o
    <3>1. pc \in {"list", "setTitle", "title", "body", "done"}
      OBVIOUS
    <3> HIDE DEF pc
    <3> QED BY <1>1, <3>1, EnteredFacts DEF Kinds, FirstPcs
  <2>2. /\ visits' = [visits EXCEPT ![v] = r] /\ shelf[n] # NoVisit
        /\ UNCHANGED <<mutex, shelf, objects, ends, restarts>>
    BY <1>3 DEF Copy
  <2>3. o.title \in Visits /\ o.body \in Visits
    BY <1>1, <2>2, FreeMutex DEF Enters, Real
  <2>4. pc \in {"body", "done"}
    OBVIOUS
  <2> HIDE DEF pc, e, o
  <2>5. /\ r \in Visit /\ r.pc = pc /\ r.kind = "copy" /\ r.name = n /\ r.to = n
        /\ r.of = shelf[n] /\ r.era = ends
        /\ r.before = {q \in Visits : visits[q].pc = "done"}
        /\ r.out = IF pc = "done" THEN "ok" ELSE "none"
        /\ r.got = <<o.title, o.body>>
    BY <2>1, <2>3 DEF Visit
  <2> HIDE DEF r
  <2>6. r.got = <<objects[shelf[n]].title, objects[shelf[n]].body>>
        /\ r.got[1] = objects[shelf[n]].title
    BY <2>5 DEF o
  <2> QED BY <1>1, <2>2, <2>4, <2>5, <2>6, EntersKeep
<1>4. CASE Delete(v, n)
  <2>1. PICK r \in Visit :
          /\ r = Entered(v, "delete", n, "done")
          /\ r.pc = "done" /\ r.kind = "delete" /\ r.name = n /\ r.to = n /\ r.of = shelf[n]
          /\ r.era = ends /\ r.before = {q \in Visits : visits[q].pc = "done"} /\ r.out = "ok"
    BY <1>1, EnteredFacts DEF Kinds, FirstPcs
  <2>2. /\ visits' = [visits EXCEPT ![v] = r] /\ shelf' = [shelf EXCEPT ![n] = NoVisit]
        /\ UNCHANGED <<mutex, objects, ends, restarts>>
    BY <1>4, <2>1 DEF Delete
  <2> QED BY <1>1, <2>1, <2>2, EntersKeep
<1>5. CASE List(v, n)
  <2>1. PICK r \in Visit :
          /\ r = Entered(v, "list", n, "list")
          /\ r.pc = "list" /\ r.kind = "list" /\ r.name = n /\ r.to = n /\ r.of = shelf[n]
          /\ r.era = ends /\ r.before = {q \in Visits : visits[q].pc = "done"} /\ r.out = "none"
    BY <1>1, EnteredFacts DEF Kinds, FirstPcs
  <2>2. /\ visits' = [visits EXCEPT ![v] = r] /\ mutex' = v
        /\ UNCHANGED <<shelf, objects, ends, restarts>>
    BY <1>5, <2>1 DEF List
  <2> QED BY <1>1, <2>1, <2>2, EntersKeep
<1>6. CASE Update(v, n)
  <2>1. PICK r \in Visit :
          /\ r = Entered(v, "update", n, "setTitle")
          /\ r.pc = "setTitle" /\ r.kind = "update" /\ r.name = n /\ r.to = n /\ r.of = shelf[n]
          /\ r.era = ends /\ r.before = {q \in Visits : visits[q].pc = "done"} /\ r.out = "none"
    BY <1>1, EnteredFacts DEF Kinds, FirstPcs
  <2>2. /\ visits' = [visits EXCEPT ![v] = r] /\ mutex' = v /\ shelf[n] # NoVisit
        /\ UNCHANGED <<shelf, objects, ends, restarts>>
    BY <1>6, <2>1 DEF Update
  <2> QED BY <1>1, <2>1, <2>2, EntersKeep
<1>7. CASE Missing(v, n)
  <2> DEFINE r == [Entered(v, "get", n, "done") EXCEPT !.out = "missing"]
  <2>1. /\ r \in Visit /\ r.pc = "done" /\ r.kind = "get" /\ r.name = n /\ r.to = n
        /\ r.of = shelf[n] /\ r.era = ends
        /\ r.before = {q \in Visits : visits[q].pc = "done"} /\ r.out = "missing"
    <3>1. PICK e \in Visit :
            /\ e = Entered(v, "get", n, "done")
            /\ e.pc = "done" /\ e.kind = "get" /\ e.name = n /\ e.to = n /\ e.of = shelf[n]
            /\ e.era = ends /\ e.before = {q \in Visits : visits[q].pc = "done"}
      BY <1>1, EnteredFacts DEF Kinds, FirstPcs
    <3> QED BY <3>1 DEF Visit
  <2>2. /\ visits' = [visits EXCEPT ![v] = r] /\ shelf[n] = NoVisit
        /\ UNCHANGED <<mutex, shelf, objects, ends, restarts>>
    BY <1>7 DEF Missing
  <2> HIDE DEF r
  <2> QED BY <1>1, <2>1, <2>2, EntersKeep
<1>8. CASE \E to \in Names : Rename(v, n, to)
  <2>1. PICK to \in Names : Rename(v, n, to)
    BY <1>8
  <2> DEFINE r == [Entered(v, "rename", n, "setTitle") EXCEPT !.to = to]
  <2>2. /\ r \in Visit /\ r.pc = "setTitle" /\ r.kind = "rename" /\ r.name = n /\ r.to = to
        /\ r.of = shelf[n] /\ r.era = ends
        /\ r.before = {q \in Visits : visits[q].pc = "done"} /\ r.out = "none"
    <3>1. PICK e \in Visit :
            /\ e = Entered(v, "rename", n, "setTitle")
            /\ e.pc = "setTitle" /\ e.kind = "rename" /\ e.name = n /\ e.of = shelf[n]
            /\ e.era = ends /\ e.before = {q \in Visits : visits[q].pc = "done"}
            /\ e.out = "none"
      BY <1>1, EnteredFacts DEF Kinds, FirstPcs
    <3> QED BY <3>1 DEF Visit
  <2>3. /\ visits' = [visits EXCEPT ![v] = r] /\ mutex' = v /\ shelf[n] # NoVisit /\ to # n
        /\ UNCHANGED <<shelf, objects, ends, restarts>>
    BY <2>1 DEF Rename
  <2> HIDE DEF r
  <2> QED BY <1>1, <2>2, <2>3, EntersKeep
<1> QED BY <1>2, <1>3, <1>4, <1>5, <1>6, <1>7, <1>8

LEMMA CreateKeeps ==
  ASSUME TutorIInv, NEW v \in Visits, NEW n \in Names, Create(v, n)
  PROVE  TutorIInv'
<1> DEFINE r == [Entered(v, "create", n, "title") EXCEPT !.of = v]
<1>1. /\ Enters(v) /\ visits[v].pc = "new" /\ mutex = NoVisit
      /\ objects \in [Visits -> Object] /\ shelf \in [Names -> Visits \cup {NoVisit}]
      /\ restarts \in 0..MaxRestarts /\ NoVisit \notin Visits
  BY TutorAssumption DEF Create, Enters, TutorIInv, TutorInv, TutorOK
<1>2. /\ r \in Visit /\ r.pc = "title" /\ r.kind = "create" /\ r.name = n /\ r.to = n
      /\ r.of = v /\ r.era = ends
      /\ r.before = {q \in Visits : visits[q].pc = "done"} /\ r.out = "none"
  <2>1. PICK e \in Visit :
          /\ e = Entered(v, "create", n, "title")
          /\ e.pc = "title" /\ e.kind = "create" /\ e.name = n /\ e.to = n
          /\ e.era = ends /\ e.before = {q \in Visits : visits[q].pc = "done"}
          /\ e.out = "none"
    BY <1>1, EnteredFacts DEF Kinds, FirstPcs
  <2> QED BY <2>1 DEF Visit
<1>3. /\ visits' = [visits EXCEPT ![v] = r] /\ shelf' = [shelf EXCEPT ![n] = v]
      /\ objects' = [objects EXCEPT ![v].title = v, ![v].body = v, ![v].had = {<<v, v>>}]
      /\ UNCHANGED <<mutex, ends, restarts>>
  BY DEF Create
<1> HIDE DEF r
<1>4. /\ objects' \in [Visits -> Object]
      /\ objects'[v].title = v /\ objects'[v].body = v /\ objects'[v].had = {<<v, v>>}
      /\ \A o \in Visits \ {v} : objects'[o] = objects[o]
  <2>1. objects[v] \in Object /\ {<<v, v>>} \in SUBSET (Visits \X Visits)
    BY <1>1
  <2> DEFINE x == [objects[v] EXCEPT !.title = v, !.body = v, !.had = {<<v, v>>}]
  <2>2. x \in Object /\ x.title = v /\ x.body = v /\ x.had = {<<v, v>>}
    BY <2>1 DEF Object
  <2>3. objects' = [objects EXCEPT ![v] = x]
    BY <1>1, <1>3
  <2> HIDE DEF x
  <2> QED BY <1>1, <2>2, <2>3
<1>5. VisitStep(v, r) /\ Touches(v)
  BY <1>1, <1>2, <1>3, <1>4 DEF VisitStep, Touches
<1>6. visits'[v].pc # "new"
  BY <1>2, <1>5, GoesFacts
<1>7. Real(v)' /\ Whole(v)'
  BY <1>4, <1>6 DEF Real, Whole
<1>8. shelf' \in [Names -> Visits \cup {NoVisit}]
  BY <1>1, <1>3
<1>9. \A m \in Names : shelf'[m] = shelf[m] \/ shelf'[m] = v
  BY <1>1, <1>3
<1>10. shelf'[n] = v
  BY <1>1, <1>3
<1> QED BY <1>1, <1>2, <1>3, <1>5, <1>7, <1>8, <1>9, <1>10, VisitGoes

-----------------------------------------------------------------------------
(* DeepTutor: requests that go on, and the end of the process.             *)

LEMMA GoingFacts ==
  ASSUME TutorIInv, NEW v \in Visits, visits[v].pc \notin {"new", "done"}
  PROVE  /\ visits[v] \in Visit /\ VisitTells(v) /\ visits[v].to \in Names
         /\ visits[v].pc # "list" => visits[v].of \in Visits /\ Real(visits[v].of)
                                     /\ visits[v].of # NoVisit
         /\ visits[v].out = "none"
         /\ objects \in [Visits -> Object] /\ shelf \in [Names -> Visits \cup {NoVisit}]
         /\ visits \in [Visits -> Visit]
         /\ mutex \in Visits \cup {NoVisit} /\ restarts \in 0..MaxRestarts
         /\ visits[v].pc \in {"list", "setTitle", "setBody"} => mutex = v
<1>1. /\ visits[v] \in Visit /\ VisitTells(v)
      /\ objects \in [Visits -> Object] /\ shelf \in [Names -> Visits \cup {NoVisit}]
      /\ visits \in [Visits -> Visit]
      /\ mutex \in Visits \cup {NoVisit} /\ restarts \in 0..MaxRestarts
      /\ visits[v].pc \in {"list", "setTitle", "setBody"} => mutex = v
  BY DEF TutorIInv, TutorInv, TutorOK, TutorTells, MutexIsHeld
<1>2. visits[v].to \in Names /\ visits[v].out = "none"
  BY <1>1 DEF VisitTells, Visit
<1>3. visits[v].pc \in {"list", "setTitle", "setBody", "title", "body"}
  BY <1>1 DEF Visit
<1> QED BY <1>1, <1>2, <1>3 DEF VisitTells, Real

\* One that only encodes, or has been listed.
LEMMA EncodesKeep ==
  ASSUME TutorIInv, NEW v \in Visits, visits[v].pc \notin {"new", "done"}, NEW r \in Visit,
         visits' = [visits EXCEPT ![v] = r],
         r.kind = visits[v].kind, r.name = visits[v].name, r.to = visits[v].to,
         r.of = visits[v].of, r.before = visits[v].before, r.era = visits[v].era,
         r.pc \in {"body", "done"}, visits[v].pc \in {"list", "title", "body"},
         r.out = IF r.pc = "done" THEN "ok" ELSE "none",
         visits[v].pc = "list" => r.pc = "done" /\ r.kind = "list",
         visits[v].pc # "list" /\ ~Disturbed(v) =>
           /\ r.pc = "body" => r.got[1] = objects[visits[v].of].title
           /\ r.pc = "done" =>
                r.got = <<objects[visits[v].of].title, objects[visits[v].of].body>>,
         mutex' = mutex \/ (visits[v].pc = "list" /\ mutex' = NoVisit),
         UNCHANGED <<shelf, objects, ends, restarts>>
  PROVE  TutorIInv'
<1>1. /\ visits[v] \in Visit /\ VisitTells(v) /\ visits[v].to \in Names
      /\ visits[v].pc # "list" => visits[v].of \in Visits /\ Real(visits[v].of)
                                  /\ visits[v].of # NoVisit
      /\ visits[v].out = "none"
      /\ objects \in [Visits -> Object] /\ shelf \in [Names -> Visits \cup {NoVisit}]
      /\ mutex \in Visits \cup {NoVisit} /\ restarts \in 0..MaxRestarts
      /\ visits[v].pc \in {"list", "setTitle", "setBody"} => mutex = v
  BY GoingFacts
<1>2. VisitStep(v, r) /\ Touches(v)
  BY <1>1 DEF VisitStep, Touches
<1>3. /\ \A o \in Visits : Real(o) => Real(o)'
      /\ Disturbed(v) => Disturbed(v)'
  BY <1>2, GoesFacts
<1>4. r.of # NoVisit => Real(r.of)'
  BY <1>1, <1>3 DEF VisitTells, Real
<1>5. visits[v].pc # "list" /\ ~Disturbed(v)' => Whole(visits[v].of)
  BY <1>1, <1>3 DEF VisitTells
<1>6. r.out = "ok" /\ r.kind \notin {"list", "delete"} /\ ~Disturbed(v)' =>
        r.of # NoVisit /\ r.got \in objects'[r.of].had
  BY <1>1, <1>3, <1>5 DEF Whole
<1>7. r.pc \in {"title", "body"} /\ ~Disturbed(v)' =>
        Whole(r.of)' /\ (r.pc = "body" => r.got[1] = objects'[r.of].title)
  BY <1>1, <1>3, <1>5 DEF Whole
<1>8. r.kind = "create" \/ (r.kind = "rename" /\ r.pc \notin {"setTitle", "setBody"}) =>
        HasPlaced(v)
  BY DEF HasPlaced
<1>9. mutex' \in Visits \cup {NoVisit} /\ (mutex' = mutex \/ mutex \in {NoVisit, v})
  BY <1>1
<1> QED BY <1>1, <1>2, <1>4, <1>6, <1>7, <1>8, <1>9, VisitGoes

LEMMA RequestsEncode ==
  ASSUME TutorIInv, NEW v \in Visits, Listed(v) \/ EncodeTitle(v) \/ EncodeBody(v)
  PROVE  TutorIInv'
<1>1. visits[v].pc \in {"list", "title", "body"}
  BY DEF Listed, EncodeTitle, EncodeBody
<1>2. /\ visits[v] \in Visit /\ VisitTells(v) /\ visits[v].out = "none"
      /\ visits[v].pc # "list" => visits[v].of \in Visits
      /\ objects \in [Visits -> Object] /\ visits \in [Visits -> Visit]
  BY <1>1, GoingFacts
<1>3. CASE Listed(v)
  <2> DEFINE r == [visits[v] EXCEPT !.pc = "done", !.out = "ok"]
  <2>1. /\ r \in Visit /\ r.pc = "done" /\ r.out = "ok" /\ r.kind = visits[v].kind
        /\ r.name = visits[v].name /\ r.to = visits[v].to /\ r.of = visits[v].of
        /\ r.before = visits[v].before /\ r.era = visits[v].era
    BY <1>2 DEF Visit
  <2>2. /\ visits' = [visits EXCEPT ![v] = r] /\ visits[v].pc = "list" /\ mutex' = NoVisit
        /\ UNCHANGED <<shelf, objects, ends, restarts>>
    BY <1>2, <1>3 DEF Listed, VisitEnds
  <2> HIDE DEF r
  <2>3. visits[v].kind = "list"
    BY <1>2, <2>2 DEF VisitTells
  <2> QED BY <2>1, <2>2, <2>3, EncodesKeep
<1>4. ASSUME NEW pc \in {"setTitle", "setBody"}, visits[v].pc \in {"title", "body"},
             Writing(visits[v].of, pc)
      PROVE  Disturbed(v)
  <2>1. PICK q \in Visits : visits[q].pc = pc /\ visits[q].of = visits[v].of
    BY <1>4 DEF Writing
  <2>2. /\ Changes(q) /\ \A p \in visits[q].before : visits[p].pc = "done"
        /\ \A p \in visits[v].before : visits[p].pc = "done"
    BY <2>1, <1>2 DEF TutorIInv, TutorTells, VisitTells, Changes
  <2>3. VisitsOverlap(v, q)
    BY <1>4, <2>1, <2>2 DEF VisitsOverlap
  <2> QED BY <2>1, <2>2, <2>3 DEF Disturbed
<1>5. CASE EncodeTitle(v)
  <2> DEFINE o == visits[v].of
  <2>1. PICK read \in {objects[o].title} \cup IF Writing(o, "setTitle") THEN {Garbled} ELSE {} :
          visits' = [visits EXCEPT ![v].pc = "body", ![v].got = <<read, NoVisit>>]
    BY <1>5 DEF EncodeTitle
  <2> DEFINE r == [visits[v] EXCEPT !.pc = "body", !.got = <<read, NoVisit>>]
  <2>2. /\ visits' = [visits EXCEPT ![v] = r] /\ visits[v].pc = "title"
        /\ UNCHANGED <<mutex, shelf, objects, ends, restarts>>
    BY <1>2, <1>5, <2>1 DEF EncodeTitle
  <2>3. read \in Visits \cup {NoVisit, Garbled}
    BY <1>2, <2>1, <2>2 DEF Object
  <2>4. /\ r \in Visit /\ r.pc = "body" /\ r.out = visits[v].out /\ r.kind = visits[v].kind
        /\ r.name = visits[v].name /\ r.to = visits[v].to /\ r.of = visits[v].of
        /\ r.before = visits[v].before /\ r.era = visits[v].era /\ r.got[1] = read
    BY <1>2, <2>3 DEF Visit
  <2> HIDE DEF r
  <2>5. ~Disturbed(v) => read = objects[visits[v].of].title
    BY <1>4, <2>1, <2>2
  <2> QED BY <1>2, <2>2, <2>4, <2>5, EncodesKeep
<1>6. CASE EncodeBody(v)
  <2> DEFINE o == visits[v].of
  <2>1. PICK read \in {objects[o].body} \cup IF Writing(o, "setBody") THEN {Garbled} ELSE {} :
          visits' = [visits EXCEPT ![v].pc = "done", ![v].out = "ok", ![v].got[2] = read]
    BY <1>6 DEF EncodeBody
  <2> DEFINE g == [visits[v].got EXCEPT ![2] = read]
             r == [visits[v] EXCEPT !.pc = "done", !.out = "ok", !.got = g]
  <2>2. /\ visits' = [visits EXCEPT ![v] = r] /\ visits[v].pc = "body"
        /\ UNCHANGED <<mutex, shelf, objects, ends, restarts>>
    <3>1. visits' = [visits EXCEPT ![v] = r]
      BY <1>2, <2>1, Zenon
    <3> QED BY <3>1, <1>6 DEF EncodeBody
  <2>3. read \in Visits \cup {NoVisit, Garbled}
    BY <1>2, <2>1, <2>2 DEF Object
  <2>4. visits[v].got \in (Visits \cup {NoVisit, Garbled}) \X (Visits \cup {NoVisit, Garbled})
    BY <1>2 DEF Visit
  <2>5. g = <<visits[v].got[1], read>>
    BY <2>4
  <2>6. g \in (Visits \cup {NoVisit, Garbled}) \X (Visits \cup {NoVisit, Garbled})
    BY <2>3, <2>4, <2>5
  <2> HIDE DEF g
  <2>7. /\ r \in Visit /\ r.pc = "done" /\ r.out = "ok" /\ r.kind = visits[v].kind
        /\ r.name = visits[v].name /\ r.to = visits[v].to /\ r.of = visits[v].of
        /\ r.before = visits[v].before /\ r.era = visits[v].era /\ r.got = g
    BY <1>2, <2>6 DEF Visit
  <2> HIDE DEF r
  <2>8. ~Disturbed(v) =>
          read = objects[visits[v].of].body /\ visits[v].got[1] = objects[visits[v].of].title
    BY <1>2, <1>4, <2>1, <2>2 DEF VisitTells
  <2> QED BY <1>2, <2>2, <2>5, <2>7, <2>8, EncodesKeep
<1> QED BY <1>3, <1>5, <1>6

LEMMA SetTitleKeeps ==
  ASSUME TutorIInv, NEW v \in Visits, SetTitle(v)
  PROVE  TutorIInv'
<1>1. visits[v].pc = "setTitle" /\ UNCHANGED <<mutex, shelf, ends, restarts>>
  BY DEF SetTitle
<1>2. /\ visits[v] \in Visit /\ VisitTells(v) /\ visits[v].to \in Names
      /\ visits[v].of \in Visits /\ Real(visits[v].of) /\ visits[v].of # NoVisit
      /\ visits[v].out = "none"
      /\ objects \in [Visits -> Object] /\ shelf \in [Names -> Visits \cup {NoVisit}]
      /\ visits \in [Visits -> Visit] /\ restarts \in 0..MaxRestarts /\ mutex = v
  BY <1>1, GoingFacts
<1> DEFINE gone == [visits[v] EXCEPT !.pc = "setBody"]
<1>a. /\ gone \in Visit /\ gone.pc = "setBody" /\ gone.out = "none" /\ gone.kind = visits[v].kind
      /\ gone.name = visits[v].name /\ gone.to = visits[v].to /\ gone.of = visits[v].of
      /\ gone.before = visits[v].before /\ gone.era = visits[v].era
  BY <1>2 DEF Visit
<1>3. PICK r \in Visit :
        /\ r = gone /\ r.pc = "setBody" /\ r.out = "none" /\ r.kind = visits[v].kind
        /\ r.name = visits[v].name /\ r.to = visits[v].to /\ r.of = visits[v].of
        /\ r.before = visits[v].before /\ r.era = visits[v].era
  BY <1>a
<1>b. PICK o \in Visits : o = visits[v].of
  BY <1>2
<1>4. visits' = [visits EXCEPT ![v] = r]
  BY <1>2, <1>3 DEF SetTitle
<1> HIDE DEF gone
<1>5. /\ objects' \in [Visits -> Object]
      /\ \A x \in Visits \ {o} : objects'[x] = objects[x]
      /\ objects'[o].had = objects[o].had /\ objects'[o].body = objects[o].body
      /\ objects'[o].title \in {objects[o].title, v}
  <2>1. CASE objects' = objects
    BY <1>2, <2>1
  <2>2. CASE objects' = [objects EXCEPT ![o].title = v]
    <3> DEFINE x == [objects[o] EXCEPT !.title = v]
    <3>1. /\ x \in Object /\ x.title = v /\ x.body = objects[o].body
          /\ x.had = objects[o].had
      BY <1>2, <1>b DEF Object
    <3>2. objects' = [objects EXCEPT ![o] = x]
      BY <1>2, <2>2
    <3> HIDE DEF x
    <3> QED BY <1>2, <3>1, <3>2
  <2> QED BY <1>b, <2>1, <2>2 DEF SetTitle
<1>6. VisitStep(v, r) /\ Touches(v)
  <2>1. VisitStep(v, r)
    BY <1>1, <1>3, <1>4 DEF VisitStep
  <2>2. Touches(v)
    BY <1>1, <1>2, <1>5, <1>b DEF Touches
  <2> QED BY <2>1, <2>2
<1>7. Real(o)'
  BY <1>2, <1>6, <1>b, GoesFacts
<1>8. r.kind \in {"update", "rename"} /\ r.kind = IF r.to = r.name THEN "update" ELSE "rename"
  BY <1>1, <1>2, <1>3 DEF VisitTells
<1> QED BY <1>1, <1>2, <1>3, <1>b, <1>6, <1>7, <1>8, VisitGoes

LEMMA SetBodyKeeps ==
  ASSUME TutorIInv, NEW v \in Visits, SetBody(v)
  PROVE  TutorIInv'
<1>1. visits[v].pc = "setBody" /\ mutex' = NoVisit /\ UNCHANGED <<ends, restarts>>
  BY DEF SetBody
<1>2. /\ visits[v] \in Visit /\ VisitTells(v) /\ visits[v].to \in Names
      /\ visits[v].of \in Visits /\ Real(visits[v].of) /\ visits[v].of # NoVisit
      /\ visits[v].out = "none"
      /\ objects \in [Visits -> Object] /\ shelf \in [Names -> Visits \cup {NoVisit}]
      /\ visits \in [Visits -> Visit] /\ restarts \in 0..MaxRestarts /\ mutex = v
  BY <1>1, GoingFacts
<1> DEFINE gone == [visits[v] EXCEPT !.pc = "title"]
<1>a. /\ gone \in Visit /\ gone.pc = "title" /\ gone.out = "none" /\ gone.kind = visits[v].kind
      /\ gone.name = visits[v].name /\ gone.to = visits[v].to /\ gone.of = visits[v].of
      /\ gone.before = visits[v].before /\ gone.era = visits[v].era
  BY <1>2 DEF Visit
<1>3. PICK r \in Visit :
        /\ r = gone /\ r.pc = "title" /\ r.out = "none" /\ r.kind = visits[v].kind
        /\ r.name = visits[v].name /\ r.to = visits[v].to /\ r.of = visits[v].of
        /\ r.before = visits[v].before /\ r.era = visits[v].era
  BY <1>a
<1>b. PICK o \in Visits : o = visits[v].of
  BY <1>2
<1>4. visits' = [visits EXCEPT ![v] = r]
  BY <1>2, <1>3 DEF SetBody
<1> HIDE DEF gone
<1>5. /\ objects' \in [Visits -> Object]
      /\ \A x \in Visits \ {o} : objects'[x] = objects[x]
      /\ objects[o].had \subseteq objects'[o].had
      /\ <<objects'[o].title, objects'[o].body>> \in objects'[o].had
      /\ objects'[o].body \in {objects[o].body, v} /\ objects'[o].title = objects[o].title
  <2>1. PICK by \in {objects[o].body, v} :
          objects' = [objects EXCEPT ![o].body = by, ![o].had = @ \cup {<<objects[o].title, by>>}]
    BY <1>b DEF SetBody
  <2>2. objects[o] \in Object /\ objects[o].title \in Visits /\ by \in Visits
    BY <1>2, <1>b, <2>1 DEF Real
  <2> DEFINE h == objects[o].had \cup {<<objects[o].title, by>>}
             x == [objects[o] EXCEPT !.body = by, !.had = h]
  <2>3. h \in SUBSET (Visits \X Visits)
    BY <2>2 DEF Object
  <2>4. objects' = [objects EXCEPT ![o] = x]
    BY <1>2, <2>1, Zenon
  <2>5. objects[o].had \subseteq h /\ <<objects[o].title, by>> \in h
    OBVIOUS
  <2> HIDE DEF h
  <2>6. x \in Object /\ x.title = objects[o].title /\ x.body = by /\ x.had = h
    BY <2>2, <2>3 DEF Object
  <2> HIDE DEF x
  <2> QED BY <1>2, <2>1, <2>4, <2>5, <2>6
<1>6. VisitStep(v, r) /\ Touches(v)
  <2>1. VisitStep(v, r)
    BY <1>1, <1>3, <1>4 DEF VisitStep
  <2>2. Touches(v)
    BY <1>1, <1>2, <1>5, <1>b DEF Touches
  <2> QED BY <2>1, <2>2
<1>7. Real(o)' /\ Whole(o)'
  <2>1. Real(o)'
    BY <1>2, <1>6, <1>b, GoesFacts
  <2> QED BY <1>5, <2>1 DEF Whole
<1>8. visits[v].kind = IF visits[v].to = visits[v].name THEN "update" ELSE "rename"
  BY <1>1, <1>2 DEF VisitTells
<1>9. PICK name \in Names \cup {NoVisit}, to \in Names :
        /\ name = r.name /\ to = r.to /\ r.kind = IF to = name THEN "update" ELSE "rename"
        /\ shelf' = IF to = name THEN shelf
                    ELSE [shelf EXCEPT ![name] = NoVisit, ![to] = o]
  <2>1. \E name \in Names \cup {NoVisit}, to \in Names :
          name = visits[v].name /\ to = visits[v].to
    BY <1>2 DEF Visit
  <2> QED BY <1>3, <1>8, <1>b, <2>1 DEF SetBody
<1>10. shelf' \in [Names -> Visits \cup {NoVisit}]
  BY <1>2, <1>9, <1>b
<1>11. \A m \in Names :
         /\ shelf'[m] \in {NoVisit, shelf[m], o}
         /\ shelf'[m] # NoVisit \/ shelf'[m] = shelf[m] \/ (r.kind = "rename" /\ r.name = m)
  BY <1>2, <1>9, <1>b
<1>12. r.kind = "rename" => shelf'[r.to] # NoVisit
  BY <1>2, <1>9, <1>b
<1>13. r.kind \in {"update", "rename"} /\ r.kind # "create"
  BY <1>3, <1>8
<1>14. Whole(r.of)' /\ Real(r.of)'
  BY <1>3, <1>b, <1>7
<1> QED BY <1>1, <1>2, <1>3, <1>b, <1>6, <1>10, <1>11, <1>12, <1>13, <1>14, VisitGoes

\* What the process kept ends with it.
LEMMA ProcessEndsKeeps ==
  ASSUME TutorIInv, ProcessEnds, restarts' \in 0..MaxRestarts
  PROVE  TutorIInv'
<1>1. /\ TutorOK /\ MutexIsHeld /\ AnswersAreWhole /\ MadeIsFound
      /\ \A w \in Visits : VisitTells(w)
      /\ visits \in [Visits -> Visit] /\ ends \in Nat
  BY DEF TutorIInv, TutorInv, TutorTells, TutorOK
<1>2. \A w \in Visits :
        /\ visits'[w] \in Visit
        /\ visits[w].pc = "new" => visits'[w] = visits[w]
        /\ visits[w].pc = "done" => visits'[w] = visits[w]
        /\ visits[w].pc # "new" => visits'[w].pc = "done"
        /\ visits[w].pc \notin {"new", "done"} => visits'[w].out = "failed"
        /\ visits'[w].kind = visits[w].kind /\ visits'[w].name = visits[w].name
        /\ visits'[w].to = visits[w].to /\ visits'[w].of = visits[w].of
        /\ visits'[w].before = visits[w].before /\ visits'[w].era = visits[w].era
  <2> SUFFICES ASSUME NEW w \in Visits
      PROVE  /\ visits'[w] \in Visit
             /\ visits[w].pc = "new" => visits'[w] = visits[w]
             /\ visits[w].pc = "done" => visits'[w] = visits[w]
             /\ visits[w].pc # "new" => visits'[w].pc = "done"
             /\ visits[w].pc \notin {"new", "done"} => visits'[w].out = "failed"
             /\ visits'[w].kind = visits[w].kind /\ visits'[w].name = visits[w].name
             /\ visits'[w].to = visits[w].to /\ visits'[w].of = visits[w].of
             /\ visits'[w].before = visits[w].before /\ visits'[w].era = visits[w].era
    OBVIOUS
  <2> DEFINE r == [visits[w] EXCEPT !.pc = "done", !.out = "failed"]
  <2>1. visits'[w] = IF visits[w].pc \in {"new", "done"} THEN visits[w] ELSE r
    BY DEF ProcessEnds
  <2>2. visits[w] \in Visit
    BY <1>1
  <2>3. /\ r \in Visit /\ r.pc = "done" /\ r.out = "failed" /\ r.kind = visits[w].kind
        /\ r.name = visits[w].name /\ r.to = visits[w].to /\ r.of = visits[w].of
        /\ r.before = visits[w].before /\ r.era = visits[w].era
    BY <2>2 DEF Visit
  <2> HIDE DEF r
  <2> QED BY <2>1, <2>2, <2>3
<1>3. /\ visits' \in [Visits -> Visit] /\ ends' = ends + 1 /\ ends' \in Nat
      /\ objects' = objects /\ mutex' = NoVisit
      /\ \A n \in Names : shelf'[n] = NoVisit
      /\ shelf' \in [Names -> Visits \cup {NoVisit}]
  <2>1. visits' \in [Visits -> Visit]
    <3>1. visits' = [w \in Visits |-> visits'[w]]
      BY DEF ProcessEnds
    <3> QED BY <1>2, <3>1
  <2>2. shelf' = [n \in Names |-> NoVisit]
    BY DEF ProcessEnds
  <2>3. shelf' \in [Names -> Visits \cup {NoVisit}] /\ \A n \in Names : shelf'[n] = NoVisit
    BY <2>2
  <2>4. ends' = ends + 1 /\ objects' = objects /\ mutex' = NoVisit
    BY DEF ProcessEnds
  <2> QED BY <1>1, <2>1, <2>3, <2>4
<1>4. TutorOK'
  BY <1>1, <1>3 DEF TutorOK
<1>5. MutexIsHeld'
  BY <1>2 DEF MutexIsHeld
<1>6. ASSUME NEW w \in Visits, visits'[w].out \in {"ok", "missing"}
      PROVE  visits'[w] = visits[w] /\ visits[w].pc = "done"
  <2>1. visits[w].pc = "new" => visits[w].out = "none"
    BY <1>1 DEF VisitTells, Visit
  <2> QED BY <1>2, <1>6, <2>1
<1>7. \A w \in Visits : Disturbed(w) => Disturbed(w)'
  BY <1>2 DEF Disturbed, VisitsOverlap, Changes
<1>8. AnswersAreWhole'
  BY <1>1, <1>3, <1>6, <1>7 DEF AnswersAreWhole, Disturbed
<1>9. MadeIsFound'
  <2> SUFFICES ASSUME NEW w \in Visits, NEW c \in visits'[w].before,
                      visits'[w].out = "missing", visits'[w].era = visits'[c].era,
                      visits'[c].out = "ok", visits'[c].kind \in {"create", "rename"},
                      visits'[c].to = visits'[w].name
      PROVE  \E q \in Visits :
               /\ visits'[q].kind \in {"delete", "rename"} /\ visits'[q].name = visits'[w].name
               /\ visits'[q].pc # "new" /\ q \notin visits'[c].before /\ w \notin visits'[q].before
    BY DEF MadeIsFound
  <2>1. c \in Visits
    BY <1>2 DEF Visit
  <2>2. visits'[w] = visits[w] /\ visits'[c] = visits[c]
    BY <1>6, <2>1
  <2>3. PICK q \in Visits :
          /\ visits[q].kind \in {"delete", "rename"} /\ visits[q].name = visits[w].name
          /\ visits[q].pc # "new" /\ q \notin visits[c].before /\ w \notin visits[q].before
    BY <1>1, <2>2 DEF MadeIsFound
  <2> QED BY <1>2, <2>2, <2>3
<1>10. ASSUME NEW w \in Visits PROVE VisitTells(w)'
  <2>1. VisitTells(w) /\ visits[w] \in Visit
    BY <1>1
  <2>2. visits'[w].era <= ends /\ visits'[w].era # ends'
    BY <1>1, <1>2, <1>3, <2>1 DEF VisitTells, Visit
  <2>3. visits'[w].era <= ends'
    BY <1>1, <1>2, <1>3, <2>1 DEF VisitTells, Visit
  <2>4. visits'[w].of # NoVisit => Real(visits[w].of)'
    BY <1>2, <1>3, <2>1 DEF VisitTells, Real
  <2>5. \A q \in visits'[w].before : visits'[q].pc = "done"
    BY <1>2, <2>1 DEF VisitTells, Visit
  <2>6. /\ visits'[w].pc \in {"new", "done"}
        /\ visits'[w].pc = "new" => visits'[w] = visits[w]
    BY <1>2
  <2>7. IF visits'[w].pc = "new" THEN visits'[w].kind = "get" ELSE visits'[w].to \in Names
    BY <1>2, <2>1, <2>6 DEF VisitTells
  <2>8. visits'[w].out # "none" => visits'[w].pc = "done"
    BY <1>2, <2>1, <2>6 DEF VisitTells
  <2>9. visits'[w].of = NoVisit /\ visits'[w].out = "ok" => visits'[w].kind \in {"list", "delete"}
    BY <1>2, <1>6, <2>1 DEF VisitTells
  <2> QED BY <2>2, <2>3, <2>4, <2>5, <2>6, <2>7, <2>8, <2>9 DEF VisitTells
<1>11. TutorTells'
  BY <1>3, <1>10 DEF TutorTells
<1> QED BY <1>4, <1>5, <1>8, <1>9, <1>11 DEF TutorIInv, TutorInv

LEMMA InitTutorIInv == TutorInit => TutorIInv
<1> SUFFICES ASSUME TutorInit PROVE TutorIInv
  OBVIOUS
<1>1. PICK inPlace \in BOOLEAN :
        objects = [o \in Visits |->
          [title |-> NoVisit, body |-> NoVisit, inPlace |-> inPlace, had |-> {}]]
  BY DEF TutorInit
<1>2. objects \in [Visits -> Object]
  BY <1>1 DEF Object
<1> DEFINE new == [pc |-> "new", kind |-> "get", name |-> NoVisit, to |-> NoVisit,
                   of |-> NoVisit, got |-> <<NoVisit, NoVisit>>,
                   before |-> {}, era |-> 0, out |-> "none"]
<1>3. new \in Visit
  BY DEF Visit
<1>4. /\ visits \in [Visits -> Visit]
      /\ \A v \in Visits :
           /\ visits[v].pc = "new" /\ visits[v].kind = "get" /\ visits[v].of = NoVisit
           /\ visits[v].before = {} /\ visits[v].era = 0 /\ visits[v].out = "none"
  BY <1>3 DEF TutorInit
<1>5. /\ mutex = NoVisit /\ shelf = [n \in Names |-> NoVisit] /\ ends = 0 /\ restarts = 0
  BY DEF TutorInit
<1>6. TutorOK
  BY <1>2, <1>4, <1>5, TutorAssumption DEF TutorOK
<1>7. MutexIsHeld /\ AnswersAreWhole /\ MadeIsFound
  BY <1>4 DEF MutexIsHeld, AnswersAreWhole, MadeIsFound
<1>8. TutorTells
  BY <1>4, <1>5 DEF TutorTells, VisitTells, HasPlaced
<1> QED BY <1>6, <1>7, <1>8 DEF TutorIInv, TutorInv

LEMMA TutorNextKeeps ==
  TutorIInv /\ [TutorNext]_tutorVars => TutorIInv'
<1> SUFFICES ASSUME TutorIInv, [TutorNext]_tutorVars PROVE TutorIInv'
  OBVIOUS
<1>1. CASE \E v \in Visits, n \in Names :
             \/ Get(v, n) \/ Copy(v, n) \/ Delete(v, n) \/ List(v, n) \/ Update(v, n)
             \/ Missing(v, n)
             \/ \E to \in Names : Rename(v, n, to)
  BY <1>1, RequestsEnter
<1>2. CASE \E v \in Visits, n \in Names : Create(v, n)
  BY <1>2, CreateKeeps
<1>3. CASE \E v \in Visits : Listed(v) \/ EncodeTitle(v) \/ EncodeBody(v)
  BY <1>3, RequestsEncode
<1>4. CASE \E v \in Visits : SetTitle(v)
  BY <1>4, SetTitleKeeps
<1>5. CASE \E v \in Visits : SetBody(v)
  BY <1>5, SetBodyKeeps
<1>6. CASE Die \/ RestartTutor
  <2>1. restarts \in 0..MaxRestarts
    BY DEF TutorIInv, TutorInv, TutorOK
  <2>2. ProcessEnds /\ restarts' \in 0..MaxRestarts
    BY <1>6, <2>1, TutorAssumption DEF Die, RestartTutor
  <2> QED BY <2>2, ProcessEndsKeeps
<1>7. CASE UNCHANGED tutorVars
  <2>1. TutorOK' /\ MutexIsHeld'
    BY <1>7 DEF tutorVars, TutorIInv, TutorInv, TutorOK, MutexIsHeld
  <2>2. AnswersAreWhole' /\ MadeIsFound'
    BY <1>7 DEF tutorVars, TutorIInv, TutorInv, AnswersAreWhole, MadeIsFound, Changes, VisitsOverlap
  <2>3. /\ \A o : Real(o)' <=> Real(o)
        /\ \A o : Whole(o)' <=> Whole(o)
        /\ \A o : BeingWritten(o)' <=> BeingWritten(o)
        /\ \A v : Disturbed(v)' <=> Disturbed(v)
        /\ \A v, n : TakenAway(v, n)' <=> TakenAway(v, n)
    BY <1>7 DEF tutorVars, Real, Whole, BeingWritten, Writing, Disturbed, TakenAway, Changes, VisitsOverlap
  <2>4. TutorTells'
    BY <1>7, <2>3 DEF tutorVars, TutorIInv, TutorTells, VisitTells, HasPlaced
  <2> QED BY <2>1, <2>2, <2>4 DEF TutorIInv, TutorInv
<1> QED BY <1>1, <1>2, <1>3, <1>4, <1>5, <1>6, <1>7 DEF TutorNext

\* Whatever is asked at once, an answer that writeJSON encodes without the mutex is whole
\* unless an update overlaps it, and what was made is found until somebody takes it away
\* or the process ends (the handlers of deeptutor_*.go and their maps).
THEOREM TutorKeeps == TutorSpec => []TutorInv
<1>1. TutorIInv => TutorInv
  BY DEF TutorIInv
<1> QED BY <1>1, InitTutorIInv, TutorNextKeeps, PTL DEF TutorSpec

-----------------------------------------------------------------------------
(* Services: the parts together.                                           *)

\* A step of Services is a step of the part that moves, and of the others none.
LEMMA StepsAreOfParts ==
  [Next]_vars =>
    /\ [UsageNext]_usageVars /\ [GuestNext]_guestVars /\ [TrackerNext]_trackerVars
    /\ [SignInNext]_signInVars /\ [CentralNext]_centralVars /\ [TutorNext]_tutorVars
<1> SUFFICES ASSUME [Next]_vars
    PROVE  /\ [UsageNext]_usageVars /\ [GuestNext]_guestVars /\ [TrackerNext]_trackerVars
           /\ [SignInNext]_signInVars /\ [CentralNext]_centralVars /\ [TutorNext]_tutorVars
  OBVIOUS
<1>1. CASE Next
  BY <1>1 DEF Next
<1>2. CASE UNCHANGED vars
  BY <1>2 DEF vars
<1> QED BY <1>1, <1>2

\* Services implements the specification of each of its parts.
THEOREM PartsAreImplemented ==
  Spec => /\ UsageSpec /\ GuestSpec /\ TrackerSpec
          /\ SignInSpec /\ CentralSpec /\ TutorSpec
<1>1. Init => /\ UsageInit /\ GuestInit /\ TrackerInit
              /\ SignInInit /\ CentralInit /\ TutorInit
  BY DEF Init
<1> QED BY <1>1, StepsAreOfParts, PTL
        DEF Spec, UsageSpec, GuestSpec, TrackerSpec, SignInSpec, CentralSpec, TutorSpec

\* Whichever part moves, every part keeps what it promises.
THEOREM ServicesKeep == Spec => []ServicesInv
<1>1. /\ UsageInv /\ GuestInv /\ TrackerInv /\ EntriesTell
      /\ AccountInv /\ CentralInv /\ TutorInv
      => ServicesInv
  BY DEF ServicesInv
<1> QED BY <1>1, PartsAreImplemented, UsageKeeps, GuestsKeep, TrackerKeeps, EntriesSay,
           AccountsKeep, OneAccountEach, TutorKeeps, PTL

=============================================================================
