------------------------- MODULE ChatPipeline_proofs -------------------------
(***************************************************************************)
(* Theorems about ChatPipeline, for any number of requests, conversations, *)
(* failures and crashes.                                                   *)
(***************************************************************************)
EXTENDS ChatPipeline, SequenceTheorems, TLAPS

-----------------------------------------------------------------------------
(* Lists of messages.                                                      *)

LEMMA RemoveAtIs ==
  ASSUME NEW S, NEW list \in Seq(S), NEW i \in 1..Len(list)
  PROVE  /\ RemoveAt(list, i) \in Seq(S) /\ Len(RemoveAt(list, i)) = Len(list) - 1
         /\ \A j \in 1..(Len(list) - 1) :
              RemoveAt(list, i)[j] = list[IF j < i THEN j ELSE j + 1]
<1> DEFINE head == SubSeq(list, 1, i - 1)  tail == SubSeq(list, i + 1, Len(list))
<1>1. Len(list) \in Nat /\ i \in Nat
  OBVIOUS
<1>2. /\ head \in Seq(S) /\ Len(head) = i - 1
      /\ \A j \in 1..(i - 1) : head[j] = list[j]
  BY <1>1, SubSeqProperties
<1>3. /\ tail \in Seq(S) /\ Len(tail) = Len(list) - i
      /\ \A j \in 1..(Len(list) - i) : tail[j] = list[i + j]
  BY <1>1, SubSeqProperties
<1>4. RemoveAt(list, i) = head \o tail
  BY DEF RemoveAt
<1> HIDE DEF head, tail
<1>5. /\ head \o tail \in Seq(S) /\ Len(head \o tail) = Len(head) + Len(tail)
      /\ \A j \in 1..(Len(head) + Len(tail)) :
           (head \o tail)[j] = IF j <= Len(head) THEN head[j] ELSE tail[j - Len(head)]
  BY <1>2, <1>3, ConcatProperties
<1>6. Len(head) = i - 1 /\ Len(head) + Len(tail) = Len(list) - 1
  BY <1>1, <1>2, <1>3
<1>7. ASSUME NEW j \in 1..(Len(list) - 1)
      PROVE  (head \o tail)[j] = list[IF j < i THEN j ELSE j + 1]
  <2>1. CASE j < i
    <3>1. j <= Len(head) /\ j \in 1..(i - 1)
      BY <2>1, <1>1, <1>6
    <3> QED BY <3>1, <2>1, <1>2, <1>5, <1>6
  <2>2. CASE ~(j < i)
    <3>1. /\ ~(j <= Len(head)) /\ j - Len(head) \in 1..(Len(list) - i)
          /\ i + (j - Len(head)) = j + 1
      BY <2>2, <1>1, <1>6
    <3> QED BY <3>1, <2>2, <1>3, <1>5, <1>6
  <2> QED BY <2>1, <2>2
<1> QED BY <1>4, <1>5, <1>6, <1>7

LEMMA Removing ==
  ASSUME NEW S, NEW list \in Seq(S), NEW i \in 1..Len(list)
  PROVE  /\ RemoveAt(list, i) \in Seq(S)
         /\ \A m : Contains(list, m) /\ m # list[i] => Contains(RemoveAt(list, i), m)
<1> DEFINE less == RemoveAt(list, i)
<1>1. /\ less \in Seq(S) /\ Len(less) = Len(list) - 1 /\ Len(list) \in Nat /\ i \in Nat
      /\ \A j \in 1..(Len(list) - 1) : less[j] = list[IF j < i THEN j ELSE j + 1]
  BY RemoveAtIs
<1> HIDE DEF less
<1>2. ASSUME NEW j \in 1..Len(list), j # i PROVE Contains(less, list[j])
  <2>1. CASE j < i
    <3>1. j \in 1..(Len(list) - 1) /\ j \in 1..Len(less)
      BY <2>1, <1>1
    <3> QED BY <3>1, <2>1, <1>1 DEF Contains
  <2>2. CASE j > i
    <3>1. /\ j - 1 \in 1..(Len(list) - 1) /\ j - 1 \in 1..Len(less)
          /\ ~(j - 1 < i) /\ (j - 1) + 1 = j
      BY <2>2, <1>1
    <3>2. less[j - 1] = list[j]
      BY <3>1, <1>1
    <3> QED BY <3>1, <3>2 DEF Contains
  <2> QED BY <2>1, <2>2, <1>1, <1>2
<1> QED BY <1>1, <1>2 DEF Contains, less

LEMMA Appending ==
  ASSUME NEW S, NEW list \in Seq(S), NEW m \in S
  PROVE  /\ Append(list, m) \in Seq(S) /\ Contains(Append(list, m), m)
         /\ \A x : Contains(list, x) => Contains(Append(list, m), x)
<1>1. /\ Append(list, m) \in Seq(S) /\ Len(Append(list, m)) = Len(list) + 1 /\ Len(list) \in Nat
      /\ Append(list, m)[Len(list) + 1] = m
      /\ \A j \in 1..Len(list) : Append(list, m)[j] = list[j]
  BY AppendProperties
<1>2. Len(list) + 1 \in 1..Len(Append(list, m)) /\ 1..Len(list) \subseteq 1..Len(Append(list, m))
  BY <1>1
<1> QED BY <1>1, <1>2 DEF Contains

LEMMA OneMessage == ASSUME NEW S, NEW m \in S PROVE <<m>> \in Seq(S)
OBVIOUS

LEMMA NothingContained == \A m : ~Contains(<<>>, m)
BY DEF Contains

\* A list without the message an edit takes, and one with a message more.
LEMMA KeepsLists ==
  ASSUME NEW r, NEW gone, NEW list \in Seq(Message), KeepsBut(list, r, gone)
  PROVE  /\ \A m \in Message : KeepsBut(Append(list, m), r, gone)
         /\ \A i \in 1..Len(list) :
              \A all : gone \cup {list[i]} \subseteq all => KeepsBut(RemoveAt(list, i), r, all)
<1>1. \A m \in Message : KeepsBut(Append(list, m), r, gone)
  BY Appending DEF KeepsBut
<1>2. ASSUME NEW i \in 1..Len(list), NEW all, gone \cup {list[i]} \subseteq all
      PROVE  KeepsBut(RemoveAt(list, i), r, all)
  <2> SUFFICES ASSUME NEW by \in {"user", "assistant"}
      PROVE Contains(RemoveAt(list, i), <<r, by>>) \/ <<r, by>> \in all
    BY DEF KeepsBut
  <2>1. Contains(list, <<r, by>>) \/ <<r, by>> \in gone
    BY DEF KeepsBut
  <2>2. CASE Contains(list, <<r, by>>) /\ <<r, by>> # list[i]
    BY <2>2, Removing
  <2> QED BY <2>1, <2>2, <1>2
<1> QED BY <1>1, <1>2

LEMMA KeepsEmpty ==
  ASSUME NEW r, NEW gone, KeepsBut(<<>>, r, gone), NEW list
  PROVE  KeepsBut(list, r, gone)
BY NothingContained DEF KeepsBut

-----------------------------------------------------------------------------
(* What two requests are to one another stays.                             *)

\* Requests only go forth.
Evolves ==
  \A q \in Requests :
    /\ req[q].pc # "new" =>
         /\ req'[q].pc # "new" /\ req'[q].kind = req[q].kind /\ req'[q].conv = req[q].conv
         /\ req'[q].before = req[q].before
    /\ req[q].pc = "new" /\ req'[q].pc # "new" =>
         req'[q].before = {p \in Requests : req[p].pc = "done"}
    /\ req[q].pc = "done" => req'[q].pc = "done" /\ req'[q].out = req[q].out
    /\ req[q].cut # OldMessage => req'[q].cut = req[q].cut

\* So do rows.
RowsEvolve ==
  \A c \in Convs : /\ row[c].there # "no" => row'[c].there # "no"
                   /\ row[c].there = "gone" => row'[c].there = "gone"

LEMMA Stay ==
  ASSUME IInv, Evolves
  PROVE  /\ \A p, q \in Requests : Overlap(p, q) => Overlap(p, q)'
         /\ \A r \in Requests : OverlapsWriter(r) => OverlapsWriter(r)'
         /\ \A c \in Convs : Clash(c) => Clash(c)'
         /\ \A r \in Requests : req[r].pc # "new" /\ Excused(r) => Excused(r)'
<1>1. \A p, q \in Requests : Overlap(p, q) => Overlap(p, q)'
  BY DEF Evolves, Overlap, Conv
<1>2. \A q \in Requests : Writer(q) => Writer(q)'
  BY DEF Evolves, Writer
<1>3. \A r \in Requests : OverlapsWriter(r) => OverlapsWriter(r)'
  BY <1>1, <1>2 DEF OverlapsWriter
<1>4. \A c \in Convs : Clash(c) => Clash(c)'
  BY <1>2, <1>3 DEF Clash, Conv, Writer, Evolves
<1>5. \A r \in Requests : req[r].pc # "new" /\ Excused(r) => Excused(r)'
  BY <1>2, <1>3 DEF Excused, Conv, Writer, Evolves
<1> QED BY <1>1, <1>3, <1>4, <1>5

\* An edit keeps to what it removes.
LEMMA RemovedGrows ==
  ASSUME IInv, Evolves, NEW m \in Removed, m # OldMessage
  PROVE  m \in Removed'
<1>1. PICK q \in Requests : req[q].kind = "edit" /\ m = req[q].cut
  BY DEF Removed
<1>2. req[q].pc # "new"
  BY <1>1 DEF IInv, Stages, Placed
<1> QED BY <1>1, <1>2 DEF Evolves, Removed

LEMMA KeepsStay ==
  ASSUME IInv, Evolves
  PROVE  \A r \in Requests : \A list : KeepsBut(list, r, Removed) => KeepsBut(list, r, Removed')
<1>1. ASSUME NEW m \in Removed, m # OldMessage PROVE m \in Removed'
  BY <1>1, RemovedGrows
<1>2. \A r \in Requests : \A by : <<r, by>> # OldMessage
  BY ChatAssumption DEF OldMessage
<1> QED BY <1>1, <1>2 DEF KeepsBut

\* Two requests at work on one conversation overlap.
LEMMA AtWorkOverlap ==
  ASSUME IInv, NEW p \in Requests, NEW q \in Requests, p # q, Conv(p) = Conv(q),
         InFlight(p), req[q].pc # "new", p \notin req[q].before,
         InFlight(q) \/ q \notin req[p].before
  PROVE  Overlap(p, q)
BY DEF IInv, Stages, Overlap, InFlight, Done

-----------------------------------------------------------------------------
(* One request moves, or one moves and the open files of others lose their name.   *)

\* Nothing happens to x but to the file it has open.
Untouched(x) ==
  /\ req'[x].pc = req[x].pc /\ req'[x].kind = req[x].kind /\ req'[x].conv = req[x].conv
  /\ req'[x].before = req[x].before /\ req'[x].list = req[x].list
  /\ req'[x].next = req[x].next /\ req'[x].cut = req[x].cut /\ req'[x].out = req[x].out

\* r goes on, or begins on a row that is not deleted.
Forth(r) ==
  /\ req[r].pc # "done" /\ req'[r].pc # "new"
  /\ req[r].pc # "new" =>
       /\ req'[r].kind = req[r].kind /\ req'[r].conv = req[r].conv
       /\ req'[r].before = req[r].before
       /\ req[r].cut # OldMessage => req'[r].cut = req[r].cut
  /\ req[r].pc = "new" =>
       /\ req'[r].before = {p \in Requests : req[p].pc = "done"}
       /\ req[r].cut = OldMessage
       /\ row[req'[r].conv].there # "gone"
       /\ req'[r].kind = "delete" => row'[req'[r].conv].there = "gone"

\* The step of r: what it is allowed to do to itself, to its row and to the images.
StepOf(r) ==
  /\ TypeOK'
  /\ \A x \in Requests \ {r} : Untouched(x)
  /\ Forth(r)
  /\ RowsEvolve
  /\ row'[req'[r].conv].there # "no"
  /\ images \subseteq images'
  /\ Placed(req'[r]) /\ Owns(r, req'[r], images')
  /\ req'[r].out = "ok" /\ req'[r].kind = "chat" => req[r].pc = "answered"

LEMMA StepEvolves ==
  ASSUME IInv, NEW r \in Requests, StepOf(r)
  PROVE  Evolves
<1>1. ASSUME NEW q \in Requests, q # r
      PROVE  Untouched(q)
  BY <1>1 DEF StepOf
<1>2. ASSUME NEW q \in Requests, q # r
      PROVE  /\ req[q].pc # "new" =>
                  /\ req'[q].pc # "new" /\ req'[q].kind = req[q].kind /\ req'[q].conv = req[q].conv
                  /\ req'[q].before = req[q].before
             /\ ~(req[q].pc = "new" /\ req'[q].pc # "new")
             /\ req[q].pc = "done" => req'[q].pc = "done" /\ req'[q].out = req[q].out
             /\ req[q].cut # OldMessage => req'[q].cut = req[q].cut
  BY <1>1, <1>2 DEF Untouched
<1>3. /\ req[r].pc # "new" =>
           /\ req'[r].pc # "new" /\ req'[r].kind = req[r].kind /\ req'[r].conv = req[r].conv
           /\ req'[r].before = req[r].before
      /\ req[r].pc = "new" /\ req'[r].pc # "new" =>
           req'[r].before = {p \in Requests : req[p].pc = "done"}
      /\ req[r].pc # "done"
      /\ req[r].cut # OldMessage => req'[r].cut = req[r].cut
  BY DEF StepOf, Forth
<1> QED BY <1>2, <1>3 DEF Evolves

LEMMA StepStages ==
  ASSUME IInv, NEW r \in Requests, StepOf(r)
  PROVE  Stages'
<1> USE DEF IInv
<1>1. ASSUME NEW x \in Requests, x # r
      PROVE  /\ Placed(req'[x])
             /\ req'[x].pc # "new" => row'[req'[x].conv].there # "no"
             /\ \A q \in req'[x].before : req'[q].pc = "done" /\ q # x /\ req'[x].pc # "new"
  <2>1. Untouched(x)
    BY <1>1 DEF StepOf
  <2>2. Placed(req'[x])
    BY <2>1 DEF Stages, Placed, Untouched
  <2>3. req'[x].pc # "new" => row'[req'[x].conv].there # "no"
    BY <2>1 DEF Stages, Untouched, StepOf, RowsEvolve, TypeOK, Request, Conv
  <2>4. ASSUME NEW q \in req'[x].before
        PROVE  req'[q].pc = "done" /\ q # x /\ req'[x].pc # "new"
    <3>1. q \in req[x].before /\ req[q].pc = "done" /\ q # x /\ req[x].pc # "new" /\ q \in Requests
      BY <2>1, <2>4 DEF Stages, Untouched, Done, TypeOK, Request
    <3>2. q # r
      BY <3>1 DEF StepOf, Forth
    <3>3. Untouched(q)
      BY <3>1, <3>2 DEF StepOf
    <3> QED BY <3>1, <3>3, <2>1 DEF Untouched
  <2> QED BY <2>2, <2>3, <2>4
<1>2. ASSUME NEW q \in req'[r].before
      PROVE  req'[q].pc = "done" /\ q # r /\ req'[r].pc # "new"
  <2>1. q \in Requests /\ req[q].pc = "done"
    BY <1>2 DEF StepOf, Forth, Stages, Done, TypeOK, Request
  <2>2. q # r
    BY <2>1 DEF StepOf, Forth
  <2>3. Untouched(q)
    BY <2>1, <2>2 DEF StepOf
  <2> QED BY <2>1, <2>2, <2>3 DEF Untouched, StepOf, Forth
<1>3. Placed(req'[r]) /\ row'[req'[r].conv].there # "no"
  BY DEF StepOf
<1> QED BY <1>1, <1>2, <1>3 DEF Stages, Conv, Done, Placed

LEMMA StepDeletedLast ==
  ASSUME IInv, NEW r \in Requests, StepOf(r)
  PROVE  DeletedLast'
<1> USE DEF IInv
<1> SUFFICES ASSUME NEW d \in Requests, NEW q \in Requests,
                    req'[d].kind = "delete", req'[d].pc # "new"
    PROVE /\ row'[req'[d].conv].there = "gone"
          /\ req'[q].pc # "new" /\ req'[q].conv = req'[d].conv => d \notin req'[q].before
  BY DEF DeletedLast, Conv
<1>1. req'[d].conv \in Convs
  BY DEF StepOf, TypeOK, Request
<1>2. CASE req[d].pc = "new"
  <2>1. d = r
    BY <1>2 DEF StepOf, Untouched
  <2>2. req'[d].pc # "done" \/ req[d].pc = "new"
    BY <1>2
  <2>3. d \notin req'[q].before
    <3>1. CASE q = r
      BY <3>1, <2>1, <1>2 DEF StepOf, Forth
    <3>2. CASE q # r
      BY <3>2, <1>2 DEF StepOf, Untouched, Stages, Done
    <3> QED BY <3>1, <3>2
  <2> QED BY <2>1, <2>3, <1>2 DEF StepOf, Forth
<1>3. CASE req[d].pc # "new"
  <2>1. req[d].kind = "delete" /\ req'[d].conv = req[d].conv
    BY <1>3, StepEvolves DEF Evolves
  <2>2. row[req[d].conv].there = "gone"
    BY <2>1, <1>3 DEF DeletedLast, Conv
  <2>3. row'[req'[d].conv].there = "gone"
    BY <2>1, <2>2, <1>1 DEF StepOf, RowsEvolve
  <2>4. ASSUME req'[q].pc # "new", req'[q].conv = req'[d].conv
        PROVE  d \notin req'[q].before
    <3>1. req[q].pc # "new"
      BY <2>4, <2>1, <2>2 DEF StepOf, Untouched, Forth
    <3>2. req'[q].before = req[q].before /\ req'[q].conv = req[q].conv
      BY <3>1, StepEvolves DEF Evolves
    <3> QED BY <3>1, <3>2, <2>1, <2>4, <1>3 DEF DeletedLast, Conv
  <2> QED BY <2>3, <2>4
<1> QED BY <1>2, <1>3

LEMMA StepHoldsOwn ==
  ASSUME IInv, NEW r \in Requests, StepOf(r)
  PROVE  HoldsOwn'
<1>1. ASSUME NEW x \in Requests, x # r PROVE Owns(x, req'[x], images')
  <2>1. Untouched(x) /\ images \subseteq images'
    BY <1>1 DEF StepOf
  <2>2. Owns(x, req[x], images)
    BY DEF IInv, HoldsOwn
  <2> QED BY <2>1, <2>2 DEF Owns, Untouched
<1>2. Owns(r, req'[r], images')
  BY DEF StepOf
<1> QED BY <1>1, <1>2 DEF HoldsOwn, Owns

-----------------------------------------------------------------------------
(* Steps that leave the two files alone.                                   *)

\* A turn that is safe after the step was safe before it, or was just stored.
LEMMA StepSafe ==
  ASSUME IInv, NEW r \in Requests, StepOf(r), NEW s \in Requests, Safe(s)'
  PROVE  /\ s # r => Safe(s)
         /\ s = r => req[r].pc = "answered" /\ Live(r) /\ ~Excused(r)
         /\ req'[s].conv = Conv(s) /\ req[s].pc # "new"
<1> USE DEF IInv
<1>1. /\ req'[s].kind = "chat" /\ req'[s].out = "ok" /\ row'[req'[s].conv].there = "live"
      /\ ~Excused(s)'
  BY DEF Safe, Live, Conv
<1>2. CASE s # r
  <2>1. Untouched(s)
    BY <1>2 DEF StepOf
  <2>2. req[s].kind = "chat" /\ req[s].out = "ok" /\ req[s].conv = req'[s].conv
    BY <2>1, <1>1 DEF Untouched
  <2>3. req[s].pc = "done"
    BY <2>2 DEF Stages, Placed
  <2>4. row[req[s].conv].there \in {"no", "live", "gone"} /\ req[s].conv \in Convs
    BY DEF TypeOK, Request, Row
  <2>5. row[req[s].conv].there = "live"
    BY <2>2, <2>3, <2>4, <1>1 DEF Stages, Conv, StepOf, RowsEvolve
  <2>6. ~Excused(s)
    BY <2>3, <1>1, StepEvolves, Stay
  <2> QED BY <1>2, <2>2, <2>3, <2>5, <2>6 DEF Safe, Live, Conv
<1>3. CASE s = r
  <2>1. req[r].pc = "answered"
    BY <1>3, <1>1 DEF StepOf
  <2>2. req'[r].conv = req[r].conv
    BY <2>1 DEF StepOf, Forth
  <2>3. row[req[r].conv].there \in {"no", "live", "gone"} /\ req[r].conv \in Convs
    BY DEF TypeOK, Request, Row
  <2>4. row[req[r].conv].there = "live"
    BY <2>1, <2>2, <2>3, <1>1, <1>3 DEF Stages, Conv, StepOf, RowsEvolve
  <2>5. ~Excused(r)
    BY <2>1, <1>1, <1>3, StepEvolves, Stay
  <2> QED BY <1>3, <2>1, <2>2, <2>4, <2>5 DEF Live, Conv
<1> QED BY <1>2, <1>3

\* A writer at work on a conversation is in the way of all others at work on it.
LEMMA InTheWay ==
  ASSUME IInv, NEW p \in Requests, NEW s \in Requests, p # s, Conv(p) = Conv(s),
         InFlight(p), req[p].pc \notin {"set", "remove"}, req[s].pc # "new",
         p \notin req[s].before, InFlight(s) \/ s \notin req[p].before
  PROVE  OverlapsWriter(s) /\ Excused(s)
<1>1. Overlap(p, s)
  BY AtWorkOverlap
<1>2. Overlap(s, p)
  BY <1>1 DEF Overlap
<1>3. Writer(p)
  BY DEF IInv, Stages, Placed, Writer, InFlight
<1> QED BY <1>2, <1>3 DEF OverlapsWriter, Excused

LEMMA InTheWayOfOne ==
  ASSUME IInv, NEW p \in Requests, NEW s \in Requests, p # s, Conv(p) = Conv(s),
         InFlight(p), req[p].pc \notin {"set", "remove"}, InFlight(s)
  PROVE  OverlapsWriter(s) /\ Excused(s)
<1>1. p \notin req[s].before /\ req[s].pc # "new"
  BY DEF IInv, Stages, InFlight, Done
<1> QED BY <1>1, InTheWay

\* The lists that the step leaves in memory keep the turns that are safe.
ListsKept ==
  \A s \in Requests : Safe(s)' =>
    \A p \in Requests : req'[p].conv = req'[s].conv /\ req'[p].pc \in HoldsList =>
      KeepsBut(req'[p].list, s, Removed')

LEMMA StepLists ==
  ASSUME IInv, NEW r \in Requests, StepOf(r),
         req'[r].pc \in HoldsList =>
           \A s \in Requests \ {r} : Safe(s) /\ Safe(s)' /\ req'[r].conv = Conv(s) =>
             KeepsBut(req'[r].list, s, Removed')
  PROVE  ListsKept
<1> SUFFICES ASSUME NEW s \in Requests, Safe(s)', NEW p \in Requests,
                    req'[p].conv = req'[s].conv, req'[p].pc \in HoldsList
    PROVE KeepsBut(req'[p].list, s, Removed')
  BY DEF ListsKept
<1>1. CASE s # r /\ p = r
  <2>1. Safe(s) /\ req'[s].conv = Conv(s)
    BY <1>1, StepSafe
  <2> QED BY <2>1, <1>1
<1>2. CASE s # r /\ p # r
  <2>1. Safe(s) /\ req'[s].conv = Conv(s)
    BY <1>2, StepSafe
  <2>2. Untouched(p)
    BY <1>2 DEF StepOf
  <2>3. Holding(p) /\ Conv(p) = Conv(s) /\ req'[p].list = req[p].list
    BY <2>1, <2>2 DEF Untouched, Holding, Conv
  <2>4. KeepsBut(req[p].list, s, Removed)
    BY <2>1, <2>3 DEF IInv, TurnsKept, Keeps
  <2> QED BY <2>3, <2>4, KeepsStay, StepEvolves
<1>3. CASE s = r /\ p # r
  <2>1. req[r].pc = "answered" /\ ~Excused(r) /\ req'[r].conv = Conv(r)
    BY <1>3, StepSafe
  <2>2. Untouched(p)
    BY <1>3 DEF StepOf
  <2>3. Conv(p) = Conv(r) /\ req[p].pc \in HoldsList
    BY <2>1, <2>2, <1>3 DEF Untouched, Conv
  <2>4. InFlight(p) /\ InFlight(r) /\ req[p].pc \notin {"set", "remove"}
    BY <2>1, <2>3 DEF InFlight, HoldsList
  <2> QED BY <2>1, <2>3, <2>4, <1>3, InTheWayOfOne
<1>4. CASE s = r /\ p = r
  <2>1. req'[r].out = "ok"
    BY <1>4 DEF Safe
  <2>2. req'[r].pc = "done"
    BY <2>1, StepStages DEF Stages, Placed
  <2> QED BY <2>2, <1>4 DEF HoldsList
<1> QED BY <1>1, <1>2, <1>3, <1>4

\* r moves, and no file does.
Quiet(r) ==
  /\ StepOf(r)
  /\ file' = file /\ tmp' = tmp
  /\ \A x \in Requests \ {r} : req'[x].fd = req[x].fd
  /\ req'[r].pc \notin {"write", "rename", "answered"}
  /\ req'[r].out = "ok" => req'[r].kind # "delete"

LEMMA QuietSaves ==
  ASSUME IInv, NEW r \in Requests, Quiet(r)
  PROVE  SavesAlone'
<1> SUFFICES ASSUME NEW x \in Requests
    PROVE /\ req'[x].pc = "write" =>
               OverlapsWriter(x)' \/ (req'[x].fd = "tmp" /\ tmp'[req'[x].conv] = Cut)
          /\ req'[x].pc = "rename" => OverlapsWriter(x)' \/ tmp'[req'[x].conv] = Whole(req'[x].list)
  BY DEF SavesAlone, Conv
<1>1. CASE x = r
  BY <1>1 DEF Quiet
<1>2. CASE x # r
  <2>1. Untouched(x) /\ req'[x].fd = req[x].fd /\ tmp' = tmp
    BY <1>2 DEF Quiet, StepOf
  <2>2. OverlapsWriter(x) => OverlapsWriter(x)'
    BY StepEvolves, Stay DEF Quiet
  <2> QED BY <2>1, <2>2 DEF IInv, SavesAlone, Untouched, Conv
<1> QED BY <1>1, <1>2

LEMMA QuietKeeps ==
  ASSUME IInv, NEW r \in Requests, Quiet(r), ListsKept
  PROVE  TurnsKept' /\ TurnsSurvive'
<1>1. StepOf(r) /\ file' = file /\ tmp' = tmp
  BY DEF Quiet
<1>2. ASSUME NEW s \in Requests, Safe(s)'
      PROVE  /\ tmp'[req'[s].conv].is = "whole" => KeepsBut(tmp'[req'[s].conv].list, s, Removed')
             /\ \/ Unreadable(file'[req'[s].conv])
                \/ /\ file'[req'[s].conv].is = "whole"
                   /\ KeepsBut(file'[req'[s].conv].list, s, Removed')
  <2>1. req'[s].conv = Conv(s) /\ req[s].pc # "new"
    BY <1>1, <1>2, StepSafe
  <2>2. CASE s # r
    <3>1. Safe(s)
      BY <2>2, <1>1, <1>2, StepSafe
    <3>2. tmp[Conv(s)].is = "whole" => KeepsBut(tmp[Conv(s)].list, s, Removed)
      BY <3>1 DEF IInv, TurnsKept, Keeps
    <3>3. \/ Unreadable(file[Conv(s)])
          \/ file[Conv(s)].is = "whole" /\ KeepsBut(file[Conv(s)].list, s, Removed)
      BY <3>1 DEF IInv, TurnsSurvive, Keeps, Safe
    <3> QED BY <3>2, <3>3, <2>1, <1>1, KeepsStay, StepEvolves
  <2>3. CASE s = r
    <3>1. req[r].pc = "answered" /\ Live(r) /\ ~Excused(r)
      BY <2>3, <1>1, <1>2, StepSafe
    <3>2. /\ tmp[Conv(r)] = Absent
          /\ file[Conv(r)].is = "whole" /\ KeepsBut(file[Conv(r)].list, r, Removed)
      BY <3>1 DEF IInv, TurnsKept, Keeps
    <3> QED BY <3>2, <2>1, <2>3, <1>1, KeepsStay, StepEvolves DEF Absent
  <2> QED BY <2>2, <2>3
<1>3. ASSUME NEW s \in Requests, req'[s].pc = "answered", Live(s)', ~Excused(s)'
      PROVE  /\ tmp'[req'[s].conv] = Absent
             /\ file'[req'[s].conv].is = "whole"
             /\ KeepsBut(file'[req'[s].conv].list, s, Removed')
  <2>1. s # r
    BY <1>3 DEF Quiet
  <2>2. Untouched(s)
    BY <2>1, <1>1 DEF StepOf
  <2>3. req[s].pc = "answered" /\ req'[s].conv = Conv(s) /\ Conv(s) \in Convs
    BY <2>2, <1>3 DEF Untouched, Conv, IInv, TypeOK, Request
  <2>4. ~Excused(s)
    BY <2>3, <1>3, <1>1, StepEvolves, Stay
  <2>5. row[Conv(s)].there \in {"no", "live", "gone"}
    BY <2>3 DEF IInv, TypeOK, Row
  <2>6. Live(s)
    BY <2>3, <2>5, <1>3, <1>1 DEF Live, Conv, IInv, Stages, StepOf, RowsEvolve
  <2>7. /\ tmp[Conv(s)] = Absent
        /\ file[Conv(s)].is = "whole" /\ KeepsBut(file[Conv(s)].list, s, Removed)
    BY <2>3, <2>4, <2>6 DEF IInv, TurnsKept, Keeps
  <2> QED BY <2>3, <2>7, <1>1, KeepsStay, StepEvolves
<1>4. TurnsKept'
  BY <1>2, <1>3 DEF TurnsKept, Keeps, Conv, Holding, ListsKept
<1>5. TurnsSurvive'
  <2> SUFFICES ASSUME NEW s \in Requests, req'[s].kind = "chat", req'[s].out = "ok", Live(s)'
      PROVE /\ s \in images'
            /\ \/ Excused(s)' \/ Unreadable(file'[req'[s].conv])
               \/ /\ file'[req'[s].conv].is = "whole"
                  /\ KeepsBut(file'[req'[s].conv].list, s, Removed')
    BY DEF TurnsSurvive, Keeps, Conv
  <2>1. s \in images'
    BY <1>1, StepHoldsOwn DEF HoldsOwn, Owns
  <2>2. CASE ~Excused(s)'
    <3>1. Safe(s)'
      BY <2>2 DEF Safe
    <3> QED BY <3>1, <2>1, <1>2
  <2> QED BY <2>1, <2>2
<1> QED BY <1>4, <1>5

LEMMA QuietStep ==
  ASSUME IInv, NEW r \in Requests, Quiet(r),
         req'[r].pc \in HoldsList =>
           \A s \in Requests \ {r} : Safe(s) /\ Safe(s)' /\ req'[r].conv = Conv(s) =>
             KeepsBut(req'[r].list, s, Removed')
  PROVE  IInv'
<1>1. StepOf(r) /\ file' = file
  BY DEF Quiet
<1>2. TypeOK' /\ Stages' /\ DeletedLast' /\ HoldsOwn'
  BY <1>1, StepStages, StepDeletedLast, StepHoldsOwn DEF StepOf
<1>3. SavesAlone' /\ TurnsKept' /\ TurnsSurvive'
  BY <1>1, StepLists, QuietSaves, QuietKeeps
<1>4. TornByTwo'
  BY <1>1, StepEvolves, Stay DEF IInv, TornByTwo
<1>5. FilesStayRemoved'
  <2> SUFFICES ASSUME NEW d \in Requests, req'[d].kind = "delete", req'[d].out = "ok",
                      file'[req'[d].conv].is # "absent"
      PROVE OverlapsWriter(d)'
    BY DEF FilesStayRemoved, Conv
  <2>1. d # r
    BY DEF Quiet
  <2>2. Untouched(d)
    BY <2>1, <1>1 DEF StepOf
  <2>3. OverlapsWriter(d)
    BY <2>2, <1>1 DEF IInv, FilesStayRemoved, Untouched, Conv
  <2> QED BY <2>3, <1>1, StepEvolves, Stay
<1> QED BY <1>2, <1>3, <1>4, <1>5 DEF IInv

-----------------------------------------------------------------------------
(* Steps that write.                                                       *)

LEMMA OverwrittenIs ==
  ASSUME NEW old, NEW list, NEW new \in Overwritten(old, list)
  PROVE  /\ new = Torn \/ new = Whole(list)
         /\ old = Cut => new = Whole(list)
<1>1. CASE old = Cut
  BY <1>1 DEF Overwritten, Cut
<1>2. new = Torn \/ new = Whole(list)
  BY DEF Overwritten
<1> QED BY <1>1, <1>2

\* What the other conversations and the others at work on this one see of it.
SaveFrame(r) ==
  /\ StepOf(r)
  /\ req[r].pc \in {"open", "write", "rename"} /\ req'[r].list = req[r].list
  /\ \A c \in Convs \ {Conv(r)} : file'[c] = file[c] /\ tmp'[c] = tmp[c]
  /\ \A x \in Requests \ {r} : Conv(x) # Conv(r) => req'[x].fd = req[x].fd

\* What the step does in the conversation itself.
SaveOwn(r) ==
  LET c == Conv(r) IN
    /\ req'[r].pc = "write" => OverlapsWriter(r) \/ (req'[r].fd = "tmp" /\ tmp'[c] = Cut)
    /\ req'[r].pc = "rename" => OverlapsWriter(r) \/ tmp'[c] = Whole(req[r].list)
    /\ req'[r].pc = "answered" /\ ~Excused(r) =>
         /\ tmp'[c] = Absent /\ file'[c].is = "whole"
         /\ KeepsBut(file'[c].list, r, Removed)
    /\ \A s \in Requests : Safe(s) /\ Conv(s) = c =>
         /\ tmp'[c].is = "whole" => KeepsBut(tmp'[c].list, s, Removed)
         /\ \/ Unreadable(file'[c])
            \/ file'[c].is = "whole" /\ KeepsBut(file'[c].list, s, Removed)
    /\ Unreadable(file'[c]) => Unreadable(file[c]) \/ OverlapsWriter(r)

LEMMA SaveOthers ==
  ASSUME IInv, NEW r \in Requests, SaveFrame(r), NEW x \in Requests, x # r,
         req'[x].conv = Conv(r), InFlight(x)
  PROVE  OverlapsWriter(x)' /\ Excused(x)'
<1>1. StepOf(r) /\ InFlight(r) /\ req[r].pc \notin {"set", "remove"}
  BY DEF SaveFrame, InFlight
<1>2. Untouched(x)
  BY <1>1 DEF StepOf
<1>3. Conv(x) = Conv(r) /\ req[x].pc # "new"
  BY <1>2 DEF Untouched, Conv, InFlight
<1>4. OverlapsWriter(x) /\ Excused(x)
  BY <1>1, <1>3, InTheWayOfOne
<1> QED BY <1>1, <1>3, <1>4, StepEvolves, Stay

LEMMA SaveMover ==
  ASSUME IInv, NEW r \in Requests, SaveFrame(r)
  PROVE  /\ req'[r].conv = Conv(r) /\ Conv(r) \in Convs
         /\ \A s \in Requests : Safe(s)' => s # r /\ Safe(s) /\ req'[s].conv = Conv(s)
         /\ \A s \in Requests : req'[s].conv \in Convs
<1>1. StepOf(r) /\ req[r].pc \notin {"new", "answered"}
  BY DEF SaveFrame
<1>2. req'[r].conv = Conv(r) /\ Conv(r) \in Convs
  BY <1>1 DEF StepOf, Forth, Conv, IInv, TypeOK, Request
<1>3. \A s \in Requests : Safe(s)' => s # r /\ Safe(s) /\ req'[s].conv = Conv(s)
  BY <1>1, StepSafe
<1>4. \A s \in Requests : req'[s].conv \in Convs
  BY <1>1 DEF StepOf, TypeOK, Request
<1> QED BY <1>2, <1>3, <1>4

LEMMA SaveSaves ==
  ASSUME IInv, NEW r \in Requests, SaveFrame(r), SaveOwn(r)
  PROVE  SavesAlone'
<1> SUFFICES ASSUME NEW x \in Requests
    PROVE /\ req'[x].pc = "write" =>
               OverlapsWriter(x)' \/ (req'[x].fd = "tmp" /\ tmp'[req'[x].conv] = Cut)
          /\ req'[x].pc = "rename" => OverlapsWriter(x)' \/ tmp'[req'[x].conv] = Whole(req'[x].list)
  BY DEF SavesAlone, Conv
<1>1. StepOf(r) /\ req'[r].conv = Conv(r) /\ req'[x].conv \in Convs
  BY SaveMover DEF SaveFrame
<1>2. OverlapsWriter(x) => OverlapsWriter(x)'
  BY <1>1, StepEvolves, Stay
<1>3. CASE x = r
  BY <1>1, <1>2, <1>3 DEF SaveOwn, SaveFrame
<1>4. CASE x # r
  <2>1. Untouched(x)
    BY <1>1, <1>4 DEF StepOf
  <2>2. CASE Conv(x) = Conv(r)
    <3>1. req'[x].pc \in {"write", "rename"} => InFlight(x) /\ req'[x].conv = Conv(r)
      BY <2>1, <2>2 DEF Untouched, InFlight, Conv
    <3> QED BY <3>1, <1>4, SaveOthers
  <2>3. CASE Conv(x) # Conv(r)
    <3>1. /\ req'[x].fd = req[x].fd /\ tmp'[req'[x].conv] = tmp[Conv(x)]
          /\ req'[x].pc = req[x].pc /\ req'[x].list = req[x].list
      BY <2>1, <2>3, <1>1, <1>4 DEF Untouched, SaveFrame, Conv
    <3> QED BY <3>1, <1>2 DEF IInv, SavesAlone
  <2> QED BY <2>2, <2>3
<1> QED BY <1>3, <1>4

LEMMA SaveKeeps ==
  ASSUME IInv, NEW r \in Requests, SaveFrame(r), SaveOwn(r)
  PROVE  TurnsKept' /\ TurnsSurvive'
<1>1. StepOf(r) /\ req'[r].conv = Conv(r)
  BY SaveMover DEF SaveFrame
<1>2. ASSUME NEW s \in Requests, Safe(s)'
      PROVE  /\ tmp'[req'[s].conv].is = "whole" => KeepsBut(tmp'[req'[s].conv].list, s, Removed')
             /\ \/ Unreadable(file'[req'[s].conv])
                \/ /\ file'[req'[s].conv].is = "whole"
                   /\ KeepsBut(file'[req'[s].conv].list, s, Removed')
  <2>1. s # r /\ Safe(s) /\ req'[s].conv = Conv(s) /\ Conv(s) \in Convs
    BY <1>2, SaveMover
  <2>2. /\ tmp'[Conv(s)].is = "whole" => KeepsBut(tmp'[Conv(s)].list, s, Removed)
        /\ \/ Unreadable(file'[Conv(s)])
           \/ file'[Conv(s)].is = "whole" /\ KeepsBut(file'[Conv(s)].list, s, Removed)
    <3>1. CASE Conv(s) = Conv(r)
      BY <3>1, <2>1 DEF SaveOwn
    <3>2. CASE Conv(s) # Conv(r)
      <4>1. tmp'[Conv(s)] = tmp[Conv(s)] /\ file'[Conv(s)] = file[Conv(s)]
        BY <3>2, <2>1 DEF SaveFrame
      <4>2. tmp[Conv(s)].is = "whole" => KeepsBut(tmp[Conv(s)].list, s, Removed)
        BY <2>1 DEF IInv, TurnsKept, Keeps
      <4>3. \/ Unreadable(file[Conv(s)])
            \/ file[Conv(s)].is = "whole" /\ KeepsBut(file[Conv(s)].list, s, Removed)
        BY <2>1 DEF IInv, TurnsSurvive, Keeps, Safe
      <4> QED BY <4>1, <4>2, <4>3
    <3> QED BY <3>1, <3>2
  <2> QED BY <2>1, <2>2, <1>1, KeepsStay, StepEvolves
<1>3. ASSUME NEW s \in Requests, req'[s].pc = "answered", Live(s)', ~Excused(s)'
      PROVE  /\ tmp'[req'[s].conv] = Absent
             /\ file'[req'[s].conv].is = "whole"
             /\ KeepsBut(file'[req'[s].conv].list, s, Removed')
  <2>1. CASE s = r
    <3>1. ~Excused(r)
      BY <2>1, <1>1, <1>3, StepEvolves, Stay DEF SaveFrame
    <3>2. /\ tmp'[Conv(r)] = Absent /\ file'[Conv(r)].is = "whole"
          /\ KeepsBut(file'[Conv(r)].list, r, Removed)
      BY <3>1, <2>1, <1>3 DEF SaveOwn
    <3> QED BY <3>2, <2>1, <1>1, KeepsStay, StepEvolves
  <2>2. CASE s # r
    <3>1. Untouched(s)
      BY <2>2, <1>1 DEF StepOf
    <3>2. req[s].pc = "answered" /\ req'[s].conv = Conv(s) /\ Conv(s) \in Convs
      BY <3>1, <1>3 DEF Untouched, Conv, IInv, TypeOK, Request
    <3>3. Conv(s) # Conv(r)
      BY <3>2, <2>2, <1>3, SaveOthers DEF InFlight
    <3>4. ~Excused(s)
      BY <3>2, <1>3, <1>1, StepEvolves, Stay
    <3>5. row[Conv(s)].there \in {"no", "live", "gone"}
      BY <3>2 DEF IInv, TypeOK, Row
    <3>6. Live(s)
      BY <3>2, <3>5, <1>3, <1>1 DEF Live, Conv, IInv, Stages, StepOf, RowsEvolve
    <3>7. /\ tmp[Conv(s)] = Absent
          /\ file[Conv(s)].is = "whole" /\ KeepsBut(file[Conv(s)].list, s, Removed)
      BY <3>2, <3>4, <3>6 DEF IInv, TurnsKept, Keeps
    <3>8. tmp'[Conv(s)] = tmp[Conv(s)] /\ file'[Conv(s)] = file[Conv(s)]
      BY <3>2, <3>3 DEF SaveFrame
    <3> QED BY <3>2, <3>7, <3>8, <1>1, KeepsStay, StepEvolves
  <2> QED BY <2>1, <2>2
<1>4. TurnsKept'
  <2>1. ASSUME NEW s \in Requests \ {r}, Safe(s), Safe(s)', req'[r].conv = Conv(s)
        PROVE  KeepsBut(req'[r].list, s, Removed')
    <3>1. Holding(r) /\ Conv(r) = Conv(s) /\ req'[r].list = req[r].list
      BY <2>1, <1>1 DEF SaveFrame, Holding, HoldsList
    <3>2. KeepsBut(req[r].list, s, Removed)
      BY <2>1, <3>1 DEF IInv, TurnsKept, Keeps
    <3> QED BY <3>1, <3>2, <1>1, KeepsStay, StepEvolves
  <2>2. ListsKept
    BY <2>1, <1>1, StepLists
  <2> QED BY <1>2, <1>3, <2>2 DEF TurnsKept, Keeps, Conv, Holding, ListsKept
<1>5. TurnsSurvive'
  <2> SUFFICES ASSUME NEW s \in Requests, req'[s].kind = "chat", req'[s].out = "ok", Live(s)'
      PROVE /\ s \in images'
            /\ \/ Excused(s)' \/ Unreadable(file'[req'[s].conv])
               \/ /\ file'[req'[s].conv].is = "whole"
                  /\ KeepsBut(file'[req'[s].conv].list, s, Removed')
    BY DEF TurnsSurvive, Keeps, Conv
  <2>1. s \in images'
    BY <1>1, StepHoldsOwn DEF HoldsOwn, Owns
  <2>2. CASE ~Excused(s)'
    <3>1. Safe(s)'
      BY <2>2 DEF Safe
    <3> QED BY <3>1, <2>1, <1>2
  <2> QED BY <2>1, <2>2
<1> QED BY <1>4, <1>5

LEMMA SaveStep ==
  ASSUME IInv, NEW r \in Requests, SaveFrame(r), SaveOwn(r)
  PROVE  IInv'
<1>1. StepOf(r) /\ req'[r].conv = Conv(r) /\ Conv(r) \in Convs
  BY SaveMover DEF SaveFrame
<1>2. TypeOK' /\ Stages' /\ DeletedLast' /\ HoldsOwn' /\ SavesAlone' /\ TurnsKept' /\ TurnsSurvive'
  BY <1>1, StepStages, StepDeletedLast, StepHoldsOwn, SaveSaves, SaveKeeps DEF StepOf
<1>3. TornByTwo'
  <2> SUFFICES ASSUME NEW c \in Convs, Unreadable(file'[c]) PROVE Clash(c)'
    BY DEF TornByTwo
  <2>1. CASE c = Conv(r) /\ ~Unreadable(file[c])
    <3>1. OverlapsWriter(r) /\ Writer(r)
      BY <2>1 DEF SaveOwn, SaveFrame, Writer, IInv, Stages, Placed
    <3> QED BY <3>1, <2>1, <1>1, StepEvolves, Stay DEF Clash
  <2>2. CASE Unreadable(file[c])
    BY <2>2, <1>1, StepEvolves, Stay DEF IInv, TornByTwo
  <2>3. CASE c # Conv(r)
    BY <2>3, <2>2 DEF SaveFrame
  <2> QED BY <2>1, <2>2, <2>3
<1>4. FilesStayRemoved'
  <2> SUFFICES ASSUME NEW d \in Requests, req'[d].kind = "delete", req'[d].out = "ok",
                      file'[req'[d].conv].is # "absent"
      PROVE OverlapsWriter(d)'
    BY DEF FilesStayRemoved, Conv
  <2>1. d # r
    BY <1>1 DEF SaveFrame, StepOf, Forth, IInv, Stages, Placed, Writers
  <2>2. Untouched(d)
    BY <2>1, <1>1 DEF StepOf
  <2>3. req[d].kind = "delete" /\ req[d].out = "ok" /\ req'[d].conv = Conv(d) /\ Conv(d) \in Convs
    BY <2>2 DEF Untouched, Conv, IInv, TypeOK, Request
  <2>4. CASE Conv(d) # Conv(r)
    <3>1. file'[Conv(d)] = file[Conv(d)]
      BY <2>3, <2>4 DEF SaveFrame
    <3>2. OverlapsWriter(d)
      BY <3>1, <2>3 DEF IInv, FilesStayRemoved
    <3> QED BY <3>2, <1>1, StepEvolves, Stay
  <2>5. CASE Conv(d) = Conv(r)
    <3>1. InFlight(r) /\ req[r].pc \notin {"new", "set", "remove"} /\ req[d].pc = "done"
      BY <2>3 DEF SaveFrame, InFlight, IInv, Stages, Placed
    <3>2. r \notin req[d].before
      BY <3>1 DEF IInv, Stages, Done, InFlight
    <3>3. d \notin req[r].before
      BY <3>1, <2>3, <2>5 DEF IInv, DeletedLast
    <3>4. OverlapsWriter(d)
      BY <2>1, <2>5, <3>1, <3>2, <3>3, InTheWay
    <3> QED BY <3>4, <1>1, StepEvolves, Stay
  <2> QED BY <2>4, <2>5
<1> QED BY <1>2, <1>3, <1>4 DEF IInv

-----------------------------------------------------------------------------
(* The actions of one request under way.                                   *)

\* r goes on as q.
Goes(r, q) ==
  /\ req' = [req EXCEPT ![r] = q]
  /\ q \in Request /\ req[r].pc \notin {"new", "done"} /\ q.pc # "new"
  /\ q.kind = req[r].kind /\ q.conv = req[r].conv /\ q.before = req[r].before
  /\ req[r].cut # OldMessage => q.cut = req[r].cut
  /\ Placed(q)
  /\ q.out = "ok" /\ q.kind = "chat" => req[r].pc = "answered"

\* What surrounds it.
Around ==
  /\ row' \in [Convs -> Row] /\ RowsEvolve
  /\ file' \in [Convs -> Content] /\ tmp' \in [Convs -> Content]
  /\ images \subseteq images' /\ images' \subseteq Requests
  /\ slips' \in 0..MaxSlips

LEMMA GoesStep ==
  ASSUME IInv, NEW r \in Requests, NEW q, Goes(r, q), Around, Owns(r, q, images')
  PROVE  StepOf(r) /\ req'[r] = q /\ \A x \in Requests \ {r} : req'[x] = req[x]
<1>1. req \in [Requests -> Request] /\ req[r].conv \in Convs
  BY DEF IInv, TypeOK, Request
<1>2. req'[r] = q /\ \A x \in Requests \ {r} : req'[x] = req[x]
  BY <1>1 DEF Goes
<1>3. TypeOK'
  BY <1>1 DEF Goes, Around, TypeOK
<1>4. row'[req'[r].conv].there # "no"
  BY <1>1, <1>2 DEF Goes, Around, RowsEvolve, IInv, Stages, Conv
<1>5. Forth(r)
  BY <1>2 DEF Goes, Forth
<1>6. \A x \in Requests \ {r} : Untouched(x)
  BY <1>2 DEF Untouched
<1> QED BY <1>2, <1>3, <1>4, <1>5, <1>6 DEF Goes, Around, StepOf

\* The list of q comes from what was kept.
ListFrom(r, q) ==
  q.pc \in HoldsList =>
    \A s \in Requests \ {r} : Safe(s) /\ q.conv = Conv(s) => KeepsBut(q.list, s, Removed')

LEMMA GoesQuiet ==
  ASSUME IInv, NEW r \in Requests, NEW q, Goes(r, q), Around, Owns(r, q, images'),
         UNCHANGED <<file, tmp>>, q.pc \notin {"write", "rename", "answered"},
         q.out = "ok" => q.kind # "delete", ListFrom(r, q)
  PROVE  IInv'
<1>1. StepOf(r) /\ req'[r] = q /\ \A x \in Requests \ {r} : req'[x] = req[x]
  BY GoesStep
<1>2. Quiet(r)
  BY <1>1 DEF Quiet
<1> QED BY <1>1, <1>2, QuietStep DEF ListFrom

LEMMA Ends ==
  ASSUME IInv, NEW r \in Requests, InFlight(r), NEW out \in {"ok", "uncounted", "kept", "failed"}, End(r, out),
         out = "ok" => req[r].kind # "delete" /\ (req[r].kind = "chat" => req[r].pc = "answered"),
         Around, UNCHANGED <<file, tmp>>
  PROVE  IInv'
<1> DEFINE q == Over(req[r], out)
<1>1. req[r] \in Request
  BY DEF IInv, TypeOK
<1>2. /\ q.pc = "done" /\ q.out = out /\ q.next = "loaded" /\ q.kind = req[r].kind
      /\ q.conv = req[r].conv /\ q.before = req[r].before /\ q.cut = req[r].cut
  BY <1>1 DEF Over, Request
<1>3. q \in Request
  <2>1. Unseen \in Row
    BY DEF Unseen, Fresh, Row
  <2>2. <<>> \in Seq(Message)
    OBVIOUS
  <2> QED BY <1>1, <2>1, <2>2 DEF Over, Request
<1>4. req' = [req EXCEPT ![r] = q]
  BY DEF End
<1> HIDE DEF q
<1>5. Placed(q)
  BY <1>2 DEF Placed
<1>6. Goes(r, q)
  BY <1>2, <1>3, <1>4, <1>5 DEF Goes, InFlight
<1>7. Owns(r, q, images')
  BY <1>2 DEF Owns, IInv, HoldsOwn, Around
<1>8. ListFrom(r, q)
  BY <1>2 DEF ListFrom, HoldsList
<1> QED BY <1>2, <1>6, <1>7, <1>8, GoesQuiet

\* The surroundings when nothing, or only the slips, change.
LEMMA AroundSame ==
  ASSUME IInv, UNCHANGED <<row, file, tmp>>, images \subseteq images', images' \subseteq Requests,
         Slip \/ UNCHANGED slips
  PROVE  Around
BY ChatAssumption DEF Around, RowsEvolve, IInv, TypeOK, Slip

LEMMA AroundRow ==
  ASSUME IInv, NEW c \in Convs, NEW new \in Row, row' = [row EXCEPT ![c] = new],
         new.there = row[c].there, UNCHANGED <<file, tmp, images, slips>>
  PROVE  Around
BY DEF Around, RowsEvolve, IInv, TypeOK

\* Counting gives the row a number of messages.
LEMMA AroundCounted ==
  ASSUME IInv, NEW r \in Requests, Counted(r), UNCHANGED <<file, tmp, images, slips>>
  PROVE  Around
<1> DEFINE new == [row[Conv(r)] EXCEPT !.count = Len(req[r].list)]
<1>1. Conv(r) \in Convs /\ row[Conv(r)] \in Row /\ req[r].list \in Seq(Message)
  BY DEF IInv, TypeOK, Request, Conv
<1>2. Len(req[r].list) \in Nat
  BY <1>1
<1>3. new \in Row /\ new.there = row[Conv(r)].there
  BY <1>1, <1>2 DEF Row
<1>4. row' = [row EXCEPT ![Conv(r)] = new]
  BY DEF Counted
<1> QED BY <1>1, <1>3, <1>4, AroundRow

-----------------------------------------------------------------------------
(* Requests that end.                                                      *)

LEMMA FailedKeeps ==
  ASSUME IInv, NEW r \in Requests,
         FindFails(r) \/ ReadFails(r) \/ StatsFail(r) \/ SetFails(r) \/ RenameFails(r)
  PROVE  IInv'
<1>1. InFlight(r) /\ End(r, "failed") /\ UNCHANGED <<row, file, tmp, images, slips>>
  BY DEF FindFails, ReadFails, StatsFail, SetFails, RenameFails, InFlight
<1>2. Around
  BY <1>1, AroundSame DEF IInv, TypeOK
<1> QED BY <1>1, <1>2, Ends

LEMMA FailKeeps ==
  ASSUME IInv, NEW r \in Requests, Fail(r) \/ EditedUncounted(r) \/ KeepFile(r)
  PROVE  IInv'
<1>1. PICK out \in {"failed", "uncounted", "kept"} : End(r, out)
  BY DEF Fail, EditedUncounted, KeepFile
<1>2. InFlight(r) /\ Slip /\ UNCHANGED <<row, file, tmp, images>>
  BY DEF Fail, EditedUncounted, KeepFile, InFlight
<1>3. Around
  BY <1>2, AroundSame DEF IInv, TypeOK
<1> QED BY <1>1, <1>2, <1>3, Ends

LEMMA RefuseKeeps ==
  ASSUME IInv, NEW r \in Requests, RefuseImages(r)
  PROVE  IInv'
<1>1. InFlight(r) /\ End(r, "failed") /\ UNCHANGED <<row, file, tmp, slips>>
  BY DEF RefuseImages, InFlight
<1>2. images \subseteq images' /\ images' \subseteq Requests
  BY DEF RefuseImages, IInv, TypeOK
<1>3. Around
  BY <1>1, <1>2, AroundSame
<1> QED BY <1>1, <1>3, Ends

LEMMA AnsweredKeeps ==
  ASSUME IInv, NEW r \in Requests, Answered(r)
  PROVE  IInv'
<1>1. /\ InFlight(r) /\ req[r].pc = "answered" /\ End(r, "ok") /\ Counted(r)
      /\ UNCHANGED <<file, tmp, images, slips>>
  BY DEF Answered, InFlight
<1>2. req[r].kind = "chat"
  BY <1>1 DEF IInv, Stages, Placed
<1>3. Around
  BY <1>1, AroundCounted
<1> QED BY <1>1, <1>2, <1>3, Ends

LEMMA EditedKeeps ==
  ASSUME IInv, NEW r \in Requests, Edited(r)
  PROVE  IInv'
<1>1. InFlight(r) /\ req[r].pc = "edited" /\ End(r, "ok") /\ UNCHANGED <<file, tmp, images, slips>>
  BY DEF Edited, InFlight
<1>2. req[r].kind \notin {"delete", "chat"}
  BY <1>1 DEF IInv, Stages, Placed
<1>3. Around
  <2>1. CASE Live(r)
    BY <2>1, <1>1, AroundCounted DEF Edited
  <2>2. CASE ~Live(r)
    BY <2>2, <1>1, AroundSame DEF Edited, IInv, TypeOK
  <2> QED BY <2>1, <2>2
<1> QED BY <1>1, <1>2, <1>3, Ends

LEMMA SetKeeps ==
  ASSUME IInv, NEW r \in Requests, Set(r)
  PROVE  IInv'
<1> DEFINE new == [row[Conv(r)] EXCEPT
             !.title = IF req[r].kind = "title" THEN r ELSE req[r].seen.title,
             !.pinned = IF req[r].kind = "pin" THEN r ELSE req[r].seen.pinned]
<1>1. InFlight(r) /\ req[r].pc = "set" /\ End(r, "ok") /\ UNCHANGED <<file, tmp, images, slips>>
  BY DEF Set, InFlight
<1>2. req[r].kind \in {"title", "pin"}
  BY <1>1 DEF IInv, Stages, Placed
<1>3. Conv(r) \in Convs /\ row[Conv(r)] \in Row /\ req[r].seen \in Row /\ row \in [Convs -> Row]
  BY DEF IInv, TypeOK, Request, Conv
<1>4. new \in Row /\ new.there = row[Conv(r)].there
  BY <1>3 DEF Row
<1>5. row' = [row EXCEPT ![Conv(r)] = new]
  BY <1>3 DEF Set
<1> HIDE DEF new
<1>6. Around
  BY <1>1, <1>3, <1>4, <1>5, AroundRow
<1> QED BY <1>1, <1>2, <1>6, Ends

-----------------------------------------------------------------------------
(* Requests that load.                                                     *)

\* list keeps the turns that are safe in the conversation of r.
Good(r, list) ==
  \A s \in Requests \ {r} : Safe(s) /\ Conv(r) = Conv(s) => KeepsBut(list, s, Removed)

LEMMA UseKeeps ==
  ASSUME IInv, NEW r \in Requests, NEW list \in Seq(Message), Use(r, list), Good(r, list),
         req[r].pc \in {"read", "legacy", "loaded"}, UNCHANGED <<row, file, tmp, images, slips>>
  PROVE  IInv'
<1>1. InFlight(r) /\ req[r] \in Request /\ req[r].pc \notin {"new", "done", "answered"}
  BY DEF InFlight, IInv, TypeOK
<1>2. Around
  BY AroundSame DEF IInv, TypeOK
<1>3. Placed(req[r]) /\ req[r].next = "loaded" /\ req[r].cut = OldMessage /\ req[r].out = "none"
  BY DEF IInv, Stages, Placed
<1>4. CASE req[r].kind = "open" /\ End(r, "ok")
  BY <1>1, <1>2, <1>4, Ends
<1>5. CASE End(r, "failed")
  BY <1>1, <1>2, <1>5, Ends
<1>6. ASSUME req[r].kind = "edit", NEW i \in 1..Len(list),
             req' = [req EXCEPT ![r].pc = "open", ![r].list = RemoveAt(list, i),
                                ![r].seen = Unseen, ![r].next = "edited", ![r].cut = list[i]]
      PROVE  IInv'
  <2> DEFINE q == [req[r] EXCEPT !.pc = "open", !.list = RemoveAt(list, i),
                                 !.seen = Unseen, !.next = "edited", !.cut = list[i]]
  <2>1. req' = [req EXCEPT ![r] = q]
    BY <1>6
  <2>2. /\ q.pc = "open" /\ q.next = "edited" /\ q.cut = list[i] /\ q.list = RemoveAt(list, i)
        /\ q.kind = req[r].kind /\ q.conv = req[r].conv /\ q.before = req[r].before
        /\ q.out = req[r].out
    BY <1>1 DEF Request
  <2>3. q \in Request
    <3>1. Unseen \in Row /\ list[i] \in Message /\ RemoveAt(list, i) \in Seq(Message)
      BY Removing DEF Unseen, Fresh, Row
    <3> QED BY <3>1, <1>1 DEF Request
  <2> HIDE DEF q
  <2>4. Placed(q)
    BY <2>2, <1>3, <1>6 DEF Placed, Writers
  <2>5. Goes(r, q) /\ Owns(r, q, images')
    BY <2>1, <2>2, <2>3, <2>4, <1>1, <1>3, <1>6 DEF Goes, Owns
  <2>6. Evolves /\ req'[r] = q
    BY <2>5, <1>2, GoesStep, StepEvolves
  <2>7. list[i] \in Removed'
    BY <2>6, <2>2, <1>6 DEF Removed
  <2>8. ASSUME NEW s \in Requests, KeepsBut(list, s, Removed)
        PROVE  KeepsBut(RemoveAt(list, i), s, Removed')
    <3>1. KeepsBut(RemoveAt(list, i), s, Removed \cup {list[i]})
      BY <2>8, KeepsLists
    <3>2. \A by \in {"user", "assistant"} : <<s, by>> # OldMessage
      BY ChatAssumption DEF OldMessage
    <3> QED BY <3>1, <3>2, <2>6, <2>7, RemovedGrows DEF KeepsBut
  <2>9. ListFrom(r, q)
    BY <2>2, <2>8 DEF ListFrom, Good, Conv
  <2> QED BY <2>2, <2>5, <2>9, <1>2, <1>3, GoesQuiet
<1>7. ASSUME req[r].kind = "chat",
             req' = [req EXCEPT ![r].pc = "images", ![r].seen = Unseen, ![r].list = list]
      PROVE  IInv'
  <2> DEFINE q == [req[r] EXCEPT !.pc = "images", !.seen = Unseen, !.list = list]
  <2>1. req' = [req EXCEPT ![r] = q]
    BY <1>7
  <2>2. /\ q.pc = "images" /\ q.next = req[r].next /\ q.cut = req[r].cut /\ q.list = list
        /\ q.kind = req[r].kind /\ q.conv = req[r].conv /\ q.before = req[r].before
        /\ q.out = req[r].out
    BY <1>1 DEF Request
  <2>3. q \in Request
    <3>1. Unseen \in Row
      BY DEF Unseen, Fresh, Row
    <3> QED BY <3>1, <1>1 DEF Request
  <2> HIDE DEF q
  <2>4. Placed(q)
    BY <2>2, <1>3, <1>7 DEF Placed, Writers
  <2>5. Goes(r, q) /\ Owns(r, q, images')
    BY <2>1, <2>2, <2>3, <2>4, <1>1, <1>3, <1>7 DEF Goes, Owns
  <2>6. Evolves
    BY <2>5, <1>2, GoesStep, StepEvolves
  <2>7. ListFrom(r, q)
    BY <2>2, <2>6, KeepsStay DEF ListFrom, Good, Conv
  <2> QED BY <2>2, <2>5, <2>7, <1>2, <1>3, GoesQuiet
<1> QED BY <1>4, <1>5, <1>6, <1>7 DEF Use

\* A list that a request holds keeps them, and so does a file that can be read.
LEMMA GoodLists ==
  ASSUME IInv, NEW r \in Requests
  PROVE  /\ Holding(r) => Good(r, req[r].list)
         /\ file[Conv(r)].is \in {"absent", "whole"} => Good(r, file[Conv(r)].list)
<1>1. Holding(r) => Good(r, req[r].list)
  BY DEF IInv, TurnsKept, Good, Keeps
<1>2. ASSUME file[Conv(r)].is \in {"absent", "whole"} PROVE Good(r, file[Conv(r)].list)
  BY <1>2 DEF IInv, TurnsSurvive, Good, Keeps, Safe, Unreadable
<1> QED BY <1>1, <1>2

LEMMA ReadKeeps ==
  ASSUME IInv, NEW r \in Requests, Read(r)
  PROVE  IInv'
<1> DEFINE list == file[Conv(r)].list
<1>1. /\ req[r].pc = "read" /\ InFlight(r) /\ UNCHANGED <<row, file, tmp, images, slips>>
      /\ Good(r, list)
  BY GoodLists DEF Read, InFlight
<1>2. list \in Seq(Message) /\ req[r] \in Request
  BY DEF IInv, TypeOK, Content, Request, Conv
<1>3. CASE WantsLegacy(r) /\ Goto(r, "legacy")
  <2> DEFINE q == [req[r] EXCEPT !.pc = "legacy"]
  <2>1. req' = [req EXCEPT ![r] = q]
    BY <1>3 DEF Goto
  <2>2. /\ q.pc = "legacy" /\ q.next = req[r].next /\ q.cut = req[r].cut /\ q.list = req[r].list
        /\ q.kind = req[r].kind /\ q.conv = req[r].conv /\ q.before = req[r].before
        /\ q.out = req[r].out
    BY <1>2 DEF Request
  <2>3. q \in Request
    BY <1>2 DEF Request
  <2> HIDE DEF q
  <2>4. Placed(req[r]) /\ req[r].list = <<>> /\ req[r].out = "none"
    BY <1>1 DEF IInv, Stages, Placed
  <2>5. Goes(r, q) /\ Owns(r, q, images') /\ Around
    BY <1>1, <2>1, <2>2, <2>3, <2>4, AroundSame DEF Goes, Owns, Placed, Writers, IInv, TypeOK
  <2>6. Evolves
    BY <2>5, GoesStep, StepEvolves
  <2>7. ListFrom(r, q)
    BY <1>1, <1>3, <2>2, <2>4, <2>6, KeepsStay DEF WantsLegacy, ListFrom, Good, Conv
  <2> QED BY <1>1, <2>2, <2>4, <2>5, <2>7, GoesQuiet
<1>4. CASE Use(r, list)
  BY <1>1, <1>2, <1>4, UseKeeps
<1> QED BY <1>3, <1>4 DEF Read

LEMMA ReadLegacyKeeps ==
  ASSUME IInv, NEW r \in Requests, ReadLegacy(r)
  PROVE  IInv'
<1>1. /\ req[r].pc = "legacy" /\ InFlight(r) /\ UNCHANGED <<row, file, tmp, images, slips>>
      /\ req[r] \in Request
  BY DEF ReadLegacy, InFlight, IInv, TypeOK
<1>2. /\ Placed(req[r]) /\ req[r].list = <<>> /\ req[r].out = "none" /\ req[r].next = "loaded"
      /\ req[r].cut = OldMessage
  BY <1>1 DEF IInv, Stages, Placed
<1>3. Good(r, <<>>)
  BY <1>1, <1>2, GoodLists DEF Holding, HoldsList
<1>4. Around
  BY <1>1, AroundSame DEF IInv, TypeOK
<1>5. CASE End(r, "failed")
  BY <1>1, <1>4, <1>5, Ends
<1>6. CASE req' = [req EXCEPT ![r].pc = "open", ![r].list = LegacyRows, ![r].next = "loaded"]
  <2> DEFINE q == [req[r] EXCEPT !.pc = "open", !.list = LegacyRows, !.next = "loaded"]
  <2>1. req' = [req EXCEPT ![r] = q]
    BY <1>6
  <2>2. /\ q.pc = "open" /\ q.next = "loaded" /\ q.cut = req[r].cut /\ q.list = LegacyRows
        /\ q.kind = req[r].kind /\ q.conv = req[r].conv /\ q.before = req[r].before
        /\ q.out = req[r].out
    BY <1>1 DEF Request
  <2>3. q \in Request
    <3>1. LegacyRows \in Seq(Message)
      BY DEF LegacyRows, OldMessage, Message
    <3> QED BY <3>1, <1>1 DEF Request
  <2> HIDE DEF q
  <2>4. Placed(q)
    BY <1>1, <1>2, <2>2 DEF Placed
  <2>5. Goes(r, q) /\ Owns(r, q, images')
    BY <1>1, <1>2, <2>1, <2>2, <2>3, <2>4 DEF Goes, Owns
  <2>6. Evolves
    BY <1>4, <2>5, GoesStep, StepEvolves
  <2>7. ListFrom(r, q)
    BY <1>3, <2>2, <2>6, KeepsStay, KeepsEmpty DEF ListFrom, Good, Conv
  <2> QED BY <1>1, <1>2, <1>4, <2>2, <2>5, <2>7, GoesQuiet
<1>7. CASE Use(r, <<>>)
  <2>1. <<>> \in Seq(Message)
    OBVIOUS
  <2> QED BY <2>1, <1>1, <1>3, <1>7, UseKeeps
<1> QED BY <1>5, <1>6, <1>7 DEF ReadLegacy

LEMMA LoadedKeeps ==
  ASSUME IInv, NEW r \in Requests, Loaded(r)
  PROVE  IInv'
<1>1. req[r].pc = "loaded" /\ Use(r, req[r].list) /\ UNCHANGED <<row, file, tmp, images, slips>>
  BY DEF Loaded
<1>2. req[r].list \in Seq(Message) /\ Good(r, req[r].list)
  BY <1>1, GoodLists DEF IInv, TypeOK, Request, Holding, HoldsList
<1> QED BY <1>1, <1>2, UseKeeps

-----------------------------------------------------------------------------
(* Requests that begin.                                                    *)

\* r begins as q.
Begun(r, q) ==
  /\ req[r].pc = "new" /\ q.pc \in {"find", "read", "set", "open", "remove"}
  /\ req' = [req EXCEPT ![r] = q]
  /\ q.before = {p \in Requests : Done(p)} /\ q.cut = req[r].cut /\ q.out = req[r].out
  /\ row[q.conv].there # "gone" /\ row'[q.conv].there # "no"
  /\ q.kind = "delete" => row'[q.conv].there = "gone"
  /\ q.pc = "open" => q.kind = "replace"
  /\ q.next \in {"loaded", "edited"}

LEMMA BegunKeeps ==
  ASSUME IInv, NEW r \in Requests, NEW q \in Request, Begun(r, q), Placed(q), Around,
         UNCHANGED <<file, tmp>>
  PROVE  IInv'
<1>1. req \in [Requests -> Request] /\ Placed(req[r])
  BY DEF IInv, TypeOK, Stages
<1>2. req[r].cut = OldMessage /\ req[r].out = "none" /\ req[r].pc = "new"
  BY <1>1 DEF Begun, Placed
<1>3. req'[r] = q /\ \A x \in Requests \ {r} : req'[x] = req[x]
  BY <1>1 DEF Begun
<1>4. TypeOK'
  BY <1>1 DEF Begun, Around, TypeOK
<1>5. Forth(r)
  BY <1>2, <1>3 DEF Begun, Forth, Done
<1>6. Owns(r, q, images')
  BY <1>2 DEF Begun, Owns
<1>7. \A x \in Requests \ {r} : Untouched(x)
  BY <1>3 DEF Untouched
<1>8. StepOf(r)
  BY <1>2, <1>3, <1>4, <1>5, <1>6, <1>7 DEF Begun, Around, StepOf
<1>9. Quiet(r)
  BY <1>2, <1>3, <1>8 DEF Begun, Quiet
<1>10. ASSUME NEW s \in Requests \ {r}, Safe(s)', req'[r].conv = Conv(s), req'[r].pc \in HoldsList
       PROVE  FALSE
  <2>1. q.kind = "replace" /\ q.pc # "new" /\ q.conv = Conv(s)
    BY <1>3, <1>10 DEF Begun, HoldsList
  <2>2. req'[s] = req[s] /\ r \notin req[s].before
    BY <1>2, <1>3, <1>10 DEF IInv, Stages, Done
  <2>3. Excused(s)'
    BY <1>3, <2>1, <2>2, <1>10 DEF Excused, Conv, Writer, Writers
  <2> QED BY <2>3, <1>10 DEF Safe
<1> QED BY <1>9, <1>10, QuietStep

LEMMA StartedIs ==
  ASSUME IInv, NEW r \in Requests, NEW kind \in Kinds, NEW c \in Convs
  PROVE  LET q == Started(r, kind, c) IN
           /\ q \in Request /\ q.kind = kind /\ q.conv = c /\ q.pc = req[r].pc
           /\ q.before = {p \in Requests : Done(p)} /\ q.cut = req[r].cut
           /\ q.out = req[r].out /\ q.next = req[r].next /\ q.list = req[r].list
<1>1. req[r] \in Request
  BY DEF IInv, TypeOK
<1> QED BY <1>1 DEF Started, Request

LEMMA FoundIs ==
  ASSUME IInv, NEW r \in Requests, NEW q \in Request
  PROVE  LET f == Found(q, r) IN
           /\ f \in Request /\ f.kind = q.kind /\ f.conv = q.conv /\ f.before = q.before
           /\ f.cut = q.cut /\ f.out = q.out
           /\ q.kind = "replace" => f.pc = "open" /\ f.next = "edited"
           /\ q.kind # "replace" => f.next = q.next /\ f.list = q.list /\ f.seen = row[q.conv]
           /\ q.kind \in {"title", "pin"} => f.pc = "set"
           /\ q.kind \notin {"title", "pin", "replace"} => f.pc = "read"
<1>1. row[q.conv] \in Row /\ <<<<r, "assistant">>>> \in Seq(Message)
  BY DEF IInv, TypeOK, Request, Message
<1>2. CASE q.kind = "replace"
  BY <1>1, <1>2 DEF Found, Request
<1>3. CASE q.kind # "replace"
  BY <1>1, <1>3 DEF Found, Request
<1> QED BY <1>2, <1>3

LEMMA StartKeeps ==
  ASSUME IInv, NEW r \in Requests, NEW kind \in Kinds \ {"delete"}, NEW c \in Convs,
         Start(r, kind, c)
  PROVE  IInv'
<1> DEFINE p == Started(r, kind, c)  q == Found(p, r)
<1>1. /\ req[r].pc = "new" /\ row[c].there = "live" /\ req' = [req EXCEPT ![r] = q]
      /\ UNCHANGED <<row, file, tmp, images, slips>>
  BY DEF Start
<1>2. Placed(req[r]) /\ req[r].next = "loaded" /\ req[r].cut = OldMessage /\ req[r].list = <<>>
  BY <1>1 DEF IInv, Stages, Placed
<1>3. /\ p \in Request /\ p.kind = kind /\ p.conv = c /\ p.before = {x \in Requests : Done(x)}
      /\ p.cut = req[r].cut /\ p.out = req[r].out /\ p.next = req[r].next /\ p.list = req[r].list
  BY StartedIs
<1> HIDE DEF p
<1>4. /\ q \in Request /\ q.kind = p.kind /\ q.conv = p.conv /\ q.before = p.before
      /\ q.cut = p.cut /\ q.out = p.out
      /\ p.kind = "replace" => q.pc = "open" /\ q.next = "edited"
      /\ p.kind # "replace" => q.next = p.next /\ q.list = p.list
      /\ p.kind \in {"title", "pin"} => q.pc = "set"
      /\ p.kind \notin {"title", "pin", "replace"} => q.pc = "read"
  BY <1>3, FoundIs
<1> HIDE DEF q
<1>5. Placed(q)
  BY <1>1, <1>2, <1>3, <1>4 DEF Placed, Kinds, Writers
<1>6. Begun(r, q) /\ Around
  BY <1>1, <1>2, <1>3, <1>4, AroundSame DEF Begun, IInv, TypeOK
<1> QED BY <1>1, <1>4, <1>5, <1>6, BegunKeeps

LEMMA CreateKeeps ==
  ASSUME IInv, NEW r \in Requests, NEW kind \in {"chat", "replace"}, NEW c \in Convs,
         Create(r, kind, c)
  PROVE  IInv'
<1> DEFINE p == Started(r, kind, c)  q == [p EXCEPT !.pc = "find"]
<1>1. /\ req[r].pc = "new" /\ row[c].there = "no" /\ req' = [req EXCEPT ![r] = q]
      /\ row' = [row EXCEPT ![c] = Fresh("live")] /\ UNCHANGED <<file, tmp, images, slips>>
  BY DEF Create
<1>2. /\ Placed(req[r]) /\ req[r].next = "loaded" /\ req[r].cut = OldMessage /\ req[r].list = <<>>
      /\ req[r].out = "none"
  BY <1>1 DEF IInv, Stages, Placed
<1>3. /\ p \in Request /\ p.kind = kind /\ p.conv = c /\ p.before = {x \in Requests : Done(x)}
      /\ p.cut = req[r].cut /\ p.out = req[r].out /\ p.next = req[r].next /\ p.list = req[r].list
  BY StartedIs DEF Kinds, Writers
<1> HIDE DEF p
<1>4. /\ q \in Request /\ q.kind = kind /\ q.conv = c /\ q.before = p.before /\ q.pc = "find"
      /\ q.cut = p.cut /\ q.out = p.out /\ q.next = p.next /\ q.list = p.list
  BY <1>3 DEF Request
<1> HIDE DEF q
<1>5. Placed(q)
  BY <1>2, <1>3, <1>4 DEF Placed, Writers
<1>6. row \in [Convs -> Row] /\ Fresh("live") \in Row /\ Fresh("live").there = "live"
  BY DEF IInv, TypeOK, Fresh, Row
<1>7. Around
  BY <1>1, <1>6 DEF Around, RowsEvolve, IInv, TypeOK
<1>8. Begun(r, q)
  BY <1>1, <1>2, <1>3, <1>4, <1>6 DEF Begun
<1> QED BY <1>1, <1>4, <1>5, <1>7, <1>8, BegunKeeps

LEMMA EraseKeeps ==
  ASSUME IInv, NEW r \in Requests, NEW c \in Convs, Erase(r, c)
  PROVE  IInv'
<1> DEFINE p == Started(r, "delete", c)  q == [p EXCEPT !.pc = "remove"]
           gone == [row[c] EXCEPT !.there = "gone"]
<1>1. /\ req[r].pc = "new" /\ row[c].there = "live" /\ req' = [req EXCEPT ![r] = q]
      /\ row' = [row EXCEPT ![c] = gone] /\ UNCHANGED <<file, tmp, images, slips>>
  BY DEF Erase
<1>2. /\ Placed(req[r]) /\ req[r].next = "loaded" /\ req[r].cut = OldMessage /\ req[r].list = <<>>
      /\ req[r].out = "none"
  BY <1>1 DEF IInv, Stages, Placed
<1>3. /\ p \in Request /\ p.kind = "delete" /\ p.conv = c /\ p.before = {x \in Requests : Done(x)}
      /\ p.cut = req[r].cut /\ p.out = req[r].out /\ p.next = req[r].next /\ p.list = req[r].list
  BY StartedIs DEF Kinds
<1> HIDE DEF p
<1>4. /\ q \in Request /\ q.kind = "delete" /\ q.conv = c /\ q.before = p.before /\ q.pc = "remove"
      /\ q.cut = p.cut /\ q.out = p.out /\ q.next = p.next /\ q.list = p.list
  BY <1>3 DEF Request
<1> HIDE DEF q
<1>5. Placed(q)
  BY <1>2, <1>3, <1>4 DEF Placed
<1>6. row \in [Convs -> Row] /\ gone \in Row /\ gone.there = "gone"
  BY DEF IInv, TypeOK, Row
<1> HIDE DEF gone
<1>7. Around
  BY <1>1, <1>6 DEF Around, RowsEvolve, IInv, TypeOK
<1>8. Begun(r, q)
  BY <1>1, <1>2, <1>3, <1>4, <1>6 DEF Begun
<1> QED BY <1>1, <1>4, <1>5, <1>7, <1>8, BegunKeeps

LEMMA FindKeeps ==
  ASSUME IInv, NEW r \in Requests, Find(r)
  PROVE  IInv'
<1> DEFINE q == Found(req[r], r)
<1>1. /\ req[r].pc = "find" /\ req' = [req EXCEPT ![r] = q] /\ req[r] \in Request
      /\ UNCHANGED <<row, file, tmp, images, slips>>
  BY DEF Find, IInv, TypeOK
<1>2. /\ Placed(req[r]) /\ req[r].next = "loaded" /\ req[r].cut = OldMessage /\ req[r].list = <<>>
      /\ req[r].out = "none" /\ req[r].kind \in Writers
  BY <1>1 DEF IInv, Stages, Placed
<1>3. /\ q \in Request /\ q.kind = req[r].kind /\ q.conv = req[r].conv /\ q.before = req[r].before
      /\ q.cut = req[r].cut /\ q.out = req[r].out
      /\ q.kind = "replace" => q.pc = "open" /\ q.next = "edited"
      /\ q.kind # "replace" => q.pc = "read" /\ q.next = "loaded" /\ q.list = <<>>
  BY <1>1, <1>2, FoundIs DEF Writers
<1> HIDE DEF q
<1>4. Placed(q)
  BY <1>2, <1>3 DEF Placed, Writers
<1>5. Goes(r, q) /\ Owns(r, q, images') /\ Around
  BY <1>1, <1>2, <1>3, <1>4, AroundSame DEF Goes, Owns, IInv, TypeOK
<1>6. ASSUME NEW s \in Requests \ {r}, Safe(s), q.conv = Conv(s), q.pc \in HoldsList
      PROVE  FALSE
  <2>1. req[r].kind = "replace" /\ Conv(r) = Conv(s) /\ Writer(r) /\ r \notin req[s].before
    BY <1>1, <1>2, <1>3, <1>6 DEF HoldsList, Conv, Writer, IInv, Stages, Done
  <2>2. Excused(s)
    BY <2>1, <1>6 DEF Excused
  <2> QED BY <2>2, <1>6 DEF Safe
<1>7. ListFrom(r, q)
  BY <1>6 DEF ListFrom
<1> QED BY <1>1, <1>2, <1>3, <1>5, <1>7, GoesQuiet

-----------------------------------------------------------------------------
(* Chats that go on.                                                       *)

LEMMA SaveImagesKeeps ==
  ASSUME IInv, NEW r \in Requests, SaveImages(r)
  PROVE  IInv'
<1> DEFINE m == <<r, "user">>
           q == [req[r] EXCEPT !.pc = "open", !.next = "asked", !.list = Append(@, m)]
<1>1. /\ req[r].pc = "images" /\ req' = [req EXCEPT ![r] = q] /\ req[r] \in Request
      /\ images' = images \cup {r} /\ UNCHANGED <<row, file, tmp, slips>>
  BY DEF SaveImages, IInv, TypeOK
<1>2. /\ Placed(req[r]) /\ req[r].out = "none" /\ req[r].kind = "chat" /\ req[r].list \in Seq(Message)
      /\ m \in Message
  BY <1>1 DEF IInv, Stages, Placed, Request, Message
<1>3. Append(req[r].list, m) \in Seq(Message) /\ Contains(Append(req[r].list, m), m)
  BY <1>2, Appending
<1>4. /\ q \in Request /\ q.kind = req[r].kind /\ q.conv = req[r].conv /\ q.before = req[r].before
      /\ q.cut = req[r].cut /\ q.out = req[r].out /\ q.pc = "open" /\ q.next = "asked"
      /\ q.list = Append(req[r].list, m)
  BY <1>1, <1>3 DEF Request
<1> HIDE DEF q
<1>5. Placed(q)
  BY <1>2, <1>4 DEF Placed, Writers
<1>6. Around
  BY <1>1, AroundSame DEF IInv, TypeOK
<1>7. Goes(r, q) /\ Owns(r, q, images')
  BY <1>1, <1>2, <1>3, <1>4, <1>5 DEF Goes, Owns
<1>8. Evolves /\ Good(r, req[r].list)
  BY <1>1, <1>6, <1>7, GoesStep, StepEvolves, GoodLists DEF Holding, HoldsList
<1>9. ASSUME NEW s \in Requests \ {r}, Safe(s), q.conv = Conv(s)
      PROVE  KeepsBut(q.list, s, Removed')
  <2>1. KeepsBut(req[r].list, s, Removed)
    BY <1>4, <1>8, <1>9 DEF Good, Conv
  <2>2. KeepsBut(q.list, s, Removed)
    BY <2>1, <1>2, <1>4, KeepsLists
  <2> QED BY <2>2, <1>8, KeepsStay
<1>10. ListFrom(r, q)
  BY <1>9 DEF ListFrom
<1> QED BY <1>1, <1>2, <1>4, <1>6, <1>7, <1>10, GoesQuiet

LEMMA AskedKeeps ==
  ASSUME IInv, NEW r \in Requests, Asked(r)
  PROVE  IInv'
<1> DEFINE q == [req[r] EXCEPT !.pc = "asking"]
<1>1. /\ req[r].pc = "asked" /\ req' = [req EXCEPT ![r] = q] /\ req[r] \in Request
      /\ Counted(r) /\ UNCHANGED <<file, tmp, images, slips>>
  BY DEF Asked, Goto, IInv, TypeOK
<1>2. /\ Placed(req[r]) /\ req[r].out = "none" /\ req[r].kind = "chat" /\ req[r].next = "loaded"
      /\ Owns(r, req[r], images)
  BY <1>1 DEF IInv, Stages, Placed, HoldsOwn
<1>3. /\ q \in Request /\ q.kind = req[r].kind /\ q.conv = req[r].conv /\ q.before = req[r].before
      /\ q.cut = req[r].cut /\ q.out = req[r].out /\ q.pc = "asking" /\ q.next = req[r].next
      /\ q.list = req[r].list
  BY <1>1 DEF Request
<1> HIDE DEF q
<1>4. Placed(q)
  BY <1>2, <1>3 DEF Placed, Writers
<1>5. Around
  BY <1>1, AroundCounted
<1>6. Goes(r, q) /\ Owns(r, q, images')
  BY <1>1, <1>2, <1>3, <1>4 DEF Goes, Owns
<1>7. Evolves /\ Good(r, req[r].list)
  BY <1>1, <1>5, <1>6, GoesStep, StepEvolves, GoodLists DEF Holding, HoldsList
<1>8. ListFrom(r, q)
  BY <1>3, <1>7, KeepsStay DEF ListFrom, Good, Conv
<1> QED BY <1>1, <1>2, <1>3, <1>5, <1>6, <1>8, GoesQuiet

LEMMA AnswerKeeps ==
  ASSUME IInv, NEW r \in Requests, Answer(r)
  PROVE  IInv'
<1> DEFINE m == <<r, "assistant">>
           q == [req[r] EXCEPT !.pc = "open", !.next = "answered", !.list = Append(@, m)]
<1>1. /\ req[r].pc = "asking" /\ req' = [req EXCEPT ![r] = q] /\ req[r] \in Request
      /\ UNCHANGED <<row, file, tmp, images, slips>>
  BY DEF Answer, IInv, TypeOK
<1>2. /\ Placed(req[r]) /\ req[r].out = "none" /\ req[r].kind = "chat" /\ req[r].list \in Seq(Message)
      /\ m \in Message /\ Owns(r, req[r], images)
  BY <1>1 DEF IInv, Stages, Placed, Request, Message, HoldsOwn
<1>3. /\ Append(req[r].list, m) \in Seq(Message) /\ Contains(Append(req[r].list, m), m)
      /\ Contains(req[r].list, <<r, "user">>) => Contains(Append(req[r].list, m), <<r, "user">>)
  BY <1>2, Appending
<1>4. /\ q \in Request /\ q.kind = req[r].kind /\ q.conv = req[r].conv /\ q.before = req[r].before
      /\ q.cut = req[r].cut /\ q.out = req[r].out /\ q.pc = "open" /\ q.next = "answered"
      /\ q.list = Append(req[r].list, m)
  BY <1>1, <1>3 DEF Request
<1> HIDE DEF q
<1>5. Placed(q)
  BY <1>2, <1>4 DEF Placed, Writers
<1>6. Around
  BY <1>1, AroundSame DEF IInv, TypeOK
<1>7. Goes(r, q) /\ Owns(r, q, images')
  BY <1>1, <1>2, <1>3, <1>4, <1>5 DEF Goes, Owns
<1>8. Evolves /\ Good(r, req[r].list)
  BY <1>1, <1>6, <1>7, GoesStep, StepEvolves, GoodLists DEF Holding, HoldsList
<1>9. ASSUME NEW s \in Requests \ {r}, Safe(s), q.conv = Conv(s)
      PROVE  KeepsBut(q.list, s, Removed')
  <2>1. KeepsBut(req[r].list, s, Removed)
    BY <1>4, <1>8, <1>9 DEF Good, Conv
  <2>2. KeepsBut(q.list, s, Removed)
    BY <2>1, <1>2, <1>4, KeepsLists
  <2> QED BY <2>2, <1>8, KeepsStay
<1>10. ListFrom(r, q)
  BY <1>9 DEF ListFrom
<1> QED BY <1>1, <1>2, <1>4, <1>6, <1>7, <1>10, GoesQuiet

-----------------------------------------------------------------------------
(* Saves.                                                                  *)

LEMMA OpenedKeeps ==
  ASSUME IInv, NEW r \in Requests, Open(r)
  PROVE  IInv'
<1> DEFINE q == [req[r] EXCEPT !.pc = "write", !.fd = "tmp"]
<1>1. /\ req[r].pc = "open" /\ req' = [req EXCEPT ![r] = q] /\ req[r] \in Request
      /\ tmp' = [tmp EXCEPT ![Conv(r)] = Cut] /\ UNCHANGED <<row, file, images, slips>>
      /\ tmp \in [Convs -> Content] /\ Conv(r) \in Convs /\ file \in [Convs -> Content]
  BY DEF Open, IInv, TypeOK, Request, Conv
<1>2. Placed(req[r]) /\ Owns(r, req[r], images) /\ req[r].out = "none"
  BY <1>1 DEF IInv, Stages, Placed, HoldsOwn
<1>3. /\ q \in Request /\ q.kind = req[r].kind /\ q.conv = req[r].conv /\ q.before = req[r].before
      /\ q.cut = req[r].cut /\ q.out = req[r].out /\ q.pc = "write" /\ q.next = req[r].next
      /\ q.list = req[r].list /\ q.fd = "tmp"
  BY <1>1 DEF Request
<1> HIDE DEF q
<1>4. Placed(q)
  BY <1>1, <1>2, <1>3 DEF Placed
<1>5. Cut \in Content
  BY DEF Cut, Content
<1>6. Around
  BY <1>1, <1>5 DEF Around, RowsEvolve, IInv, TypeOK
<1>7. Goes(r, q) /\ Owns(r, q, images')
  BY <1>1, <1>2, <1>3, <1>4 DEF Goes, Owns
<1>8. StepOf(r) /\ req'[r] = q /\ \A x \in Requests \ {r} : req'[x] = req[x]
  BY <1>6, <1>7, GoesStep
<1>9. SaveFrame(r)
  BY <1>1, <1>3, <1>8 DEF SaveFrame
<1>10. SaveOwn(r)
  <2>1. tmp'[Conv(r)] = Cut /\ file'[Conv(r)] = file[Conv(r)]
    BY <1>1
  <2>2. ASSUME NEW s \in Requests, Safe(s), Conv(s) = Conv(r)
        PROVE  \/ Unreadable(file[Conv(r)])
               \/ file[Conv(r)].is = "whole" /\ KeepsBut(file[Conv(r)].list, s, Removed)
    BY <2>2 DEF IInv, TurnsSurvive, Keeps, Safe
  <2> QED BY <2>1, <2>2, <1>3, <1>8 DEF SaveOwn, Cut
<1> QED BY <1>9, <1>10, SaveStep

LEMMA WriteKeeps ==
  ASSUME IInv, NEW r \in Requests, Write(r)
  PROVE  IInv'
<1> DEFINE q == [req[r] EXCEPT !.pc = "rename"]
           c == Conv(r)
<1>1. /\ req[r].pc = "write" /\ req' = [req EXCEPT ![r] = q] /\ req[r] \in Request
      /\ UNCHANGED <<row, images, slips>>
      /\ tmp \in [Convs -> Content] /\ c \in Convs /\ file \in [Convs -> Content]
      /\ req[r].list \in Seq(Message)
  BY DEF Write, Goto, IInv, TypeOK, Request, Conv
<1>2. Placed(req[r]) /\ Owns(r, req[r], images) /\ req[r].out = "none"
  BY <1>1 DEF IInv, Stages, Placed, HoldsOwn
<1>3. /\ q \in Request /\ q.kind = req[r].kind /\ q.conv = req[r].conv /\ q.before = req[r].before
      /\ q.cut = req[r].cut /\ q.out = req[r].out /\ q.pc = "rename" /\ q.next = req[r].next
      /\ q.list = req[r].list
  BY <1>1 DEF Request
<1> HIDE DEF q
<1>4. Placed(q)
  BY <1>1, <1>2, <1>3 DEF Placed
<1>5. Torn \in Content /\ Whole(req[r].list) \in Content
  BY <1>1 DEF Torn, Whole, Content
<1>6. \/ /\ req[r].fd = "tmp" /\ file' = file
         /\ \E new \in {Torn, Whole(req[r].list)} :
              tmp' = [tmp EXCEPT ![c] = new] /\ (tmp[c] = Cut => new = Whole(req[r].list))
      \/ /\ req[r].fd # "tmp" /\ tmp' = tmp
         /\ \E new \in {Torn, Whole(req[r].list)} : file' = [file EXCEPT ![c] = new]
      \/ req[r].fd # "tmp" /\ tmp' = tmp /\ file' = file
  <2>1. CASE /\ req[r].fd = "tmp" /\ UNCHANGED file
             /\ \E new \in Overwritten(tmp[c], req[r].list) : tmp' = [tmp EXCEPT ![c] = new]
    <3>1. PICK new \in Overwritten(tmp[c], req[r].list) : tmp' = [tmp EXCEPT ![c] = new]
      BY <2>1
    <3>2. new \in {Torn, Whole(req[r].list)} /\ (tmp[c] = Cut => new = Whole(req[r].list))
      BY OverwrittenIs
    <3> QED BY <2>1, <3>1, <3>2
  <2>2. CASE /\ req[r].fd = "file" /\ UNCHANGED tmp
             /\ \E new \in Overwritten(file[c], req[r].list) : file' = [file EXCEPT ![c] = new]
    <3>1. PICK new \in Overwritten(file[c], req[r].list) : file' = [file EXCEPT ![c] = new]
      BY <2>2
    <3>2. new \in {Torn, Whole(req[r].list)}
      BY OverwrittenIs
    <3> QED BY <2>2, <3>1, <3>2
  <2>3. CASE req[r].fd = "gone" /\ UNCHANGED <<file, tmp>>
    BY <2>3
  <2> QED BY <2>1, <2>2, <2>3 DEF Write
<1>7. Around
  <2>1. tmp' \in [Convs -> Content] /\ file' \in [Convs -> Content]
    BY <1>1, <1>5, <1>6
  <2> QED BY <2>1, <1>1 DEF Around, RowsEvolve, IInv, TypeOK
<1>8. Goes(r, q) /\ Owns(r, q, images')
  BY <1>1, <1>2, <1>3, <1>4 DEF Goes, Owns
<1>9. StepOf(r) /\ req'[r] = q /\ \A x \in Requests \ {r} : req'[x] = req[x]
  BY <1>7, <1>8, GoesStep
<1>10. SaveFrame(r)
  <2>1. \A d \in Convs \ {c} : file'[d] = file[d] /\ tmp'[d] = tmp[d]
    BY <1>1, <1>6
  <2> QED BY <2>1, <1>1, <1>3, <1>9 DEF SaveFrame
<1>11. OverlapsWriter(r) \/ (req[r].fd = "tmp" /\ tmp[c] = Cut)
  BY <1>1 DEF IInv, SavesAlone
<1>12. SaveOwn(r)
  <2>1. /\ tmp'[c] \in {tmp[c], Torn, Whole(req[r].list)}
        /\ file'[c] \in {file[c], Torn, Whole(req[r].list)}
        /\ req[r].fd = "tmp" => file'[c] = file[c]
        /\ req[r].fd = "tmp" /\ tmp[c] = Cut => tmp'[c] = Whole(req[r].list)
    BY <1>1, <1>6
  <2>2. ASSUME NEW s \in Requests, Safe(s), Conv(s) = c
        PROVE  /\ \/ Unreadable(file[c])
                  \/ file[c].is = "whole" /\ KeepsBut(file[c].list, s, Removed)
               /\ tmp[c].is = "whole" => KeepsBut(tmp[c].list, s, Removed)
               /\ KeepsBut(req[r].list, s, Removed)
    <3>1. \/ Unreadable(file[c])
          \/ file[c].is = "whole" /\ KeepsBut(file[c].list, s, Removed)
      BY <2>2 DEF IInv, TurnsSurvive, Keeps, Safe
    <3>2. Holding(r)
      BY <1>1 DEF Holding, HoldsList
    <3>3. /\ tmp[c].is = "whole" => KeepsBut(tmp[c].list, s, Removed)
          /\ KeepsBut(req[r].list, s, Removed)
      BY <2>2, <3>2 DEF IInv, TurnsKept, Keeps
    <3> QED BY <3>1, <3>3
  <2>3. /\ Torn.is = "torn" /\ Whole(req[r].list).is = "whole" /\ Whole(req[r].list).list = req[r].list
        /\ Unreadable(Torn)
    BY DEF Torn, Whole, Unreadable
  <2>4. ASSUME NEW s \in Requests, Safe(s), Conv(s) = c
        PROVE  /\ tmp'[c].is = "whole" => KeepsBut(tmp'[c].list, s, Removed)
               /\ \/ Unreadable(file'[c])
                  \/ file'[c].is = "whole" /\ KeepsBut(file'[c].list, s, Removed)
    <3>1. tmp'[c].is = "whole" => KeepsBut(tmp'[c].list, s, Removed)
      BY <2>1, <2>2, <2>3, <2>4
    <3>2. \/ Unreadable(file'[c])
          \/ file'[c].is = "whole" /\ KeepsBut(file'[c].list, s, Removed)
      BY <2>1, <2>2, <2>3, <2>4
    <3> QED BY <3>1, <3>2
  <2>5. OverlapsWriter(r) \/ tmp'[c] = Whole(req[r].list)
    BY <2>1, <1>11
  <2>6. Unreadable(file'[c]) => Unreadable(file[c]) \/ OverlapsWriter(r)
    BY <2>1, <1>11
  <2> QED BY <2>4, <2>5, <2>6, <1>3, <1>9 DEF SaveOwn
<1> QED BY <1>10, <1>12, SaveStep

LEMMA RenameKeeps ==
  ASSUME IInv, NEW r \in Requests, Rename(r)
  PROVE  IInv'
<1> DEFINE q == [req[r] EXCEPT !.pc = req[r].next, !.next = "loaded", !.fd = "gone"]
           c == Conv(r)
<1>1. /\ req[r].pc = "rename" /\ req[r] \in Request /\ UNCHANGED <<row, images, slips>>
      /\ req' = [x \in Requests |-> IF x # r THEN Moved(req[x], c) ELSE q]
      /\ tmp[c].is # "absent" /\ file' = [file EXCEPT ![c] = tmp[c]]
      /\ tmp' = [tmp EXCEPT ![c] = Absent]
      /\ tmp \in [Convs -> Content] /\ c \in Convs /\ file \in [Convs -> Content]
  BY DEF Rename, IInv, TypeOK, Request, Conv
<1>2. /\ Placed(req[r]) /\ Owns(r, req[r], images) /\ req[r].out = "none"
      /\ req[r].next \in {"loaded", "asked", "answered", "edited"} /\ req[r].kind \in Writers
  BY <1>1 DEF IInv, Stages, Placed, HoldsOwn, Request
<1>3. /\ q \in Request /\ q.kind = req[r].kind /\ q.conv = req[r].conv /\ q.before = req[r].before
      /\ q.cut = req[r].cut /\ q.out = req[r].out /\ q.pc = req[r].next /\ q.next = "loaded"
      /\ q.list = req[r].list
  BY <1>1 DEF Request
<1> HIDE DEF q
<1>4. Placed(q)
  BY <1>1, <1>2, <1>3 DEF Placed
<1>5. ASSUME NEW x \in Requests, x # r
      PROVE  /\ req'[x] \in Request /\ Untouched(x)
             /\ Conv(x) # c => req'[x] = req[x]
  <2>1. req'[x] = Moved(req[x], c) /\ req[x] \in Request
    BY <1>1, <1>5 DEF IInv, TypeOK
  <2> QED BY <2>1 DEF Moved, Request, Untouched, Conv
<1>6. req'[r] = q
  BY <1>1
<1>7. TypeOK'
  <2>1. req' \in [Requests -> Request]
    BY <1>1, <1>3, <1>5, <1>6
  <2>2. Absent \in Content
    BY DEF Absent, Content
  <2> QED BY <2>1, <2>2, <1>1 DEF IInv, TypeOK
<1>8. Owns(r, q, images')
  BY <1>1, <1>2, <1>3 DEF Owns
<1>9. StepOf(r)
  <2>1. Forth(r)
    BY <1>1, <1>2, <1>3, <1>6 DEF Forth
  <2>2. RowsEvolve /\ row'[q.conv].there # "no"
    BY <1>1, <1>3 DEF RowsEvolve, IInv, Stages, Conv
  <2> QED BY <2>1, <2>2, <1>1, <1>2, <1>3, <1>4, <1>5, <1>6, <1>7, <1>8 DEF StepOf
<1>10. tmp'[c] = Absent /\ file'[c] = tmp[c]
  BY <1>1
<1>11. SaveFrame(r)
  <2>1. \A d \in Convs \ {c} : file'[d] = file[d] /\ tmp'[d] = tmp[d]
    BY <1>1
  <2>2. \A x \in Requests \ {r} : Conv(x) # Conv(r) => req'[x].fd = req[x].fd
    BY <1>5
  <2> QED BY <2>1, <2>2, <1>1, <1>3, <1>6, <1>9 DEF SaveFrame
<1>12. OverlapsWriter(r) \/ tmp[c] = Whole(req[r].list)
  BY <1>1 DEF IInv, SavesAlone
<1>13. SaveOwn(r)
  <2>1. ASSUME req'[r].pc = "answered", ~Excused(r)
        PROVE  file'[c].is = "whole" /\ KeepsBut(file'[c].list, r, Removed)
    <3>1. file'[c] = Whole(req[r].list)
      BY <2>1, <1>10, <1>12 DEF Excused
    <3>2. Contains(req[r].list, <<r, "user">>) /\ Contains(req[r].list, <<r, "assistant">>)
      BY <2>1, <1>2, <1>3, <1>6 DEF Owns
    <3> QED BY <3>1, <3>2 DEF Whole, KeepsBut
  <2>2. ASSUME NEW s \in Requests, Safe(s), Conv(s) = c
        PROVE  \/ Unreadable(tmp[c])
               \/ tmp[c].is = "whole" /\ KeepsBut(tmp[c].list, s, Removed)
    <3>1. tmp[c].is = "whole" => KeepsBut(tmp[c].list, s, Removed)
      BY <2>2 DEF IInv, TurnsKept, Keeps
    <3>2. tmp[c].is \in {"cut", "torn", "whole"}
      BY <1>1 DEF Content
    <3> QED BY <3>1, <3>2 DEF Unreadable
  <2>3. Unreadable(tmp[c]) => OverlapsWriter(r)
    BY <1>12 DEF Unreadable, Whole
  <2>4. req'[r].pc \notin {"write", "rename"} /\ Absent.is # "whole"
    BY <1>2, <1>3, <1>6 DEF Absent
  <2> QED BY <2>1, <2>2, <2>3, <2>4, <1>10 DEF SaveOwn
<1> QED BY <1>11, <1>13, SaveStep

-----------------------------------------------------------------------------
(* The file of a deleted conversation is removed.                          *)

LEMMA RemoveFileKeeps ==
  ASSUME IInv, NEW r \in Requests, RemoveFile(r)
  PROVE  IInv'
<1> DEFINE q == Over(req[r], "ok")
           c == Conv(r)
<1>1. /\ req[r].pc = "remove" /\ req[r] \in Request /\ UNCHANGED <<row, tmp, images, slips>>
      /\ file' = [file EXCEPT ![c] = Absent] /\ file \in [Convs -> Content] /\ c \in Convs
      /\ req' = [x \in Requests |->
                   IF x = r THEN q
                   ELSE IF req[x].conv = c /\ req[x].fd = "file" THEN [req[x] EXCEPT !.fd = "gone"]
                   ELSE req[x]]
  BY DEF RemoveFile, IInv, TypeOK, Request, Conv
<1>2. req[r].kind = "delete" /\ row[c].there = "gone"
  BY <1>1 DEF IInv, Stages, Placed, DeletedLast
<1>3. /\ q \in Request /\ q.kind = req[r].kind /\ q.conv = req[r].conv /\ q.before = req[r].before
      /\ q.cut = req[r].cut /\ q.out = "ok" /\ q.pc = "done" /\ q.next = "loaded"
  <2>1. Unseen \in Row /\ <<>> \in Seq(Message)
    BY DEF Unseen, Fresh, Row
  <2> QED BY <2>1, <1>1 DEF Over, Request
<1> HIDE DEF q
<1>4. Placed(q) /\ Owns(r, q, images')
  BY <1>2, <1>3 DEF Placed, Owns
<1>5. ASSUME NEW x \in Requests, x # r
      PROVE  /\ req'[x] \in Request /\ Untouched(x)
             /\ req'[x].fd = req[x].fd \/ req[x].fd = "file"
  <2>1. req[x] \in Request
    BY DEF IInv, TypeOK
  <2>2. CASE req[x].conv = c /\ req[x].fd = "file"
    <3>1. req'[x] = [req[x] EXCEPT !.fd = "gone"]
      BY <1>1, <1>5, <2>2
    <3> QED BY <3>1, <2>1, <2>2 DEF Request, Untouched
  <2>3. CASE ~(req[x].conv = c /\ req[x].fd = "file")
    <3>1. req'[x] = req[x]
      BY <1>1, <1>5, <2>3
    <3> QED BY <3>1, <2>1 DEF Untouched
  <2> QED BY <2>2, <2>3
<1>6. req'[r] = q
  BY <1>1
<1>7. TypeOK'
  <2>1. req' \in [Requests -> Request]
    BY <1>1, <1>3, <1>5, <1>6
  <2>2. Absent \in Content
    BY DEF Absent, Content
  <2> QED BY <2>1, <2>2, <1>1 DEF IInv, TypeOK
<1>8. RowsEvolve
  BY <1>1 DEF RowsEvolve
<1>9. StepOf(r)
  <2>1. Forth(r)
    BY <1>1, <1>3, <1>6 DEF Forth
  <2>2. row'[q.conv].there # "no"
    BY <1>1, <1>2, <1>3 DEF Conv
  <2> QED BY <2>1, <2>2, <1>1, <1>2, <1>3, <1>4, <1>5, <1>6, <1>7, <1>8 DEF StepOf
<1>10. Evolves
  BY <1>9, StepEvolves
<1>11. Stages' /\ DeletedLast' /\ HoldsOwn'
  BY <1>9, StepStages, StepDeletedLast, StepHoldsOwn
<1>12. ListsKept
  BY <1>3, <1>6, <1>9, StepLists DEF HoldsList
<1>13. SavesAlone'
  <2> SUFFICES ASSUME NEW x \in Requests
      PROVE /\ req'[x].pc = "write" =>
                 OverlapsWriter(x)' \/ (req'[x].fd = "tmp" /\ tmp'[req'[x].conv] = Cut)
            /\ req'[x].pc = "rename" => OverlapsWriter(x)' \/ tmp'[req'[x].conv] = Whole(req'[x].list)
    BY DEF SavesAlone, Conv
  <2>1. CASE x = r
    BY <2>1, <1>3, <1>6
  <2>2. CASE x # r
    <3>1. Untouched(x) /\ (req'[x].fd = req[x].fd \/ req[x].fd = "file") /\ tmp' = tmp
      BY <2>2, <1>1, <1>5
    <3>2. OverlapsWriter(x) => OverlapsWriter(x)'
      BY <1>10, Stay
    <3> QED BY <3>1, <3>2 DEF IInv, SavesAlone, Untouched, Conv
  <2> QED BY <2>1, <2>2
<1>14. ASSUME NEW s \in Requests, Live(s)'
       PROVE  req'[s].conv \in Convs /\ req'[s].conv # c /\ file'[req'[s].conv] = file[req'[s].conv]
  <2>1. req'[s].conv \in Convs /\ req'[s].conv # c
    BY <1>1, <1>2, <1>7, <1>14 DEF Live, Conv, TypeOK, Request
  <2> QED BY <2>1, <1>1
<1>15. ASSUME NEW s \in Requests, Safe(s)'
       PROVE  /\ tmp'[req'[s].conv].is = "whole" => KeepsBut(tmp'[req'[s].conv].list, s, Removed')
              /\ \/ Unreadable(file'[req'[s].conv])
                 \/ /\ file'[req'[s].conv].is = "whole"
                    /\ KeepsBut(file'[req'[s].conv].list, s, Removed')
  <2>1. Safe(s) /\ req'[s].conv = Conv(s)
    BY <1>1, <1>9, <1>15, StepSafe
  <2>2. file'[Conv(s)] = file[Conv(s)] /\ tmp' = tmp
    BY <1>1, <1>14, <1>15, <2>1 DEF Safe
  <2>3. tmp[Conv(s)].is = "whole" => KeepsBut(tmp[Conv(s)].list, s, Removed)
    BY <2>1 DEF IInv, TurnsKept, Keeps
  <2>4. \/ Unreadable(file[Conv(s)])
        \/ file[Conv(s)].is = "whole" /\ KeepsBut(file[Conv(s)].list, s, Removed)
    BY <2>1 DEF IInv, TurnsSurvive, Keeps, Safe
  <2> QED BY <2>1, <2>2, <2>3, <2>4, <1>10, KeepsStay
<1>16. ASSUME NEW s \in Requests, req'[s].pc = "answered", Live(s)', ~Excused(s)'
       PROVE  /\ tmp'[req'[s].conv] = Absent
              /\ file'[req'[s].conv].is = "whole"
              /\ KeepsBut(file'[req'[s].conv].list, s, Removed')
  <2>1. s # r
    BY <1>3, <1>6, <1>16
  <2>2. req[s].pc = "answered" /\ req'[s].conv = Conv(s)
    BY <2>1, <1>5, <1>16 DEF Untouched, Conv
  <2>3. Live(s) /\ ~Excused(s)
    BY <2>2, <1>1, <1>10, <1>16, Stay DEF Live, Conv
  <2>4. /\ tmp[Conv(s)] = Absent
        /\ file[Conv(s)].is = "whole" /\ KeepsBut(file[Conv(s)].list, s, Removed)
    BY <2>2, <2>3 DEF IInv, TurnsKept, Keeps
  <2>5. file'[Conv(s)] = file[Conv(s)] /\ tmp' = tmp
    BY <1>1, <1>14, <1>16, <2>2
  <2> QED BY <2>2, <2>4, <2>5, <1>10, KeepsStay
<1>17. TurnsKept'
  BY <1>12, <1>15, <1>16 DEF TurnsKept, Keeps, Conv, Holding, ListsKept
<1>18. TurnsSurvive'
  <2> SUFFICES ASSUME NEW s \in Requests, req'[s].kind = "chat", req'[s].out = "ok", Live(s)'
      PROVE /\ s \in images'
            /\ \/ Excused(s)' \/ Unreadable(file'[req'[s].conv])
               \/ /\ file'[req'[s].conv].is = "whole"
                  /\ KeepsBut(file'[req'[s].conv].list, s, Removed')
    BY DEF TurnsSurvive, Keeps, Conv
  <2>1. s \in images'
    BY <1>11 DEF HoldsOwn, Owns
  <2>2. CASE ~Excused(s)'
    <3>1. Safe(s)'
      BY <2>2 DEF Safe
    <3> QED BY <3>1, <2>1, <1>15
  <2> QED BY <2>1, <2>2
<1>19. \A d \in Convs : file'[d] = file[d] \/ file'[d] = Absent
  BY <1>1
<1>20. TornByTwo'
  BY <1>10, <1>19, Stay DEF IInv, TornByTwo, Unreadable, Absent
<1>21. FilesStayRemoved'
  <2> SUFFICES ASSUME NEW d \in Requests, req'[d].kind = "delete", req'[d].out = "ok",
                      file'[req'[d].conv].is # "absent"
      PROVE OverlapsWriter(d)'
    BY DEF FilesStayRemoved, Conv
  <2>1. d # r
    BY <1>1, <1>3, <1>6 DEF Absent, Conv
  <2>2. /\ req[d].kind = "delete" /\ req[d].out = "ok" /\ req'[d].conv = Conv(d)
        /\ Conv(d) \in Convs
    BY <2>1, <1>5 DEF Untouched, Conv, IInv, TypeOK, Request
  <2>3. file[Conv(d)].is # "absent"
    BY <2>2, <1>19 DEF Absent
  <2>4. OverlapsWriter(d)
    BY <2>2, <2>3 DEF IInv, FilesStayRemoved
  <2> QED BY <2>4, <1>10, Stay
<1> QED BY <1>7, <1>11, <1>13, <1>17, <1>18, <1>20, <1>21 DEF IInv

-----------------------------------------------------------------------------
(* A crash.                                                                *)

LEMMA CrashKeeps ==
  ASSUME IInv, Crash
  PROVE  IInv'
<1>1. /\ UNCHANGED <<row, file, tmp, images>> /\ slips' \in 0..MaxSlips
      /\ req' = [x \in Requests |-> IF InFlight(x) THEN Over(req[x], "failed") ELSE req[x]]
  BY ChatAssumption DEF Crash, Slip, IInv, TypeOK
<1>2. ASSUME NEW x \in Requests
      PROVE  /\ req'[x] \in Request /\ Placed(req'[x])
             /\ req'[x].pc = (IF InFlight(x) THEN "done" ELSE req[x].pc)
             /\ req'[x].pc \in {"new", "done"}
             /\ req'[x].kind = req[x].kind /\ req'[x].conv = req[x].conv
             /\ req'[x].before = req[x].before /\ req'[x].cut = req[x].cut
             /\ req'[x].next = "loaded"
             /\ req'[x].out = req[x].out \/ req'[x].out = "failed"
             /\ req[x].pc = "done" => req'[x].out = req[x].out
  <2>1. req[x] \in Request /\ Placed(req[x])
    BY DEF IInv, TypeOK, Stages
  <2>2. CASE InFlight(x)
    <3>1. req'[x] = Over(req[x], "failed")
      BY <1>1, <2>2
    <3>2. Unseen \in Row /\ <<>> \in Seq(Message)
      BY DEF Unseen, Fresh, Row
    <3>3. /\ req'[x] \in Request /\ req'[x].pc = "done" /\ req'[x].kind = req[x].kind
          /\ req'[x].conv = req[x].conv /\ req'[x].before = req[x].before
          /\ req'[x].cut = req[x].cut /\ req'[x].next = "loaded" /\ req'[x].out = "failed"
      BY ZenonT(60), <2>1, <3>1, <3>2 DEF Over, Request
    <3>4. Placed(req'[x])
      BY <3>3 DEF Placed
    <3> QED BY <2>2, <3>3, <3>4 DEF InFlight
  <2>3. CASE ~InFlight(x)
    <3>1. req'[x] = req[x] /\ req[x].pc \in {"new", "done"}
      BY <1>1, <2>3 DEF InFlight
    <3>2. req[x].next = "loaded"
      BY <2>1, <3>1 DEF Placed
    <3> QED BY <2>1, <2>3, <3>1, <3>2
  <2> QED BY <2>2, <2>3
<1>3. Evolves
  BY <1>2 DEF Evolves, InFlight
<1>4. TypeOK'
  <2>1. req' \in [Requests -> Request]
    BY <1>1, <1>2
  <2> QED BY <2>1, <1>1 DEF IInv, TypeOK
<1>5. Stages'
  <2>1. ASSUME NEW x \in Requests
        PROVE  /\ req'[x].pc # "new" => row'[req'[x].conv].there # "no"
               /\ \A y \in req'[x].before : req'[y].pc = "done" /\ y # x /\ req'[x].pc # "new"
    <3>1. req[x].pc # "new" <=> req'[x].pc # "new"
      BY <1>2 DEF InFlight
    <3>2. \A y \in req[x].before : y \in Requests /\ req[y].pc = "done" /\ y # x /\ req[x].pc # "new"
      BY DEF IInv, Stages, Done, TypeOK, Request
    <3>3. req[x].pc # "new" => row[req[x].conv].there # "no"
      BY DEF IInv, Stages, Conv
    <3> QED BY <1>1, <1>2, <3>1, <3>2, <3>3 DEF InFlight
  <2> QED BY <1>2, <2>1 DEF Stages, Conv, Done
<1>6. SavesAlone'
  BY <1>2 DEF SavesAlone
<1>7. DeletedLast'
  BY <1>1, <1>2 DEF IInv, DeletedLast, Conv, InFlight
<1>8. HoldsOwn'
  <2> SUFFICES ASSUME NEW x \in Requests PROVE Owns(x, req'[x], images')
    BY DEF HoldsOwn, Owns
  <2>1. Owns(x, req[x], images)
    BY DEF IInv, HoldsOwn
  <2> QED BY <2>1, <1>1, <1>2 DEF Owns
<1>9. ASSUME NEW s \in Requests, Safe(s)'
      PROVE  Safe(s) /\ req'[s].conv = Conv(s)
  <2>1. req[s].kind = "chat" /\ req[s].out = "ok" /\ Live(s)
    BY <1>1, <1>2, <1>9 DEF Safe, Live, Conv
  <2>2. req[s].pc # "new"
    BY <2>1 DEF IInv, Stages, Placed
  <2>3. ~Excused(s)
    BY <2>2, <1>3, <1>9, Stay DEF Safe
  <2> QED BY <2>1, <2>3, <1>2 DEF Safe, Conv
<1>10. TurnsKept'
  <2>1. ASSUME NEW s \in Requests, Safe(s)', tmp'[req'[s].conv].is = "whole"
        PROVE  KeepsBut(tmp'[req'[s].conv].list, s, Removed')
    <3>1. Safe(s) /\ req'[s].conv = Conv(s)
      BY <1>9, <2>1
    <3>2. KeepsBut(tmp[Conv(s)].list, s, Removed)
      BY <1>1, <2>1, <3>1 DEF IInv, TurnsKept, Keeps
    <3> QED BY <1>1, <1>3, <3>1, <3>2, KeepsStay
  <2> QED BY <1>2, <2>1 DEF TurnsKept, Keeps, Conv, Holding, HoldsList
<1>11. TurnsSurvive'
  <2> SUFFICES ASSUME NEW s \in Requests, req'[s].kind = "chat", req'[s].out = "ok", Live(s)'
      PROVE /\ s \in images'
            /\ \/ Excused(s)' \/ Unreadable(file'[req'[s].conv])
               \/ /\ file'[req'[s].conv].is = "whole"
                  /\ KeepsBut(file'[req'[s].conv].list, s, Removed')
    BY DEF TurnsSurvive, Keeps, Conv
  <2>1. s \in images'
    BY <1>8 DEF HoldsOwn, Owns
  <2>2. CASE ~Excused(s)'
    <3>1. Safe(s)'
      BY <2>2 DEF Safe
    <3>2. Safe(s) /\ req'[s].conv = Conv(s)
      BY <1>9, <3>1
    <3>3. \/ Unreadable(file[Conv(s)])
          \/ file[Conv(s)].is = "whole" /\ KeepsBut(file[Conv(s)].list, s, Removed)
      BY <3>2 DEF IInv, TurnsSurvive, Keeps, Safe
    <3> QED BY <1>1, <1>3, <2>1, <3>2, <3>3, KeepsStay
  <2> QED BY <2>1, <2>2
<1>12. TornByTwo'
  BY <1>1, <1>3, Stay DEF IInv, TornByTwo
<1>13. FilesStayRemoved'
  <2> SUFFICES ASSUME NEW d \in Requests, req'[d].kind = "delete", req'[d].out = "ok",
                      file'[req'[d].conv].is # "absent"
      PROVE OverlapsWriter(d)'
    BY DEF FilesStayRemoved, Conv
  <2>1. OverlapsWriter(d)
    BY <1>1, <1>2 DEF IInv, FilesStayRemoved, Conv
  <2> QED BY <2>1, <1>3, Stay
<1> QED BY <1>4, <1>5, <1>6, <1>7, <1>8, <1>10, <1>11, <1>12, <1>13 DEF IInv

-----------------------------------------------------------------------------
(* Titles.                                                                 *)

Titled(q) == q.kind = "title" /\ q.out = "ok"
Pinning(q) == q.kind = "pin" /\ q.pc = "set"

\* Another title came after that of r, or a pin was changed meanwhile.
Retitled(r) ==
  \E q \in Requests :
    /\ q # r /\ Conv(q) = Conv(r) /\ req[q].pc # "new"
    /\ \/ req[q].kind = "title" /\ q \notin req[r].before
       \/ req[q].kind = "pin" /\ Overlap(r, q)

\* A change of the pin that is about to write the row back has the title in hand.
TitlesHeld ==
  \A r \in Requests : Titled(req[r]) =>
    /\ row[Conv(r)].title = r \/ Retitled(r)
    /\ \A p \in Requests : Pinning(req[p]) /\ Conv(p) = Conv(r) =>
         req[p].seen.title = r \/ Retitled(r)

\* What a step other than that of Set does to a request.
NoTitle(q) ==
  /\ req[q].pc # "new" =>
       /\ req'[q].pc # "new" /\ req'[q].kind = req[q].kind /\ req'[q].conv = req[q].conv
       /\ req'[q].before = req[q].before
  /\ req[q].pc = "new" /\ req'[q].pc # "new" =>
       req'[q].before = {p \in Requests : req[p].pc = "done"}
  /\ req[q].pc = "done" => req'[q].pc = "done" /\ req'[q].out = req[q].out
  /\ req[q].cut # OldMessage => req'[q].cut = req[q].cut
  /\ Titled(req'[q]) => Titled(req[q])
  /\ Pinning(req'[q]) =>
       \/ req'[q].seen = row[req'[q].conv]
       \/ Pinning(req[q]) /\ req'[q].seen = req[q].seen

\* Rows keep their title but when they are made.
RowsKeepTitle ==
  \A c \in Convs : row[c].there # "no" => row'[c].title = row[c].title

LEMMA RetitledStays ==
  ASSUME IInv, Evolves, NEW r \in Requests, req[r].pc # "new", Retitled(r)
  PROVE  Retitled(r)'
<1>1. PICK q \in Requests :
        /\ q # r /\ Conv(q) = Conv(r) /\ req[q].pc # "new"
        /\ \/ req[q].kind = "title" /\ q \notin req[r].before
           \/ req[q].kind = "pin" /\ Overlap(r, q)
  BY DEF Retitled
<1>2. /\ req'[q].pc # "new" /\ req'[q].kind = req[q].kind /\ req'[q].conv = req[q].conv
      /\ req'[r].conv = req[r].conv /\ req'[r].before = req[r].before
  BY <1>1 DEF Evolves
<1>3. Overlap(r, q) => Overlap(r, q)'
  BY Stay
<1> QED BY <1>1, <1>2, <1>3 DEF Retitled, Conv

LEMMA TitlesAside ==
  ASSUME IInv, TitlesHeld, \A q \in Requests : NoTitle(q), RowsKeepTitle
  PROVE  TitlesHeld'
<1> SUFFICES ASSUME NEW r \in Requests, Titled(req'[r])
    PROVE /\ row'[req'[r].conv].title = r \/ Retitled(r)'
          /\ \A p \in Requests : Pinning(req'[p]) /\ req'[p].conv = req'[r].conv =>
               req'[p].seen.title = r \/ Retitled(r)'
  BY DEF TitlesHeld, Conv, Titled, Pinning
<1>1. Evolves
  BY DEF NoTitle, Evolves
<1>2. Titled(req[r])
  BY DEF NoTitle
<1>3. req[r].pc = "done" /\ Conv(r) \in Convs /\ row[Conv(r)].there # "no"
  BY <1>2 DEF IInv, Stages, Placed, Titled, TypeOK, Request, Conv
<1>4. req'[r].conv = Conv(r)
  BY <1>3 DEF NoTitle, Conv
<1>5. Retitled(r) => Retitled(r)'
  BY <1>1, <1>3, RetitledStays
<1>6. row[Conv(r)].title = r \/ Retitled(r)
  BY <1>2 DEF TitlesHeld
<1>7. row'[Conv(r)].title = row[Conv(r)].title
  BY <1>3 DEF RowsKeepTitle
<1>8. ASSUME NEW p \in Requests, Pinning(req'[p]), req'[p].conv = Conv(r)
      PROVE  req'[p].seen.title = r \/ Retitled(r)'
  <2>1. CASE req'[p].seen = row[req'[p].conv]
    BY <2>1, <1>5, <1>6, <1>8
  <2>2. CASE Pinning(req[p]) /\ req'[p].seen = req[p].seen
    <3>1. Conv(p) = Conv(r)
      BY <2>2, <1>8 DEF NoTitle, Conv, Pinning
    <3>2. req[p].seen.title = r \/ Retitled(r)
      BY <3>1, <2>2, <1>2 DEF TitlesHeld
    <3> QED BY <3>2, <2>2, <1>5
  <2> QED BY <2>1, <2>2, <1>8 DEF NoTitle
<1> QED BY <1>4, <1>5, <1>6, <1>7, <1>8

\* Set gives the row a title, or writes back the one that was read.
LEMMA TitlesSet ==
  ASSUME IInv, TitlesHeld, NEW s \in Requests, Set(s)
  PROVE  TitlesHeld'
<1>1. /\ req[s].pc = "set" /\ Conv(s) \in Convs /\ req[s].kind \in {"title", "pin"}
      /\ req[s].out = "none"
      /\ row'[Conv(s)].title = IF req[s].kind = "title" THEN s ELSE req[s].seen.title
      /\ \A c \in Convs \ {Conv(s)} : row'[c] = row[c]
      /\ req'[s] = Over(req[s], "ok")
      /\ \A x \in Requests \ {s} : req'[x] = req[x]
  BY DEF Set, End, IInv, TypeOK, Stages, Placed, Request, Row, Conv
<1>2. /\ req'[s].pc = "done" /\ req'[s].kind = req[s].kind /\ req'[s].conv = req[s].conv
      /\ req'[s].before = req[s].before /\ req'[s].cut = req[s].cut
  BY <1>1 DEF Over, IInv, TypeOK, Request
<1>3. Evolves
  BY <1>1, <1>2 DEF Evolves
<1> SUFFICES ASSUME NEW r \in Requests, Titled(req'[r])
    PROVE /\ row'[req'[r].conv].title = r \/ Retitled(r)'
          /\ \A p \in Requests : Pinning(req'[p]) /\ req'[p].conv = req'[r].conv =>
               req'[p].seen.title = r \/ Retitled(r)'
  BY DEF TitlesHeld, Conv, Titled, Pinning
<1>4. CASE r = s
  <2>1. req[s].kind = "title" /\ req'[r].conv = Conv(s)
    BY <1>2, <1>4 DEF Titled, Conv
  <2>2. ASSUME NEW p \in Requests, Pinning(req'[p]), req'[p].conv = req'[r].conv
        PROVE  Retitled(r)'
    <3>1. p # s /\ req'[p] = req[p] /\ Pinning(req[p]) /\ Conv(p) = Conv(s)
      BY <2>1, <2>2, <1>1, <1>2 DEF Pinning, Conv
    <3>2. p \notin req[s].before /\ s \notin req[p].before
      BY <3>1, <1>1 DEF IInv, Stages, Done, Pinning
    <3>3. Overlap(s, p)
      BY <3>1, <3>2, <1>1 DEF Overlap, Pinning
    <3>4. Retitled(s)
      BY <3>1, <3>3 DEF Retitled, Pinning
    <3> QED BY <3>4, <1>1, <1>3, <1>4, RetitledStays
  <2> QED BY <2>1, <2>2, <1>1, <1>4
<1>5. CASE r # s
  <2>1. req'[r] = req[r] /\ Titled(req[r]) /\ req'[r].conv = Conv(r)
    BY <1>1, <1>5 DEF Conv
  <2>2. req[r].pc = "done" /\ Conv(r) \in Convs
    BY <2>1 DEF IInv, Stages, Placed, Titled, TypeOK, Request, Conv
  <2>3. Retitled(r) => Retitled(r)'
    BY <2>2, <1>3, RetitledStays
  <2>4. row'[Conv(r)].title = r \/ Retitled(r)
    <3>1. CASE Conv(s) # Conv(r)
      BY <3>1, <2>1, <2>2, <1>1 DEF TitlesHeld
    <3>2. CASE Conv(s) = Conv(r) /\ req[s].kind = "title"
      <4>1. s \notin req[r].before
        BY <1>1 DEF IInv, Stages, Done
      <4> QED BY <4>1, <3>2, <1>1, <1>5 DEF Retitled
    <3>3. CASE Conv(s) = Conv(r) /\ req[s].kind = "pin"
      <4>1. req[s].seen.title = r \/ Retitled(r)
        BY <3>3, <2>1, <1>1 DEF TitlesHeld, Pinning
      <4> QED BY <4>1, <3>3, <1>1
    <3> QED BY <3>1, <3>2, <3>3, <1>1
  <2>5. ASSUME NEW p \in Requests, Pinning(req'[p]), req'[p].conv = Conv(r)
        PROVE  req'[p].seen.title = r \/ Retitled(r)
    <3>1. req'[p] = req[p] /\ Pinning(req[p]) /\ Conv(p) = Conv(r)
      BY <2>5, <1>1, <1>2 DEF Pinning, Conv
    <3> QED BY <3>1, <2>1 DEF TitlesHeld
  <2> QED BY <2>1, <2>3, <2>4, <2>5
<1> QED BY <1>4, <1>5

\* r goes on without a title.
LEMMA MovesOn ==
  ASSUME IInv, NEW r \in Requests, NEW q, req' = [req EXCEPT ![r] = q],
         req[r].pc # "done", q.pc # "new",
         req[r].pc # "new" =>
           q.kind = req[r].kind /\ q.conv = req[r].conv /\ q.before = req[r].before
             /\ (req[r].cut # OldMessage => q.cut = req[r].cut),
         req[r].pc = "new" => q.before = {p \in Requests : req[p].pc = "done"},
         ~Titled(q), Pinning(q) => q.seen = row[q.conv]
  PROVE  \A x \in Requests : NoTitle(x)
<1>1. req'[r] = q /\ \A x \in Requests \ {r} : req'[x] = req[x]
  BY DEF IInv, TypeOK
<1>2. NoTitle(r)
  <2>1. req[r].pc = "new" => req[r].cut = OldMessage
    BY DEF IInv, Stages, Placed
  <2> QED BY <2>1, <1>1 DEF NoTitle
<1>3. ASSUME NEW x \in Requests \ {r} PROVE NoTitle(x)
  BY <1>1, <1>3 DEF NoTitle
<1> QED BY <1>2, <1>3

\* A request that ends without a title, at once or when it is done.
LEMMA Ended ==
  ASSUME IInv, NEW r \in Requests, NEW out, req[r].pc \notin {"new", "done"}, End(r, out),
         req[r].kind # "title" \/ out # "ok"
  PROVE  \A x \in Requests : NoTitle(x)
<1> DEFINE q == Over(req[r], out)
<1>1. req[r] \in Request
  BY DEF IInv, TypeOK
<1>2. /\ q.kind = req[r].kind /\ q.conv = req[r].conv /\ q.before = req[r].before
      /\ q.cut = req[r].cut /\ q.out = out /\ q.pc = "done"
  BY <1>1 DEF Over, Request
<1>3. req' = [req EXCEPT ![r] = q]
  BY DEF End
<1> HIDE DEF q
<1> QED BY <1>2, <1>3, MovesOn DEF Titled, Pinning

LEMMA SameRows ==
  ASSUME IInv, UNCHANGED row
  PROVE  RowsKeepTitle
BY DEF RowsKeepTitle

LEMMA CountedRows ==
  ASSUME IInv, NEW r \in Requests, Counted(r)
  PROVE  RowsKeepTitle
BY DEF RowsKeepTitle, Counted, IInv, TypeOK, Row

LEMMA TitlesBegin ==
  ASSUME IInv, NEW r \in Requests, Begins(r)
  PROVE  (\A x \in Requests : NoTitle(x)) /\ RowsKeepTitle
<1>2. PICK c \in Convs :
        \/ \E kind \in Kinds \ {"delete"} : Start(r, kind, c)
        \/ \E kind \in {"chat", "replace"} : Create(r, kind, c)
        \/ Erase(r, c)
  BY DEF Begins
<1>3. ASSUME NEW kind \in Kinds
      PROVE  LET q == Started(r, kind, c) IN
               /\ q \in Request /\ q.kind = kind /\ q.conv = c /\ q.out = req[r].out
               /\ q.before = {p \in Requests : req[p].pc = "done"}
  BY <1>3, StartedIs DEF Done
<1>4. CASE \E kind \in Kinds \ {"delete"} : Start(r, kind, c)
  <2>1. PICK kind \in Kinds \ {"delete"} : Start(r, kind, c)
    BY <1>4
  <2> DEFINE q == Found(Started(r, kind, c), r)
  <2>2. /\ req[r].pc = "new" /\ req[r].out = "none" /\ UNCHANGED row
        /\ req' = [req EXCEPT ![r] = q]
    BY <2>1 DEF Start, IInv, Stages, Placed
  <2>3. /\ q.before = {p \in Requests : req[p].pc = "done"} /\ q.out = req[r].out
        /\ q.pc # "new"
        /\ Pinning(q) => q.seen = row[q.conv]
    <3>1. Started(r, kind, c) \in Request
      BY <1>3
    <3> QED BY <1>3, <3>1, FoundIs DEF Pinning, Writers, Kinds
  <2> HIDE DEF q
  <2> QED BY <2>2, <2>3, MovesOn, SameRows DEF Titled
<1>5. CASE \E kind \in {"chat", "replace"} : Create(r, kind, c)
  <2>1. PICK kind \in {"chat", "replace"} : Create(r, kind, c)
    BY <1>5
  <2> DEFINE q == [Started(r, kind, c) EXCEPT !.pc = "find"]
  <2>2. /\ req[r].pc = "new" /\ row[c].there = "no" /\ row' = [row EXCEPT ![c] = Fresh("live")]
        /\ req' = [req EXCEPT ![r] = q]
    BY <2>1 DEF Create
  <2>3. /\ q.before = {p \in Requests : req[p].pc = "done"} /\ q.kind = kind /\ q.pc = "find"
    BY <1>3 DEF Request, Kinds, Writers
  <2>4. RowsKeepTitle
    BY <2>2 DEF RowsKeepTitle, IInv, TypeOK
  <2> HIDE DEF q
  <2> QED BY <2>2, <2>3, <2>4, MovesOn DEF Titled, Pinning
<1>6. CASE Erase(r, c)
  <2> DEFINE q == [Started(r, "delete", c) EXCEPT !.pc = "remove"]
  <2>1. /\ req[r].pc = "new" /\ row' = [row EXCEPT ![c].there = "gone"]
        /\ req' = [req EXCEPT ![r] = q]
    BY <1>6 DEF Erase
  <2>2. /\ q.before = {p \in Requests : req[p].pc = "done"} /\ q.kind = "delete" /\ q.pc = "remove"
    <3>1. Started(r, "delete", c) \in Request /\ Started(r, "delete", c).kind = "delete"
      BY <1>3 DEF Kinds
    <3> QED BY <1>3, <3>1 DEF Request, Kinds
  <2>3. RowsKeepTitle
    BY <2>1 DEF RowsKeepTitle, IInv, TypeOK, Row
  <2> HIDE DEF q
  <2> QED BY <2>1, <2>2, <2>3, MovesOn DEF Titled, Pinning
<1> QED BY <1>2, <1>4, <1>5, <1>6

\* The places of requests that read and write messages, which have no title.
LEMMA AtWork ==
  ASSUME IInv, NEW r \in Requests, InFlight(r), req[r].pc \notin {"set", "remove"}
  PROVE  req[r].kind \in Writers /\ req[r].out = "none" /\ req[r] \in Request
BY DEF IInv, Stages, Placed, InFlight, TypeOK, Request

\* A step that changes nothing of its request but what it holds and where it is.
LEMMA WorksOn ==
  ASSUME IInv, NEW r \in Requests, NEW q, req' = [req EXCEPT ![r] = q],
         InFlight(r), req[r].pc \notin {"set", "remove"}, q.pc # "new",
         q.kind = req[r].kind, q.conv = req[r].conv, q.before = req[r].before,
         req[r].cut # OldMessage => q.cut = req[r].cut
  PROVE  \A x \in Requests : NoTitle(x)
BY AtWork, MovesOn DEF InFlight, Titled, Pinning, Writers

LEMMA TitlesUse ==
  ASSUME IInv, NEW r \in Requests, NEW list, Use(r, list),
         req[r].pc \in {"read", "legacy", "loaded"}
  PROVE  \A x \in Requests : NoTitle(x)
<1>1. /\ InFlight(r) /\ req[r].kind \in Writers /\ req[r] \in Request
      /\ req[r].cut = OldMessage
  BY AtWork DEF InFlight, IInv, Stages, Placed
<1>2. ASSUME NEW out, End(r, out) PROVE \A x \in Requests : NoTitle(x)
  BY <1>1, <1>2, Ended DEF InFlight, Writers
<1>3. ASSUME NEW i, req' = [req EXCEPT ![r].pc = "open", ![r].list = RemoveAt(list, i),
                                  ![r].seen = Unseen, ![r].next = "edited", ![r].cut = list[i]]
      PROVE  \A x \in Requests : NoTitle(x)
  <2> DEFINE q == [req[r] EXCEPT !.pc = "open", !.list = RemoveAt(list, i),
                                  !.seen = Unseen, !.next = "edited", !.cut = list[i]]
  <2>1. /\ q.pc = "open" /\ q.kind = req[r].kind /\ q.conv = req[r].conv
        /\ q.before = req[r].before
    BY <1>1 DEF Request
  <2>2. req' = [req EXCEPT ![r] = q]
    BY <1>3
  <2> HIDE DEF q
  <2> QED BY <2>1, <2>2, <1>1, WorksOn
<1>4. ASSUME req' = [req EXCEPT ![r].pc = "images", ![r].seen = Unseen, ![r].list = list]
      PROVE  \A x \in Requests : NoTitle(x)
  <2> DEFINE q == [req[r] EXCEPT !.pc = "images", !.seen = Unseen, !.list = list]
  <2>1. /\ q.pc = "images" /\ q.kind = req[r].kind /\ q.conv = req[r].conv
        /\ q.before = req[r].before
    BY <1>1 DEF Request
  <2>2. req' = [req EXCEPT ![r] = q]
    BY <1>4
  <2> HIDE DEF q
  <2> QED BY <2>1, <2>2, <1>1, WorksOn
<1> QED BY <1>2, <1>3, <1>4 DEF Use

LEMMA TitlesGoto ==
  ASSUME IInv, NEW r \in Requests, NEW pc, pc # "new", Goto(r, pc),
         InFlight(r), req[r].pc \notin {"set", "remove"}
  PROVE  \A x \in Requests : NoTitle(x)
<1> DEFINE q == [req[r] EXCEPT !.pc = pc]
<1>1. req[r] \in Request
  BY AtWork
<1>2. q.pc = pc /\ q.kind = req[r].kind /\ q.conv = req[r].conv /\ q.before = req[r].before
        /\ q.cut = req[r].cut
  BY <1>1 DEF Request
<1>3. req' = [req EXCEPT ![r] = q]
  BY DEF Goto
<1> HIDE DEF q
<1> QED BY <1>2, <1>3, WorksOn

LEMMA TitlesLoad ==
  ASSUME IInv, NEW r \in Requests, Loads(r)
  PROVE  (\A x \in Requests : NoTitle(x)) /\ RowsKeepTitle
<1>1. UNCHANGED row
  BY DEF Loads, Find, FindFails, Read, ReadFails, ReadLegacy, Loaded, SaveImages, RefuseImages
<1>2. req[r].pc \in {"find", "read", "legacy", "loaded", "images"}
  BY DEF Loads, Find, FindFails, Read, ReadFails, ReadLegacy, Loaded, SaveImages, RefuseImages
<1>3. InFlight(r) /\ req[r].kind \in Writers /\ req[r] \in Request
  BY <1>2, AtWork DEF InFlight
<1>4. ASSUME NEW out, End(r, out) PROVE \A x \in Requests : NoTitle(x)
  BY <1>2, <1>3, <1>4, Ended DEF InFlight, Writers
<1>5. CASE Find(r)
  <2> DEFINE q == Found(req[r], r)
  <2>1. /\ q.pc # "new" /\ q.kind = req[r].kind /\ q.conv = req[r].conv
        /\ q.before = req[r].before /\ q.cut = req[r].cut
    BY <1>3 DEF Found, Request
  <2>2. req' = [req EXCEPT ![r] = q]
    BY <1>5 DEF Find
  <2> HIDE DEF q
  <2>3. \A x \in Requests : NoTitle(x)
    BY <2>1, <2>2, <1>2, <1>3, WorksOn
  <2> QED BY <2>3, <1>1, SameRows
<1>6. CASE FindFails(r) \/ ReadFails(r) \/ RefuseImages(r)
  BY <1>1, <1>4, <1>6, SameRows DEF FindFails, ReadFails, RefuseImages
<1>7. CASE Read(r)
  <2>1. Goto(r, "legacy") \/ Use(r, file[Conv(r)].list)
    BY <1>7 DEF Read
  <2> QED BY <2>1, <1>1, <1>2, <1>3, <1>7, TitlesGoto, TitlesUse, SameRows DEF Read
<1>8. CASE ReadLegacy(r)
  <2>1. CASE Live(r) /\ row[Conv(r)].legacy
    <3> DEFINE q == [req[r] EXCEPT !.pc = "open", !.list = LegacyRows, !.next = "loaded"]
    <3>1. /\ q.pc = "open" /\ q.kind = req[r].kind /\ q.conv = req[r].conv
          /\ q.before = req[r].before /\ q.cut = req[r].cut
      BY <1>3 DEF Request
    <3>2. req' = [req EXCEPT ![r] = q]
      BY <1>8, <2>1 DEF ReadLegacy
    <3> HIDE DEF q
    <3>3. \A x \in Requests : NoTitle(x)
      BY <3>1, <3>2, <1>2, <1>3, WorksOn
    <3> QED BY <3>3, <1>1, SameRows
  <2>2. CASE ~(Live(r) /\ row[Conv(r)].legacy)
    <3>1. End(r, "failed") \/ Use(r, <<>>)
      BY <1>8, <2>2 DEF ReadLegacy
    <3> QED BY <3>1, <1>1, <1>4, <1>8, TitlesUse, SameRows DEF ReadLegacy
  <2> QED BY <2>1, <2>2
<1>9. CASE Loaded(r)
  BY <1>1, <1>9, TitlesUse, SameRows DEF Loaded
<1>10. CASE SaveImages(r)
  <2> DEFINE q == [req[r] EXCEPT !.pc = "open", !.next = "asked",
                                 !.list = Append(@, <<r, "user">>)]
  <2>1. /\ q.pc = "open" /\ q.kind = req[r].kind /\ q.conv = req[r].conv
        /\ q.before = req[r].before /\ q.cut = req[r].cut
    BY <1>3 DEF Request
  <2>2. req' = [req EXCEPT ![r] = q]
    BY <1>10 DEF SaveImages
  <2> HIDE DEF q
  <2>3. \A x \in Requests : NoTitle(x)
    BY <2>1, <2>2, <1>2, <1>3, WorksOn
  <2> QED BY <2>3, <1>1, SameRows
<1> QED BY <1>5, <1>6, <1>7, <1>8, <1>9, <1>10 DEF Loads

LEMMA TitlesSave ==
  ASSUME IInv, NEW r \in Requests, Saves(r)
  PROVE  (\A x \in Requests : NoTitle(x)) /\ RowsKeepTitle
<1>1. UNCHANGED row /\ req[r].pc \in {"open", "write", "rename"}
  BY DEF Saves, Open, Write, Rename, RenameFails
<1>2. InFlight(r) /\ req[r].kind \in Writers /\ req[r] \in Request
  BY <1>1, AtWork DEF InFlight
<1>3. CASE Open(r)
  <2> DEFINE q == [req[r] EXCEPT !.pc = "write", !.fd = "tmp"]
  <2>1. /\ q.pc = "write" /\ q.kind = req[r].kind /\ q.conv = req[r].conv
        /\ q.before = req[r].before /\ q.cut = req[r].cut
    BY <1>2 DEF Request
  <2>2. req' = [req EXCEPT ![r] = q]
    BY <1>3 DEF Open
  <2> HIDE DEF q
  <2>3. \A x \in Requests : NoTitle(x)
    BY <2>1, <2>2, <1>1, <1>2, WorksOn
  <2> QED BY <2>3, <1>1, SameRows
<1>4. CASE Write(r)
  BY <1>1, <1>2, <1>4, TitlesGoto, SameRows DEF Write
<1>5. CASE RenameFails(r)
  BY <1>1, <1>2, <1>5, Ended, SameRows DEF RenameFails, InFlight
<1>6. CASE Rename(r)
  <2>1. ASSUME NEW x \in Requests PROVE NoTitle(x)
    <3>1. req[x] \in Request /\ req[r].next # "new"
      BY DEF IInv, TypeOK, Request
    <3>2. /\ req'[x].kind = req[x].kind /\ req'[x].conv = req[x].conv
          /\ req'[x].before = req[x].before /\ req'[x].cut = req[x].cut
          /\ req'[x].out = req[x].out /\ req'[x].seen = req[x].seen
          /\ x # r => req'[x].pc = req[x].pc
          /\ x = r => req'[x].pc = req[r].next
      <4>1. CASE x = r
        <5>1. req'[x] = [req[r] EXCEPT !.pc = req[r].next, !.next = "loaded", !.fd = "gone"]
          BY <1>6, <4>1 DEF Rename
        <5> QED BY <5>1, <4>1, <3>1 DEF Request
      <4>2. CASE x # r
        <5>1. req'[x] = Moved(req[x], Conv(r))
          BY <1>6, <4>2 DEF Rename
        <5> QED BY <5>1, <4>2, <3>1 DEF Request, Moved
      <4> QED BY <4>1, <4>2
    <3> QED BY <3>1, <3>2, <1>1, <1>2 DEF NoTitle, Titled, Pinning, Writers
  <2> QED BY <2>1, <1>1, SameRows
<1> QED BY <1>3, <1>4, <1>5, <1>6 DEF Saves

LEMMA TitlesStored ==
  ASSUME IInv, NEW r \in Requests, Stored(r)
  PROVE  (\A x \in Requests : NoTitle(x)) /\ RowsKeepTitle
<1>1. req[r].pc \in {"asked", "asking", "answered", "edited"}
  BY DEF Stored, Asked, Answer, Answered, StatsFail, Edited, EditedUncounted
<1>2. InFlight(r) /\ req[r].kind \in Writers /\ req[r] \in Request
  BY <1>1, AtWork DEF InFlight
<1>3. RowsKeepTitle
  <2>1. Counted(r) \/ UNCHANGED row
    BY DEF Stored, Asked, Answer, Answered, StatsFail, Edited, EditedUncounted
  <2> QED BY <2>1, SameRows, CountedRows
<1>4. ASSUME NEW out, End(r, out) PROVE \A x \in Requests : NoTitle(x)
  BY <1>1, <1>2, <1>4, Ended DEF InFlight, Writers
<1>5. CASE Asked(r)
  BY <1>1, <1>2, <1>3, <1>5, TitlesGoto DEF Asked
<1>6. CASE Answer(r)
  <2> DEFINE q == [req[r] EXCEPT !.pc = "open", !.next = "answered",
                                 !.list = Append(@, <<r, "assistant">>)]
  <2>1. /\ q.pc = "open" /\ q.kind = req[r].kind /\ q.conv = req[r].conv
        /\ q.before = req[r].before /\ q.cut = req[r].cut
    BY <1>2 DEF Request
  <2>2. req' = [req EXCEPT ![r] = q]
    BY <1>6 DEF Answer
  <2> HIDE DEF q
  <2> QED BY <2>1, <2>2, <1>1, <1>2, <1>3, WorksOn
<1>7. CASE Answered(r) \/ StatsFail(r) \/ Edited(r) \/ EditedUncounted(r)
  BY <1>3, <1>4, <1>7 DEF Answered, StatsFail, Edited, EditedUncounted
<1> QED BY <1>5, <1>6, <1>7 DEF Stored

LEMMA TitlesEnd ==
  ASSUME IInv, NEW r \in Requests, SetFails(r) \/ RemoveFile(r) \/ KeepFile(r) \/ Fail(r)
  PROVE  (\A x \in Requests : NoTitle(x)) /\ RowsKeepTitle
<1>1. UNCHANGED row
  BY DEF SetFails, RemoveFile, KeepFile, Fail
<1>2. CASE SetFails(r) \/ KeepFile(r) \/ Fail(r)
  BY <1>1, <1>2, Ended, SameRows DEF SetFails, KeepFile, Fail, InFlight
<1>3. CASE RemoveFile(r)
  <2>1. req[r].pc = "remove" /\ req[r].kind = "delete"
    BY <1>3 DEF RemoveFile, IInv, Stages, Placed
  <2>2. ASSUME NEW x \in Requests PROVE NoTitle(x)
    <3>1. req[x] \in Request
      BY DEF IInv, TypeOK
    <3>2. /\ req'[x].kind = req[x].kind /\ req'[x].conv = req[x].conv
          /\ req'[x].before = req[x].before /\ req'[x].cut = req[x].cut
          /\ x # r => /\ req'[x].pc = req[x].pc /\ req'[x].out = req[x].out
                      /\ req'[x].seen = req[x].seen
          /\ x = r => req'[x].pc = "done"
      <4>1. CASE x = r
        <5>1. req'[x] = Over(req[r], "ok")
          BY <1>3, <4>1 DEF RemoveFile
        <5> QED BY <5>1, <4>1, <3>1 DEF Request, Over
      <4>2. CASE x # r
        <5>1. req'[x] = req[x] \/ req'[x] = [req[x] EXCEPT !.fd = "gone"]
          BY <1>3, <4>2 DEF RemoveFile
        <5> QED BY <5>1, <4>2, <3>1 DEF Request
      <4> QED BY <4>1, <4>2
    <3> QED BY <3>2, <2>1 DEF NoTitle, Titled, Pinning
  <2> QED BY <2>2, <1>1, SameRows
<1> QED BY <1>2, <1>3

LEMMA TitlesCrash ==
  ASSUME IInv, Crash
  PROVE  (\A x \in Requests : NoTitle(x)) /\ RowsKeepTitle
<1>1. ASSUME NEW x \in Requests PROVE NoTitle(x)
  <2>1. req[x] \in Request
    BY DEF IInv, TypeOK
  <2>2. CASE InFlight(x)
    <3>1. req'[x] = Over(req[x], "failed")
      BY <2>2 DEF Crash
    <3>2. /\ req'[x].kind = req[x].kind /\ req'[x].conv = req[x].conv
          /\ req'[x].before = req[x].before /\ req'[x].cut = req[x].cut
          /\ req'[x].pc = "done" /\ req'[x].out = "failed"
      BY <3>1, <2>1 DEF Over, Request
    <3> QED BY <3>2, <2>2 DEF NoTitle, Titled, Pinning, InFlight
  <2>3. CASE ~InFlight(x)
    <3>1. req'[x] = req[x]
      BY <2>3 DEF Crash
    <3> QED BY <3>1 DEF NoTitle, Titled, Pinning
  <2> QED BY <2>2, <2>3
<1> QED BY <1>1, SameRows DEF Crash

LEMMA TitlesKept == IInv /\ TitlesHeld /\ [Next]_vars => TitlesHeld'
<1> SUFFICES ASSUME IInv, TitlesHeld, [Next]_vars PROVE TitlesHeld'
  OBVIOUS
<1>1. CASE UNCHANGED vars
  <2>1. \A q \in Requests : NoTitle(q)
    BY <1>1 DEF vars, NoTitle, Titled, Pinning
  <2> QED BY <2>1, <1>1, TitlesAside, SameRows DEF vars
<1>2. CASE Crash
  BY <1>2, TitlesCrash, TitlesAside
<1>3. ASSUME NEW r \in Requests, Begins(r) PROVE TitlesHeld'
  BY <1>3, TitlesBegin, TitlesAside
<1>4. ASSUME NEW r \in Requests, Loads(r) PROVE TitlesHeld'
  BY <1>4, TitlesLoad, TitlesAside
<1>5. ASSUME NEW r \in Requests, Saves(r) PROVE TitlesHeld'
  BY <1>5, TitlesSave, TitlesAside
<1>6. ASSUME NEW r \in Requests, Stored(r) PROVE TitlesHeld'
  BY <1>6, TitlesStored, TitlesAside
<1>7. ASSUME NEW r \in Requests, RowOnly(r) \/ Fail(r) PROVE TitlesHeld'
  BY <1>7, TitlesEnd, TitlesSet, TitlesAside DEF RowOnly
<1> QED BY <1>1, <1>2, <1>3, <1>4, <1>5, <1>6, <1>7 DEF Next

LEMMA TitlesFirst == Init => TitlesHeld
BY DEF Init, TitlesHeld, Titled

-----------------------------------------------------------------------------
(* The theorems.                                                           *)

LEMMA Starts == Init => IInv
<1> SUFFICES ASSUME Init PROVE IInv
  OBVIOUS
<1>1. \A r \in Requests :
        /\ req[r].pc = "new" /\ req[r].kind = "open" /\ req[r].conv \in Convs /\ req[r].before = {}
        /\ req[r].list = <<>> /\ req[r].next = "loaded" /\ req[r].cut = OldMessage
        /\ req[r].out = "none"
  BY ChatAssumption DEF Init
<1>2. TypeOK
  <2>1. Unseen \in Row /\ <<>> \in Seq(Message) /\ OldMessage \in Message
    BY DEF Unseen, Fresh, Row, OldMessage, Message
  <2>2. Aged \in Row
    <3>1. Len(LegacyRows) \in Nat
      BY DEF LegacyRows
    <3> QED BY <3>1 DEF Aged, Fresh, Row
  <2>3. (CHOOSE c \in Convs : TRUE) \in Convs
    BY ChatAssumption
  <2>4. Absent \in Content
    BY <2>1 DEF Absent, Content
  <2>5. row \in [Convs -> Row]
    BY <2>1, <2>2 DEF Init
  <2>6. req \in [Requests -> Request]
    BY <2>1, <2>3 DEF Init, Request, Kinds, Writers
  <2> QED BY <2>4, <2>5, <2>6, ChatAssumption DEF Init, TypeOK
<1>3. Stages
  BY <1>1 DEF Stages, Placed
<1>4. SavesAlone /\ DeletedLast /\ HoldsOwn
  BY <1>1 DEF SavesAlone, DeletedLast, HoldsOwn, Owns
<1>5. TurnsKept /\ TurnsSurvive
  BY <1>1 DEF TurnsKept, TurnsSurvive, Safe
<1>6. TornByTwo /\ FilesStayRemoved
  BY <1>1 DEF Init, TornByTwo, FilesStayRemoved, Unreadable, Absent
<1> QED BY <1>2, <1>3, <1>4, <1>5, <1>6 DEF IInv

LEMMA Keeping == IInv /\ [Next]_vars => IInv'
<1> SUFFICES ASSUME IInv, [Next]_vars PROVE IInv'
  OBVIOUS
<1>1. CASE UNCHANGED vars
  <2>1. (TypeOK /\ Stages /\ SavesAlone /\ DeletedLast /\ HoldsOwn)'
    BY <1>1 DEF vars, IInv, TypeOK, Stages, SavesAlone, DeletedLast, HoldsOwn, Conv, Done,
       OverlapsWriter, Overlap, Writer, Owns
  <2>2. /\ \A p, q \in Requests : Overlap(p, q)' <=> Overlap(p, q)
        /\ \A q \in Requests : Writer(q)' <=> Writer(q)
    BY <1>1 DEF vars, Overlap, Writer, Conv
  <2>3. /\ \A r \in Requests : OverlapsWriter(r)' <=> OverlapsWriter(r)
        /\ \A r \in Requests : Excused(r)' <=> Excused(r)
        /\ \A c \in Convs : Clash(c)' <=> Clash(c)
    BY <1>1, <2>2 DEF vars, OverlapsWriter, Excused, Clash, Conv
  <2>4. Removed' = Removed /\ \A r \in Requests : Safe(r)' <=> Safe(r)
    BY <1>1, <2>3 DEF vars, Removed, Safe, Live, Conv
  <2>5. (TurnsKept /\ TurnsSurvive)'
    BY <1>1, <2>3, <2>4 DEF vars, IInv, TurnsKept, TurnsSurvive, Keeps, Live, Conv, Holding
  <2>6. (TornByTwo /\ FilesStayRemoved)'
    BY <1>1, <2>3 DEF vars, IInv, TornByTwo, FilesStayRemoved, Conv
  <2> QED BY <2>1, <2>5, <2>6 DEF IInv
<1>2. CASE Crash
  BY <1>2, CrashKeeps
<1>3. ASSUME NEW r \in Requests, Begins(r) PROVE IInv'
  BY <1>3, StartKeeps, CreateKeeps, EraseKeeps DEF Begins
<1>4. ASSUME NEW r \in Requests, Loads(r) PROVE IInv'
  BY <1>4, FindKeeps, FailedKeeps, ReadKeeps, ReadLegacyKeeps, LoadedKeeps, SaveImagesKeeps,
     RefuseKeeps DEF Loads
<1>5. ASSUME NEW r \in Requests, Saves(r) PROVE IInv'
  BY <1>5, OpenedKeeps, WriteKeeps, RenameKeeps, FailedKeeps DEF Saves
<1>6. ASSUME NEW r \in Requests, Stored(r) PROVE IInv'
  BY <1>6, AskedKeeps, AnswerKeeps, AnsweredKeeps, FailedKeeps, EditedKeeps, FailKeeps DEF Stored
<1>7. ASSUME NEW r \in Requests, RowOnly(r) PROVE IInv'
  BY <1>7, SetKeeps, FailedKeeps, RemoveFileKeeps, FailKeeps DEF RowOnly
<1>8. ASSUME NEW r \in Requests, Fail(r) PROVE IInv'
  BY <1>8, FailKeeps
<1> QED BY <1>1, <1>2, <1>3, <1>4, <1>5, <1>6, <1>7, <1>8 DEF Next

\* The inductive invariant: who is where with what in hand, whose save is alone with
\* its temporary file, and which lists, in memory, in the temporary file or stored,
\* still hold a turn that was told to be stored.
THEOREM ChatKeeps == Spec => []IInv
BY Starts, Keeping, PTL DEF Spec

\* A stored turn and its image stay, whatever the other requests, their failures and
\* crashes do, unless another writer overlapped or a document replaced the list
\* (SaveMessages, loadConversationMessages and the handlers between them).
THEOREM StoredTurns == Spec => []TurnsSurvive
<1>1. IInv => TurnsSurvive
  BY DEF IInv
<1> QED BY <1>1, ChatKeeps, PTL

\* Only two saves at once leave a file that does not parse: SaveMessages, for all that
\* its temporary file has one name, is safe against any crash and any leftover.
THEOREM TornFiles == Spec => []TornByTwo
<1>1. IInv => TornByTwo
  BY DEF IInv
<1> QED BY <1>1, ChatKeeps, PTL

\* What was deleted is only written again by a request that began before (deletion of
\* the row and then of the file), and a file that could not be removed is read and
\* written by none that began later.
THEOREM DeletedForGood == Spec => []DeletedStays
<1>1. ASSUME IInv, NEW d \in Requests, NEW q \in Requests, req[d].kind = "delete", Done(d),
             Conv(q) = Conv(d), InFlight(q)
      PROVE  Overlap(d, q)
  <2>1. req[d].pc = "done" /\ req[q].pc \notin {"new", "done"}
    BY <1>1 DEF Done, InFlight
  <2>2. d \notin req[q].before
    BY <1>1, <2>1 DEF IInv, DeletedLast
  <2>3. q \notin req[d].before
    BY <1>1, <2>1 DEF IInv, Stages, Done
  <2> QED BY <1>1, <2>1, <2>2, <2>3 DEF Overlap
<1>2. IInv => DeletedStays
  BY <1>1 DEF IInv, DeletedStays
<1> QED BY <1>2, ChatKeeps, PTL

\* A new title stays, however many changes of titles and pins, failures and crashes
\* come, until another title or a change of the pin that overlapped it (UpdateConversationMeta
\* writes back both columns, one of them as it was read).
THEOREM TitlesStay == Spec => []TitlesSurvive
<1>1. IInv /\ TitlesHeld => TitlesSurvive
  BY DEF TitlesHeld, Titled, TitlesSurvive, Retitled
<1> QED BY <1>1, ChatKeeps, TitlesKept, TitlesFirst, PTL DEF Spec

-----------------------------------------------------------------------------
(* Messages that were removed: lists that say nothing twice.               *)

\* No message is twice in the list.
Once(list) == \A i, j \in 1..Len(list) : list[i] = list[j] => i = j

LEMMA RemovingOne ==
  ASSUME NEW S, NEW list \in Seq(S), Once(list), NEW i \in 1..Len(list)
  PROVE  /\ Once(RemoveAt(list, i)) /\ ~Contains(RemoveAt(list, i), list[i])
         /\ \A m : Contains(RemoveAt(list, i), m) => Contains(list, m)
<1> DEFINE less == RemoveAt(list, i)  At(j) == IF j < i THEN j ELSE j + 1
<1>1. Len(less) = Len(list) - 1 /\ \A j \in 1..(Len(list) - 1) : less[j] = list[At(j)]
  BY RemoveAtIs
<1>2. Len(list) \in Nat /\ i \in Nat
  OBVIOUS
<1> HIDE DEF less
<1>3. \A j \in 1..(Len(list) - 1) : At(j) \in 1..Len(list) /\ At(j) # i
  BY <1>2
<1>4. \A j, k \in 1..(Len(list) - 1) : At(j) = At(k) => j = k
  BY <1>2
<1> HIDE DEF At
<1>5. Once(less)
  BY <1>1, <1>3, <1>4 DEF Once
<1>6. ~Contains(less, list[i])
  BY <1>1, <1>3 DEF Once, Contains
<1>7. \A m : Contains(less, m) => Contains(list, m)
  BY <1>1, <1>3 DEF Contains
<1> QED BY <1>5, <1>6, <1>7 DEF less

LEMMA AppendingOne ==
  ASSUME NEW S, NEW list \in Seq(S), Once(list), NEW m \in S, ~Contains(list, m)
  PROVE  /\ Once(Append(list, m)) /\ Append(list, m) # <<>>
         /\ \A x : Contains(Append(list, m), x) => Contains(list, x) \/ x = m
<1> DEFINE more == Append(list, m)  n == Len(list)
<1>1. n \in Nat /\ Len(more) = n + 1 /\ more[n + 1] = m /\ \A j \in 1..n : more[j] = list[j]
  BY AppendProperties
<1> HIDE DEF more
<1>2. \A j \in 1..Len(more) : j = n + 1 \/ j \in 1..n
  BY <1>1
<1>3. \A j \in 1..n : more[j] # m
  BY <1>1 DEF Contains
<1>4. Once(more)
  BY <1>1, <1>2, <1>3 DEF Once
<1>5. \A x : Contains(more, x) => Contains(list, x) \/ x = m
  BY <1>1, <1>2 DEF Contains
<1>6. more # <<>>
  BY <1>1
<1> QED BY <1>4, <1>5, <1>6 DEF more

LEMMA OnceSmall == Once(<<>>) /\ \A m : Once(<<m>>) /\ \A x : Contains(<<m>>, x) => x = m
BY DEF Once, Contains

-----------------------------------------------------------------------------
(* Messages that were removed: what a request has said, and what it holds. *)

\* A message of q is in its list, or was.
Says(q, by) ==
  \/ q.kind = "chat" /\ by = "user" /\ (q.next = "asked" \/ q.pc \in {"asked", "asking"})
  \/ q.kind = "chat" /\ (q.next = "answered" \/ q.pc \in {"answered", "done"})
  \/ q.kind = "replace" /\ q.pc \notin {"new", "find"}

Said ==
  {OldMessage} \cup {m \in Requests \X {"user", "assistant"} : Says(req[m[1]], m[2])}

Fine(list) == Once(list) /\ \A m : Contains(list, m) => m \in Said

Editing(q) == q.kind = "edit" /\ "edited" \in {q.pc, q.next}

\* Only an edit saves a list with nothing in it, and what it took is not there.
Clean(q) ==
  /\ Fine(q.list) /\ q.cut \in Said
  /\ Editing(q) => ~Contains(q.list, q.cut)
  /\ q.list = <<>> /\ q.pc \in {"open", "write", "rename"} => Editing(q)

ListsAreFine ==
  /\ \A c \in Convs : Fine(file[c].list) /\ Fine(tmp[c].list)
  /\ \A r \in Requests : Clean(req[r])

\* What a request saved is the file until it is over, or the row is gone with it.
Saved(r) == file[Conv(r)] = Whole(req[r].list) \/ (~Live(r) /\ file[Conv(r)] = Absent)
SavedAs ==
  \A r \in Requests :
    req[r].pc \in {"asked", "answered", "edited"} => Saved(r) \/ OverlapsWriter(r)

EditLost(c) ==
  \E q \in Requests :
    Conv(q) = c /\ req[q].kind = "edit" /\ req[q].out \in {"uncounted", "failed"}

\* Nobody goes for the legacy rows of c: a row that counts messages has them in the
\* file, or an edit is about to count again.
LegacyIsOver(c) ==
  row[c].there = "live" =>
    /\ row[c].count > 0 =>
         \/ file[c].list # <<>>
         \/ \E q \in Requests : Conv(q) = c /\ req[q].kind = "edit" /\ req[q].pc = "edited"
    /\ \A q \in Requests :
         Conv(q) = c /\ req[q].kind \in Writers =>
           /\ req[q].pc = "read" /\ req[q].seen.count > 0 => file[c].list # <<>>
           /\ req[q].pc # "legacy"

\* What the edit e took is nowhere from where it could come back.
GoneFor(e) ==
  LET c == Conv(e)  m == req[e].cut IN
    /\ ~Contains(file[c].list, m)
    /\ \A q \in Requests : Conv(q) = c /\ Writer(q) /\ InFlight(q) => ~Contains(req[q].list, m)
    /\ m = OldMessage => LegacyIsOver(c)

EditsLast ==
  \A e \in Requests :
    req[e].kind = "edit" /\ req[e].out = "ok" => GoneFor(e) \/ Clash(Conv(e)) \/ EditLost(Conv(e))

RemovalInv == ListsAreFine /\ SavedAs /\ EditsLast

-----------------------------------------------------------------------------
(* Messages that were removed: what a step does.                           *)

\* x goes forth, and what it has said is said.
Evolving(x) ==
  LET q == req[x]  n == req'[x] IN
    /\ q.pc # "new" =>
         n.pc # "new" /\ n.kind = q.kind /\ n.conv = q.conv /\ n.before = q.before
    /\ q.pc = "new" /\ n.pc # "new" => n.before = {p \in Requests : req[p].pc = "done"}
    /\ q.pc = "done" => n.pc = "done" /\ n.out = q.out
    /\ q.cut # OldMessage \/ q.pc \in {"edited", "done"} => n.cut = q.cut
    /\ \A by : Says(q, by) => Says(n, by)

\* Where the messages in its list come from.
Carries(x) ==
  \A m : Contains(req'[x].list, m) =>
    \/ Contains(req[x].list, m)
    \/ req[x].pc = "read" /\ Contains(file[Conv(x)].list, m)
    \/ req[x].pc = "legacy" /\ Live(x) /\ m = OldMessage
    \/ m \in Said' \ Said

Tidy(x) ==
  LET q == req[x]  n == req'[x] IN
    /\ Once(n.list)
    /\ \/ n.cut = q.cut \/ Contains(q.list, n.cut)
       \/ q.pc = "read" /\ Contains(file[Conv(x)].list, n.cut)
    /\ Editing(n) => ~Contains(n.list, n.cut)
    /\ n.list = <<>> /\ n.pc \in {"open", "write", "rename"} => Editing(n)

Alone(x) == \A y \in Requests \ {x} : req'[y] = req[y]

Reads(x) ==
  LET q == req[x]  n == req'[x] IN
    /\ n.pc = "read" =>
         \/ q.pc = "read" /\ n.seen = q.seen
         \/ /\ q.pc \in {"new", "find"} /\ n.seen = row[n.conv]
            /\ UNCHANGED <<row, file>> /\ Alone(x)
    /\ n.pc = "legacy" => q.pc = "legacy" \/ (q.pc = "read" /\ WantsLegacy(x))

Stands(x) ==
  LET q == req[x]  n == req'[x] IN
    n.pc \in {"asked", "answered", "edited"} =>
      /\ n.list = q.list
      /\ q.pc = n.pc \/ (q.pc = "rename" /\ file'[Conv(x)] = tmp[Conv(x)])

\* The end of an edit that counts what it left.
Counts(x) ==
  /\ req[x].pc = "edited" /\ req'[x].pc = "done"
  /\ Live(x) => row'[Conv(x)].count = Len(req[x].list)
  /\ UNCHANGED file /\ Alone(x)

Finishes(x) ==
  LET q == req[x]  n == req'[x] IN
    /\ n.kind = "edit" /\ n.out = "ok" => q.out = "ok" \/ Counts(x)
    /\ q.kind = "edit" /\ q.pc = "edited" =>
         n.pc = "edited" \/ n.out \in {"uncounted", "failed"} \/ Counts(x)

Proceeds(x) == Evolving(x) /\ Carries(x) /\ Tidy(x) /\ Reads(x) /\ Stands(x) /\ Finishes(x)

\* The lists there are.
Lists == {<<>>} \cup {file[c].list : c \in Convs} \cup {tmp[c].list : c \in Convs}
           \cup {req[r].list : r \in Requests}

RowsGo ==
  \A c \in Convs :
    /\ row[c].there # "no" => row'[c].there # "no"
    /\ row[c].there = "gone" => row'[c].there = "gone"
    /\ \/ row[c].there = "no" \/ row'[c].count = row[c].count
       \/ /\ UNCHANGED file
          /\ \E r \in Requests :
               /\ Conv(r) = c /\ req[r].pc \in {"asked", "answered", "edited"} /\ Live(r)
               /\ row'[c].count = Len(req[r].list)

FilesGo ==
  \A c \in Convs :
    /\ file'[c].list \in Lists /\ tmp'[c].list \in Lists
    /\ \/ file'[c] = file[c]
       \/ \E r \in Requests :
            Conv(r) = c /\ req[r].pc = "rename" /\ file'[c] = tmp[c] /\ req'[r].pc = req[r].next
       \/ \E r \in Requests : Conv(r) = c /\ req[r].pc = "write" /\ req[r].fd = "file"
       \/ file'[c] = Absent /\ row[c].there = "gone"

StepSays == (\A x \in Requests : Proceeds(x)) /\ RowsGo /\ FilesGo

LEMMA SaidIs ==
  ASSUME NEW r \in Requests, NEW by \in {"user", "assistant"}
  PROVE  /\ <<r, by>> \in Said <=> Says(req[r], by)
         /\ <<r, by>> \in Said' <=> Says(req'[r], by)
         /\ <<r, by>> # OldMessage
<1>1. <<r, by>> # OldMessage
  BY ChatAssumption DEF OldMessage
<1>2. <<r, by>> \in Requests \X {"user", "assistant"} /\ <<r, by>>[1] = r /\ <<r, by>>[2] = by
  OBVIOUS
<1> QED BY <1>1, <1>2 DEF Said

LEMMA SaidGrows ==
  ASSUME \A x \in Requests : Evolving(x)
  PROVE  Said \subseteq Said' /\ \A list : Fine(list) => Fine(list)'
<1>1. ASSUME NEW m \in Said PROVE m \in Said'
  <2>1. CASE m = OldMessage
    BY <2>1 DEF Said
  <2>2. CASE m \in Requests \X {"user", "assistant"} /\ Says(req[m[1]], m[2])
    <3>1. m[1] \in Requests
      BY <2>2
    <3>2. Says(req'[m[1]], m[2])
      BY <2>2, <3>1 DEF Evolving
    <3> QED BY <2>2, <3>2 DEF Said
  <2> QED BY <2>1, <2>2 DEF Said
<1> QED BY <1>1 DEF Fine

LEMMA ListsStayFine ==
  ASSUME IInv, ListsAreFine, StepSays
  PROVE  ListsAreFine'
<1>1. Said \subseteq Said' /\ \A list : Fine(list) => Fine(list)'
  BY SaidGrows DEF StepSays, Proceeds
<1>2. \A list \in Lists : Fine(list)
  BY OnceSmall, NothingContained DEF ListsAreFine, Clean, Lists, Fine
<1>3. \A c \in Convs : Fine(file[c].list)' /\ Fine(tmp[c].list)'
  <2> TAKE c \in Convs
  <2>1. file'[c].list \in Lists /\ tmp'[c].list \in Lists
    BY DEF StepSays, FilesGo
  <2>2. PICK f, t \in Lists : f = file'[c].list /\ t = tmp'[c].list
    BY <2>1
  <2>3. Fine(f)' /\ Fine(t)'
    BY <1>1, <1>2
  <2> QED BY <2>2, <2>3 DEF Fine
<1>4. ASSUME NEW x \in Requests PROVE Clean(req[x])'
  <2>1. Proceeds(x) /\ Clean(req[x]) /\ Conv(x) \in Convs
    BY DEF StepSays, ListsAreFine, IInv, TypeOK, Request, Conv
  <2>2. \A m : Contains(req'[x].list, m) => m \in Said'
    <3>1. \A m : Contains(req[x].list, m) \/ Contains(file[Conv(x)].list, m) => m \in Said
      BY <2>1 DEF ListsAreFine, Clean, Fine
    <3>2. OldMessage \in Said'
      BY DEF Said
    <3> QED BY <1>1, <2>1, <3>1, <3>2 DEF Proceeds, Carries
  <2>3. req'[x].cut \in Said'
    <3>1. req'[x].cut \in Said
      BY <2>1 DEF ListsAreFine, Clean, Fine, Proceeds, Tidy
    <3> QED BY <1>1, <3>1
  <2> QED BY <2>1, <2>2, <2>3 DEF Clean, Fine, Proceeds, Tidy
<1> QED BY <1>3, <1>4 DEF ListsAreFine, Clean, Fine

LEMMA SaysEvolve ==
  ASSUME IInv, StepSays
  PROVE  Evolves /\ RowsEvolve
BY DEF StepSays, Proceeds, Evolving, Evolves, RowsGo, RowsEvolve

LEMMA SavedStays ==
  ASSUME IInv, SavedAs, StepSays
  PROVE  SavedAs'
<1> SUFFICES ASSUME NEW r \in Requests, req'[r].pc \in {"asked", "answered", "edited"}
    PROVE Saved(r)' \/ OverlapsWriter(r)'
  BY DEF SavedAs
<1>1. Proceeds(r) /\ Evolves /\ Conv(r) \in Convs /\ RowsEvolve
  BY SaysEvolve DEF StepSays, IInv, TypeOK, Request, Conv
<1>2. OverlapsWriter(r) => OverlapsWriter(r)'
  BY <1>1, Stay
<1>3. req'[r].list = req[r].list
      /\ (req[r].pc = req'[r].pc \/ (req[r].pc = "rename" /\ file'[Conv(r)] = tmp[Conv(r)]))
  BY <1>1 DEF Proceeds, Stands
<1>4. InFlight(r) /\ req'[r].conv = Conv(r)
  BY <1>1, <1>3 DEF InFlight, Evolves, Conv
<1>5. CASE req[r].pc = "rename" /\ file'[Conv(r)] = tmp[Conv(r)]
  BY <1>2, <1>3, <1>4, <1>5 DEF IInv, SavesAlone, Saved, Conv
<1>6. CASE req[r].pc = req'[r].pc /\ ~OverlapsWriter(r)
  <2>1. Saved(r) /\ req[r].pc \notin {"write", "rename"}
    BY <1>6 DEF SavedAs
  <2>2. \A p \in Requests : Conv(p) = Conv(r) => req[p].pc \notin {"write", "rename"}
    <3> SUFFICES ASSUME NEW p \in Requests, Conv(p) = Conv(r), req[p].pc \in {"write", "rename"}
        PROVE FALSE
      OBVIOUS
    <3>1. InFlight(p) /\ req[p].pc \notin {"set", "remove"} /\ p # r
      BY <2>1 DEF InFlight
    <3> QED BY <3>1, <1>4, <1>6, InTheWayOfOne
  <2>3. file'[Conv(r)] = file[Conv(r)] \/ (file'[Conv(r)] = Absent /\ row[Conv(r)].there = "gone")
    BY <2>2, <1>1 DEF StepSays, FilesGo
  <2>4. ~Live(r) => row'[Conv(r)].there # "live"
    <3>1. row[Conv(r)].there # "no" /\ row[Conv(r)] \in Row
      BY <1>1, <1>4 DEF IInv, Stages, InFlight, TypeOK
    <3> QED BY <3>1, <1>1 DEF RowsEvolve, Live, Row
  <2>5. row[Conv(r)].there = "gone" => row'[Conv(r)].there # "live"
    BY <1>1 DEF RowsEvolve
  <2> QED BY <2>1, <2>3, <2>4, <2>5, <1>3, <1>4 DEF Saved, Conv, Live
<1> QED BY <1>2, <1>3, <1>5, <1>6

\* Two writers at work on one conversation clash.
LEMMA TwoClash ==
  ASSUME IInv, NEW p \in Requests, NEW q \in Requests, p # q, Conv(p) = Conv(q),
         InFlight(p), InFlight(q), Writer(p), Writer(q)
  PROVE  Clash(Conv(p))
<1>1. Overlap(p, q)
  BY DEF IInv, Stages, Overlap, InFlight, Done
<1> QED BY <1>1 DEF Clash, OverlapsWriter

LEMMA AtFiles ==
  ASSUME IInv, NEW r \in Requests,
         req[r].pc \in {"find", "read", "legacy", "loaded", "images", "open", "write", "rename",
                        "asked", "asking", "answered", "edited"}
  PROVE  Writer(r) /\ InFlight(r)
BY DEF IInv, Stages, Placed, Writer, InFlight

LEMMA BothStay ==
  ASSUME IInv, StepSays, NEW c \in Convs
  PROVE  /\ Clash(c) => Clash(c)'
         /\ EditLost(c) => EditLost(c)'
<1>1. Clash(c) => Clash(c)'
  BY SaysEvolve, Stay
<1>2. EditLost(c) => EditLost(c)'
  <2> SUFFICES ASSUME EditLost(c) PROVE EditLost(c)'
    OBVIOUS
  <2>1. PICK q \in Requests :
          Conv(q) = c /\ req[q].kind = "edit" /\ req[q].out \in {"uncounted", "failed"}
    BY DEF EditLost
  <2>2. req[q].pc = "done"
    BY <2>1 DEF IInv, Stages, Placed
  <2>3. req'[q].conv = c /\ req'[q].kind = "edit" /\ req'[q].out = req[q].out
    BY <2>1, <2>2, SaysEvolve DEF Evolves, Conv
  <2> QED BY <2>1, <2>3 DEF EditLost, Conv
<1> QED BY <1>1, <1>2

\* With no two writers at work at once, the file is left alone, or it is the one at work
\* that saves its list, or the row is gone.
LEMMA FileGoes ==
  ASSUME IInv, StepSays, NEW c \in Convs, ~Clash(c)
  PROVE  \/ file'[c] = file[c]
         \/ \E r \in Requests :
              /\ Conv(r) = c /\ req[r].pc = "rename" /\ Writer(r) /\ InFlight(r)
              /\ file'[c] = Whole(req[r].list) /\ req'[r].pc = req[r].next
         \/ file'[c] = Absent /\ row[c].there = "gone"
<1>1. ASSUME NEW r \in Requests, Conv(r) = c, req[r].pc = "rename", file'[c] = tmp[c]
      PROVE  Writer(r) /\ InFlight(r) /\ file'[c] = Whole(req[r].list)
  <2>1. Writer(r) /\ InFlight(r)
    BY <1>1, AtFiles
  <2>2. ~OverlapsWriter(r)
    BY <2>1, <1>1 DEF Clash
  <2> QED BY <2>1, <2>2, <1>1 DEF IInv, SavesAlone
<1>2. ASSUME NEW r \in Requests, Conv(r) = c, req[r].pc = "write", req[r].fd = "file"
      PROVE  FALSE
  <2>1. Writer(r) /\ InFlight(r)
    BY <1>2, AtFiles
  <2> QED BY <2>1, <1>2 DEF IInv, SavesAlone, Clash
<1> QED BY <1>1, <1>2 DEF StepSays, FilesGo

\* A file that is not empty is so after the step, unless an edit saves.
LEMMA FileHas ==
  ASSUME IInv, ListsAreFine, StepSays, NEW c \in Convs, ~Clash(c), row'[c].there = "live",
         file[c].list # <<>>
  PROVE  \/ file'[c].list # <<>>
         \/ \E q \in Requests : /\ Conv(q) = c /\ req[q].pc = "rename" /\ req[q].kind = "edit"
                                /\ req'[q].pc = "edited"
<1>1. row[c].there # "gone"
  BY DEF StepSays, RowsGo
<1>2. CASE file'[c] = file[c]
  BY <1>2
<1>3. ASSUME NEW r \in Requests,
             Conv(r) = c, req[r].pc = "rename", Writer(r), InFlight(r),
             file'[c] = Whole(req[r].list), req'[r].pc = req[r].next
      PROVE  \/ file'[c].list # <<>>
             \/ Conv(r) = c /\ req[r].pc = "rename" /\ req[r].kind = "edit" /\ req'[r].pc = "edited"
  <2>1. Clean(req[r])
    BY DEF ListsAreFine
  <2> QED BY <2>1, <1>3 DEF Clean, Whole, Editing
<1> QED BY <1>1, <1>2, <1>3, FileGoes

\* A request that saves counts what is in the file.
LEMMA CountIsFile ==
  ASSUME IInv, SavedAs, NEW r \in Requests, Conv(r) \in Convs, ~Clash(Conv(r)), Live(r),
         req[r].pc \in {"asked", "answered", "edited"}
  PROVE  file[Conv(r)].list = req[r].list
<1>1. Writer(r)
  BY AtFiles
<1>2. Saved(r)
  BY <1>1 DEF SavedAs, Clash
<1> QED BY <1>2 DEF Saved, Whole

LEMMA RowStays ==
  ASSUME IInv, StepSays, NEW e \in Requests, req[e].pc # "new", row'[Conv(e)].there = "live"
  PROVE  Live(e)
<1>1. Conv(e) \in Convs /\ row[Conv(e)].there # "no" /\ row[Conv(e)] \in Row
  BY DEF IInv, Stages, TypeOK, Request, Conv
<1> QED BY <1>1 DEF StepSays, RowsGo, Live, Row

\* The count of a row whose legacy rows are over.
LEMMA CountStays ==
  ASSUME IInv, RemovalInv, StepSays, NEW c \in Convs, ~Clash(c), ~EditLost(c)',
         LegacyIsOver(c), row[c].there = "live", row'[c].there = "live", row'[c].count > 0
  PROVE  \/ file'[c].list # <<>>
         \/ \E q \in Requests :
              /\ Conv(q) = c /\ req[q].kind = "edit" /\ req'[q].pc = "edited"
              /\ req[q].pc \in {"edited", "rename"}
<1> USE DEF RemovalInv
<1>1. \A r \in Requests : req[r].list \in Seq(Message)
  BY DEF IInv, TypeOK, Request
<1>2. CASE row'[c].count = row[c].count
  <2>1. CASE file[c].list # <<>>
    BY <2>1, FileHas
  <2>2. CASE \E q \in Requests : Conv(q) = c /\ req[q].kind = "edit" /\ req[q].pc = "edited"
    <3>1. PICK q \in Requests : Conv(q) = c /\ req[q].kind = "edit" /\ req[q].pc = "edited"
      BY <2>2
    <3>2. req'[q].conv = c /\ req'[q].kind = "edit"
      BY <3>1, SaysEvolve DEF Evolves, Conv
    <3>3. req'[q].pc = "edited" \/ Counts(q)
      BY <3>1, <3>2 DEF StepSays, Proceeds, Finishes, EditLost, Conv
    <3>4. CASE Counts(q)
      <4>1. Live(q) /\ row'[c].count = Len(req[q].list) /\ file' = file
        BY <3>1, <3>4 DEF Counts, Live
      <4>2. file[c].list = req[q].list
        BY <4>1, <3>1, CountIsFile
      <4> QED BY <4>1, <4>2, <1>1
    <3> QED BY <3>1, <3>3, <3>4
  <2> QED BY <1>2, <2>1, <2>2 DEF LegacyIsOver
<1>3. CASE row'[c].count # row[c].count
  <2>1. file' = file
    BY <1>3 DEF StepSays, RowsGo
  <2>2. PICK r \in Requests :
          /\ Conv(r) = c /\ req[r].pc \in {"asked", "answered", "edited"} /\ Live(r)
          /\ row'[c].count = Len(req[r].list)
    BY <1>3 DEF StepSays, RowsGo
  <2>3. file[c].list = req[r].list
    BY <2>2, CountIsFile
  <2> QED BY <2>1, <2>2, <2>3, <1>1
<1> QED BY <1>2, <1>3

\* A request that begins to read finds messages in the file if its row counts some.
LEMMA ReaderFinds ==
  ASSUME IInv, RemovalInv, StepSays, NEW c \in Convs, ~Clash(c)', ~EditLost(c)',
         LegacyIsOver(c), row[c].there = "live", row'[c].there = "live",
         NEW q \in Requests, req'[q].conv = c, req'[q].kind \in Writers,
         req'[q].pc = "read", req'[q].seen.count > 0
  PROVE  file'[c].list # <<>>
<1>1. Reads(q) /\ Evolves /\ ~Clash(c)
  BY SaysEvolve, BothStay DEF StepSays, Proceeds
<1>2. ASSUME NEW x \in Requests, x # q, Conv(x) = c, req[x].kind = "edit",
             req[x].pc \in {"edited", "rename"}, req'[x].pc = "edited"
      PROVE  FALSE
  <2>1. /\ req'[x].conv = c /\ req'[x].kind = "edit" /\ req'[x].before = req[x].before
        /\ req[x].pc # "done" /\ req[x].pc # "new"
    BY <1>1, <1>2 DEF Evolves, Conv
  <2>2. x \notin req'[q].before
    <3>1. CASE req[q].pc = "new"
      BY <3>1, <1>1, <2>1 DEF Evolves
    <3>2. CASE req[q].pc # "new"
      BY <3>2, <1>1, <2>1 DEF Evolves, IInv, Stages, Done
    <3> QED BY <3>1, <3>2
  <2>3. q \notin req'[x].before
    <3>1. req[q].pc # "done"
      BY <1>1 DEF Evolves
    <3> QED BY <3>1, <2>1 DEF IInv, Stages, Done
  <2>4. Overlap(q, x)' /\ Writer(q)' /\ Writer(x)'
    BY <2>1, <2>2, <2>3, <1>2 DEF Overlap, Writer, Conv, Writers
  <2>5. Clash(c)'
    BY <2>4 DEF Clash, OverlapsWriter, Conv
  <2> QED BY <2>5
<1>3. CASE req[q].pc = "read" /\ req'[q].seen = req[q].seen
  <2>1. Conv(q) = c /\ req[q].kind \in Writers
    BY <1>1, <1>3 DEF Evolves, Conv
  <2>2. file[c].list # <<>>
    BY <2>1, <1>3 DEF LegacyIsOver
  <2>3. \A x \in Requests : req[x].pc = "rename" => x # q
    BY <1>3
  <2> QED BY <2>2, <2>3, <1>1, <1>2, FileHas DEF RemovalInv
<1>4. CASE /\ req[q].pc \in {"new", "find"} /\ req'[q].seen = row[c]
           /\ UNCHANGED <<row, file>> /\ Alone(q)
  <2>1. row'[c].count > 0
    BY <1>4
  <2>2. \/ file'[c].list # <<>>
        \/ \E x \in Requests :
              /\ Conv(x) = c /\ req[x].kind = "edit" /\ req'[x].pc = "edited"
              /\ req[x].pc \in {"edited", "rename"}
    BY <2>1, <1>1, CountStays
  <2>3. \A x \in Requests : req[x].pc \in {"edited", "rename"} => x # q
    BY <1>4
  <2> QED BY <2>2, <2>3, <1>2
<1> QED BY <1>1, <1>3, <1>4 DEF Reads

LEMMA LegacyStaysOver ==
  ASSUME IInv, RemovalInv, StepSays, NEW c \in Convs, ~Clash(c)', ~EditLost(c)',
         LegacyIsOver(c), row[c].there # "no"
  PROVE  LegacyIsOver(c)'
<1> SUFFICES ASSUME row'[c].there = "live" PROVE LegacyIsOver(c)'
  BY DEF LegacyIsOver
<1>1. ~Clash(c) /\ Evolves
  BY SaysEvolve, BothStay
<1>2. row[c].there = "live"
  <2>1. row[c] \in Row
    BY DEF IInv, TypeOK
  <2> QED BY <2>1 DEF StepSays, RowsGo, Row
<1>3. ASSUME row'[c].count > 0
      PROVE  \/ file'[c].list # <<>>
             \/ \E q \in Requests :
                  req'[q].conv = c /\ req'[q].kind = "edit" /\ req'[q].pc = "edited"
  <2>1. ASSUME NEW q \in Requests, Conv(q) = c, req[q].kind = "edit",
               req[q].pc \in {"edited", "rename"}
        PROVE  req'[q].conv = c /\ req'[q].kind = "edit"
    BY <2>1, <1>1 DEF Evolves, Conv
  <2> QED BY <2>1, <1>1, <1>2, <1>3, CountStays
<1>4. ASSUME NEW q \in Requests, req'[q].conv = c, req'[q].kind \in Writers
      PROVE  /\ req'[q].pc = "read" /\ req'[q].seen.count > 0 => file'[c].list # <<>>
             /\ req'[q].pc # "legacy"
  <2>1. req'[q].pc = "read" /\ req'[q].seen.count > 0 => file'[c].list # <<>>
    BY <1>2, <1>4, ReaderFinds
  <2>2. req'[q].pc # "legacy"
    <3> SUFFICES ASSUME req'[q].pc = "legacy" PROVE FALSE
      OBVIOUS
    <3>1. req[q].pc = "legacy" \/ (req[q].pc = "read" /\ WantsLegacy(q))
      BY DEF StepSays, Proceeds, Reads
    <3>2. Conv(q) = c /\ req[q].kind \in Writers
      BY <3>1, <1>1, <1>4 DEF Evolves, Conv
    <3> QED BY <3>1, <3>2, <1>2 DEF LegacyIsOver, WantsLegacy
  <2> QED BY <2>1, <2>2
<1> QED BY <1>3, <1>4 DEF LegacyIsOver, Conv

LEMMA GoneStays ==
  ASSUME IInv, RemovalInv, StepSays, NEW e \in Requests, req[e].kind = "edit",
         req[e].out = "ok", GoneFor(e), ~Clash(Conv(e))', ~EditLost(Conv(e))'
  PROVE  GoneFor(e)'
<1> DEFINE c == Conv(e)  m == req[e].cut
<1>1. /\ req[e].pc = "done" /\ Conv(e) \in Convs /\ row[Conv(e)].there # "no"
  BY DEF IInv, Stages, Placed, TypeOK, Request, Conv
<1>2. req'[e].conv = Conv(e) /\ req'[e].cut = req[e].cut
  BY <1>1 DEF StepSays, Proceeds, Evolving, Conv
<1>3. PICK c0 \in Convs, m0 \in Said : c0 = c /\ m0 = m
  BY <1>1 DEF RemovalInv, ListsAreFine, Clean
<1>4. Conv(e)' = c0 /\ Conv(e) = c0 /\ req[e].cut = m0 /\ req'[e].cut = m0
  BY <1>2, <1>3 DEF Conv
<1> HIDE DEF c, m
<1>5. ~Clash(c0)' /\ ~EditLost(c0)' /\ ~Clash(c0) /\ Evolves
  <2>1. ~Clash(c0)' /\ ~EditLost(c0)'
    BY <1>4 DEF Clash, EditLost
  <2> QED BY <2>1, BothStay, SaysEvolve
<1>6. /\ ~Contains(file[c0].list, m0)
      /\ \A q \in Requests :
           Conv(q) = c0 /\ Writer(q) /\ InFlight(q) => ~Contains(req[q].list, m0)
      /\ m0 = OldMessage => LegacyIsOver(c0)
  BY <1>4 DEF GoneFor
<1>7. ~Contains(file'[c0].list, m0)
  <2>1. CASE file'[c0] = file[c0]
    BY <2>1, <1>6
  <2>2. CASE file'[c0] = Absent
    BY <2>2, NothingContained DEF Absent
  <2>3. ASSUME NEW r \in Requests, Conv(r) = c0, Writer(r), InFlight(r),
               file'[c0] = Whole(req[r].list)
        PROVE  ~Contains(file'[c0].list, m0)
    BY <2>3, <1>6 DEF Whole
  <2> QED BY <2>1, <2>2, <2>3, <1>5, FileGoes
<1>8. m0 = OldMessage => LegacyIsOver(c0)'
  BY <1>1, <1>3, <1>4, <1>5, <1>6, LegacyStaysOver
<1>9. ASSUME NEW q \in Requests, req'[q].conv = c0, Writer(q)', InFlight(q)'
      PROVE  ~Contains(req'[q].list, m0)
  <2> SUFFICES ASSUME Contains(req'[q].list, m0) PROVE FALSE
    OBVIOUS
  <2>1. \/ Contains(req[q].list, m0)
        \/ req[q].pc = "read" /\ Contains(file[Conv(q)].list, m0)
        \/ req[q].pc = "legacy" /\ Live(q) /\ m0 = OldMessage
    BY <1>3 DEF StepSays, Proceeds, Carries
  <2>2. CASE req[q].pc = "new"
    <3>1. req[q].list = <<>>
      BY <2>2 DEF IInv, Stages, Placed
    <3> QED BY <3>1, <2>1, <2>2, NothingContained
  <2>3. CASE req[q].pc # "new"
    <3>1. Conv(q) = c0 /\ req[q].kind = req'[q].kind /\ req[q].pc # "done"
      BY <2>3, <1>5, <1>9 DEF Evolves, Conv, InFlight
    <3>2. Writer(q) /\ InFlight(q)
      BY <2>3, <3>1, <1>9 DEF Writer, InFlight
    <3>3. ~Contains(req[q].list, m0) /\ ~Contains(file[Conv(q)].list, m0)
      BY <3>1, <3>2, <1>6
    <3> QED BY <2>1, <3>1, <3>2, <3>3, <1>6 DEF LegacyIsOver, Live, Writer
  <2> QED BY <2>2, <2>3
<1> QED BY <1>4, <1>7, <1>8, <1>9 DEF GoneFor, Conv, Writer, InFlight

\* An edit that counts what it left has it in the file.
LEMMA GoneNow ==
  ASSUME IInv, RemovalInv, StepSays, NEW e \in Requests, req[e].kind = "edit",
         Counts(e), ~Clash(Conv(e))'
  PROVE  GoneFor(e)'
<1>1. /\ req[e].pc = "edited" /\ Conv(e) \in Convs /\ req[e].list \in Seq(Message)
      /\ req'[e].pc = "done" /\ file' = file /\ Alone(e)
  BY DEF Counts, IInv, TypeOK, Request, Conv
<1>2. req'[e].conv = Conv(e) /\ req'[e].cut = req[e].cut
  BY <1>1 DEF StepSays, Proceeds, Evolving, Conv
<1>3. PICK c0 \in Convs, m0 \in Said : c0 = Conv(e) /\ m0 = req[e].cut
  BY <1>1 DEF RemovalInv, ListsAreFine, Clean
<1>4. Conv(e)' = c0 /\ req'[e].cut = m0
  BY <1>2, <1>3 DEF Conv
<1>5. ~Clash(c0)' /\ ~Clash(c0)
  <2>1. ~Clash(c0)'
    BY <1>4 DEF Clash
  <2> QED BY <2>1, BothStay
<1>6. Writer(e) /\ InFlight(e)
  BY <1>1, AtFiles
<1>7. Saved(e)
  BY <1>1, <1>3, <1>5, <1>6 DEF RemovalInv, SavedAs, Clash
<1>8. ~Contains(req[e].list, m0)
  BY <1>1, <1>3 DEF RemovalInv, ListsAreFine, Clean, Editing
<1>9. ~Contains(file'[c0].list, m0)
  BY <1>1, <1>3, <1>7, <1>8, NothingContained DEF Saved, Whole, Absent
<1>10. ASSUME NEW q \in Requests, req'[q].conv = c0, Writer(q)', InFlight(q)' PROVE FALSE
  <2>1. q # e /\ req'[q] = req[q]
    BY <1>1, <1>10 DEF Alone, InFlight
  <2>2. Writer(q) /\ InFlight(q) /\ Conv(q) = c0
    BY <2>1, <1>10 DEF Writer, InFlight, Conv
  <2> QED BY <2>1, <2>2, <1>3, <1>5, <1>6, TwoClash
<1>11. LegacyIsOver(c0)'
  <2>1. ASSUME row'[c0].there = "live", row'[c0].count > 0 PROVE file'[c0].list # <<>>
    <3>1. Live(e)
      BY <2>1, <1>1, <1>3, RowStays
    <3>2. row'[c0].count = Len(req[e].list)
      BY <3>1, <1>3 DEF Counts
    <3>3. file[c0].list = req[e].list
      BY <3>1, <1>1, <1>3, <1>5, CountIsFile DEF RemovalInv
    <3> QED BY <3>2, <3>3, <2>1, <1>1
  <2>2. ASSUME NEW q \in Requests, req'[q].conv = c0, req'[q].kind \in Writers
        PROVE  req'[q].pc \notin {"read", "legacy"}
    BY <2>2, <1>10 DEF Writer, InFlight
  <2> QED BY <2>1, <2>2 DEF LegacyIsOver, Conv
<1> QED BY <1>4, <1>9, <1>10, <1>11 DEF GoneFor, Conv, Writer, InFlight

LEMMA EditsStay ==
  ASSUME IInv, RemovalInv, StepSays
  PROVE  EditsLast'
<1> SUFFICES ASSUME NEW e \in Requests, req'[e].kind = "edit", req'[e].out = "ok",
                    ~Clash(Conv(e))', ~EditLost(Conv(e))'
    PROVE GoneFor(e)'
  BY DEF EditsLast
<1>1. Evolves /\ Finishes(e) /\ Conv(e) \in Convs
  BY SaysEvolve DEF StepSays, Proceeds, IInv, TypeOK, Request, Conv
<1>2. CASE Counts(e)
  <2>1. req[e].kind = "edit"
    BY <1>1, <1>2 DEF Evolves, Counts
  <2> QED BY <2>1, <1>2, GoneNow
<1>3. CASE req[e].out = "ok"
  <2>1. req[e].pc = "done"
    BY <1>3 DEF IInv, Stages, Placed
  <2>2. req[e].kind = "edit" /\ req'[e].conv = Conv(e)
    BY <2>1, <1>1 DEF Evolves, Conv
  <2>3. ~Clash(Conv(e)) /\ ~EditLost(Conv(e))
    <3>1. PICK c0 \in Convs : c0 = Conv(e)
      BY <1>1
    <3>2. Conv(e)' = c0
      BY <3>1, <2>2 DEF Conv
    <3>3. ~Clash(c0)' /\ ~EditLost(c0)'
      BY <3>2 DEF Clash, EditLost
    <3> QED BY <3>1, <3>3, BothStay
  <2>4. GoneFor(e)
    BY <2>2, <2>3, <1>3 DEF RemovalInv, EditsLast
  <2> QED BY <2>2, <2>4, <1>3, GoneStays
<1> QED BY <1>1, <1>2, <1>3 DEF Finishes

LEMMA SaysKeep ==
  ASSUME IInv, RemovalInv, StepSays
  PROVE  RemovalInv'
BY ListsStayFine, SavedStays, EditsStay DEF RemovalInv

-----------------------------------------------------------------------------
(* Messages that were removed: each action does what was said of a step.   *)

LEMMA RestProceeds ==
  ASSUME IInv, ListsAreFine, NEW x \in Requests, Untouched(x), req'[x].seen = req[x].seen
  PROVE  Proceeds(x)
<1>1. Clean(req[x])
  BY DEF ListsAreFine
<1>2. Evolving(x)
  BY DEF Untouched, Evolving, Says
<1>3. Carries(x) /\ Reads(x) /\ Stands(x) /\ Finishes(x)
  BY DEF Untouched, Carries, Reads, Stands, Finishes
<1>4. Tidy(x)
  BY <1>1 DEF Untouched, Tidy, Clean, Fine, Editing
<1> QED BY <1>2, <1>3, <1>4 DEF Proceeds

LEMMA OneProceeds ==
  ASSUME IInv, ListsAreFine, NEW r \in Requests, NEW q, req' = [req EXCEPT ![r] = q],
         req'[r] = q => Proceeds(r)
  PROVE  \A x \in Requests : Proceeds(x)
<1>1. req'[r] = q /\ \A x \in Requests \ {r} : req'[x] = req[x]
  BY DEF IInv, TypeOK
<1>2. ASSUME NEW x \in Requests, x # r PROVE Proceeds(x)
  <2>1. Untouched(x) /\ req'[x].seen = req[x].seen
    BY <1>1, <1>2 DEF Untouched
  <2> QED BY <2>1, RestProceeds
<1> QED BY <1>1, <1>2

\* A request that is over: an edit that ends well has counted.
LEMMA OverProceeds ==
  ASSUME IInv, ListsAreFine, NEW r \in Requests, NEW out \in {"ok", "uncounted", "kept", "failed"},
         InFlight(r), req'[r] = Over(req[r], out), out = "kept" => req[r].kind = "delete",
         req[r].kind = "edit" /\ out = "ok" =>
           /\ req[r].pc = "edited" /\ UNCHANGED file /\ Alone(r)
           /\ Live(r) => row'[Conv(r)].count = Len(req[r].list)
  PROVE  Proceeds(r)
<1> DEFINE q == Over(req[r], out)
<1>1. req[r] \in Request
  BY DEF IInv, TypeOK
<1>2. /\ q.pc = "done" /\ q.out = out /\ q.next = "loaded" /\ q.kind = req[r].kind
      /\ q.conv = req[r].conv /\ q.before = req[r].before /\ q.cut = req[r].cut /\ q.list = <<>>
  BY <1>1 DEF Over, Request
<1>3. req'[r] = q
  OBVIOUS
<1> HIDE DEF q
<1>4. Evolving(r)
  BY <1>2, <1>3 DEF InFlight, Evolving, Says
<1>5. Carries(r) /\ Tidy(r)
  BY <1>2, <1>3, NothingContained, OnceSmall DEF Carries, Tidy, Editing
<1>6. Reads(r) /\ Stands(r)
  BY <1>2, <1>3 DEF Reads, Stands
<1>7. Finishes(r)
  BY <1>2, <1>3 DEF Finishes, Counts
<1> QED BY <1>4, <1>5, <1>6, <1>7 DEF Proceeds

LEMMA EndProceeds ==
  ASSUME IInv, ListsAreFine, NEW r \in Requests, NEW out \in {"ok", "uncounted", "kept", "failed"},
         InFlight(r), End(r, out), out = "kept" => req[r].kind = "delete",
         req[r].kind = "edit" /\ out = "ok" =>
           /\ req[r].pc = "edited" /\ UNCHANGED file
           /\ Live(r) => row'[Conv(r)].count = Len(req[r].list)
  PROVE  \A x \in Requests : Proceeds(x)
<1>1. req' = [req EXCEPT ![r] = Over(req[r], out)]
  BY DEF End
<1>2. req'[r] = Over(req[r], out) /\ Alone(r)
  BY <1>1 DEF IInv, TypeOK, Alone
<1>3. Proceeds(r)
  BY <1>2, OverProceeds
<1> QED BY <1>1, <1>3, OneProceeds

\* A request under way that goes on as q.
LEMMA GoesOn ==
  ASSUME IInv, ListsAreFine, NEW r \in Requests, NEW q, req' = [req EXCEPT ![r] = q],
         InFlight(r), req[r].pc # "edited", q.pc # "new", q.kind = req[r].kind,
         q.conv = req[r].conv, q.before = req[r].before, q.out = req[r].out,
         req[r].cut # OldMessage => q.cut = req[r].cut,
         \A by : Says(req[r], by) => Says(q, by),
         req'[r] = q => Carries(r) /\ Tidy(r) /\ Reads(r) /\ Stands(r)
  PROVE  \A x \in Requests : Proceeds(x)
<1> SUFFICES ASSUME req'[r] = q PROVE Evolving(r) /\ Finishes(r)
  BY OneProceeds DEF Proceeds
<1>1. Evolving(r)
  BY DEF InFlight, Evolving
<1>2. q.out = "none"
  BY DEF IInv, Stages, Placed, InFlight
<1>3. Finishes(r)
  BY <1>2 DEF Finishes
<1> QED BY <1>1, <1>3

\* One that keeps its list and what it removed.
LEMMA HoldsOn ==
  ASSUME IInv, ListsAreFine, NEW r \in Requests, NEW q, req' = [req EXCEPT ![r] = q],
         InFlight(r), req[r].pc # "edited", q.pc # "new", q.kind = req[r].kind,
         q.conv = req[r].conv, q.before = req[r].before, q.out = req[r].out,
         q.cut = req[r].cut, q.list = req[r].list,
         "edited" \in {q.pc, q.next} <=> "edited" \in {req[r].pc, req[r].next},
         q.pc \in {"open", "write", "rename"} => req[r].pc \in {"open", "write", "rename"},
         \A by : Says(req[r], by) => Says(q, by),
         req'[r] = q => Reads(r) /\ Stands(r)
  PROVE  \A x \in Requests : Proceeds(x)
<1>1. Clean(req[r])
  BY DEF ListsAreFine
<1>2. req'[r] = q => Carries(r)
  BY DEF Carries
<1>3. req'[r] = q => Tidy(r)
  BY <1>1 DEF Tidy, Clean, Fine, Editing
<1> QED BY <1>2, <1>3, GoesOn

\* A request that begins as q.
LEMMA BegunProceeds ==
  ASSUME IInv, ListsAreFine, NEW r \in Requests, NEW q, req' = [req EXCEPT ![r] = q],
         req[r].pc \in {"new", "find"}, q.pc \in {"find", "read", "set", "open", "remove"},
         req[r].pc # "new" =>
           q.kind = req[r].kind /\ q.conv = req[r].conv /\ q.before = req[r].before,
         req[r].pc = "new" => q.before = {p \in Requests : req[p].pc = "done"},
         q.cut = req[r].cut, q.out = req[r].out,
         \/ q.list = <<>> /\ q.pc # "open" /\ q.next = "loaded"
         \/ /\ q.list = <<<<r, "assistant">>>> /\ q.kind = "replace"
            /\ q.pc = "open" /\ q.next = "edited",
         q.pc = "read" => q.seen = row[q.conv] /\ UNCHANGED <<row, file>>
  PROVE  \A x \in Requests : Proceeds(x)
<1> SUFFICES ASSUME req'[r] = q PROVE Proceeds(r)
  BY OneProceeds
<1>1. /\ Alone(r) /\ req[r].next = "loaded" /\ req[r].out = "none" /\ req[r].cut = OldMessage
  BY DEF Alone, IInv, TypeOK, Stages, Placed
<1>2. \A by : ~Says(req[r], by)
  BY <1>1 DEF Says
<1>3. Evolving(r)
  BY <1>1, <1>2 DEF Evolving
<1>4. Carries(r)
  <2>1. CASE q.list = <<>>
    BY <2>1, NothingContained DEF Carries
  <2>2. CASE q.list = <<<<r, "assistant">>>> /\ q.kind = "replace" /\ q.pc = "open"
    <3>1. <<r, "assistant">> \in Said' \ Said
      <4>1. Says(req'[r], "assistant") /\ ~Says(req[r], "assistant")
        BY <1>2, <2>2 DEF Says
      <4> QED BY <4>1, SaidIs
    <3>2. \A m : Contains(q.list, m) => m = <<r, "assistant">>
      BY <2>2, OnceSmall
    <3> QED BY <3>1, <3>2 DEF Carries
  <2> QED BY <2>1, <2>2
<1>5. Tidy(r)
  <2>1. Once(<<>>) /\ Once(<<<<r, "assistant">>>>)
    BY OnceSmall
  <2>2. ~Editing(q)
    BY DEF Editing
  <2>3. <<<<r, "assistant">>>> # <<>>
    OBVIOUS
  <2>4. Once(q.list)
    BY <2>1
  <2>5. q.list = <<>> => q.pc \notin {"open", "write", "rename"}
    BY <2>3
  <2> QED BY <2>2, <2>4, <2>5 DEF Tidy
<1>6. Reads(r) /\ Stands(r) /\ Finishes(r)
  BY <1>1 DEF Reads, Stands, Finishes
<1> QED BY <1>3, <1>4, <1>5, <1>6 DEF Proceeds

LEMMA SameFiles ==
  ASSUME IInv, UNCHANGED <<file, tmp>>
  PROVE  FilesGo
BY DEF FilesGo, Lists

LEMMA SameCounts ==
  ASSUME IInv, \A c \in Convs :
                 /\ row[c].there # "no" => row'[c].there # "no" /\ row'[c].count = row[c].count
                 /\ row[c].there = "gone" => row'[c].there = "gone"
  PROVE  RowsGo
BY DEF RowsGo

LEMMA CountsGo ==
  ASSUME IInv, NEW r \in Requests, Counted(r), UNCHANGED file, Live(r),
         req[r].pc \in {"asked", "answered", "edited"}
  PROVE  RowsGo /\ row'[Conv(r)].count = Len(req[r].list)
<1>1. row \in [Convs -> Row] /\ Conv(r) \in Convs
  BY DEF IInv, TypeOK, Request, Conv
<1>2. row' = [row EXCEPT ![Conv(r)] = [row[Conv(r)] EXCEPT !.count = Len(req[r].list)]]
  BY DEF Counted
<1>3. /\ row'[Conv(r)].there = row[Conv(r)].there /\ row'[Conv(r)].count = Len(req[r].list)
      /\ \A c \in Convs \ {Conv(r)} : row'[c] = row[c]
  BY <1>1, <1>2 DEF Row
<1> QED BY <1>1, <1>3 DEF RowsGo

LEMMA UseProceeds ==
  ASSUME IInv, ListsAreFine, NEW r \in Requests, NEW list \in Seq(Message), Use(r, list),
         req[r].pc \in {"read", "legacy", "loaded"}, Once(list),
         \A m : Contains(list, m) =>
           Contains(req[r].list, m) \/ (req[r].pc = "read" /\ Contains(file[Conv(r)].list, m))
  PROVE  \A x \in Requests : Proceeds(x)
<1>1. /\ InFlight(r) /\ req[r] \in Request /\ req[r].cut = OldMessage /\ req[r].next = "loaded"
  BY DEF InFlight, IInv, TypeOK, Stages, Placed
<1>2. req[r].kind # "replace" => \A by : ~Says(req[r], by)
  BY <1>1 DEF Says
<1>3. CASE req[r].kind = "open" /\ End(r, "ok")
  BY <1>1, <1>3, EndProceeds
<1>4. CASE End(r, "failed")
  BY <1>1, <1>4, EndProceeds
<1>5. ASSUME req[r].kind = "edit", NEW i \in 1..Len(list),
             req' = [req EXCEPT ![r].pc = "open", ![r].list = RemoveAt(list, i),
                                ![r].seen = Unseen, ![r].next = "edited", ![r].cut = list[i]]
      PROVE  \A x \in Requests : Proceeds(x)
  <2> DEFINE q == [req[r] EXCEPT !.pc = "open", !.list = RemoveAt(list, i),
                                 !.seen = Unseen, !.next = "edited", !.cut = list[i]]
  <2>1. req' = [req EXCEPT ![r] = q]
    BY <1>5
  <2>2. /\ q.pc = "open" /\ q.next = "edited" /\ q.cut = list[i] /\ q.list = RemoveAt(list, i)
        /\ q.kind = req[r].kind /\ q.conv = req[r].conv /\ q.before = req[r].before
        /\ q.out = req[r].out
    BY <1>1 DEF Request
  <2> HIDE DEF q
  <2>3. /\ Once(q.list) /\ ~Contains(q.list, q.cut)
        /\ \A m : Contains(q.list, m) => Contains(list, m)
    BY <2>2, RemovingOne
  <2>4. Contains(list, q.cut)
    BY <2>2 DEF Contains
  <2>5. req'[r] = q => Carries(r)
    BY <2>3 DEF Carries
  <2>6. req'[r] = q => Tidy(r)
    BY <2>2, <2>3, <2>4, <1>5 DEF Tidy, Editing
  <2>7. req'[r] = q => Reads(r) /\ Stands(r)
    BY <2>2 DEF Reads, Stands
  <2>8. \A by : ~Says(req[r], by)
    BY <1>2, <1>5
  <2> QED BY <2>1, <2>2, <2>5, <2>6, <2>7, <2>8, <1>1, GoesOn
<1>6. ASSUME req[r].kind = "chat",
             req' = [req EXCEPT ![r].pc = "images", ![r].seen = Unseen, ![r].list = list]
      PROVE  \A x \in Requests : Proceeds(x)
  <2> DEFINE q == [req[r] EXCEPT !.pc = "images", !.seen = Unseen, !.list = list]
  <2>1. req' = [req EXCEPT ![r] = q]
    BY <1>6
  <2>2. /\ q.pc = "images" /\ q.next = "loaded" /\ q.cut = req[r].cut /\ q.list = list
        /\ q.kind = req[r].kind /\ q.conv = req[r].conv /\ q.before = req[r].before
        /\ q.out = req[r].out
    BY <1>1 DEF Request
  <2> HIDE DEF q
  <2>3. req'[r] = q => Carries(r)
    BY <2>2 DEF Carries
  <2>4. req'[r] = q => Tidy(r) /\ Reads(r) /\ Stands(r)
    BY <2>2 DEF Tidy, Editing, Reads, Stands
  <2>5. \A by : ~Says(req[r], by)
    BY <1>2, <1>6
  <2> QED BY <2>1, <2>2, <2>3, <2>4, <2>5, <1>1, GoesOn
<1> QED BY <1>3, <1>4, <1>5, <1>6 DEF Use

LEMMA BeginsSays ==
  ASSUME IInv, ListsAreFine, NEW r \in Requests, Begins(r)
  PROVE  StepSays
<1>1. FilesGo
  BY SameFiles DEF Begins, Start, Create, Erase
<1>2. PICK c \in Convs :
        \/ \E kind \in Kinds \ {"delete"} : Start(r, kind, c)
        \/ \E kind \in {"chat", "replace"} : Create(r, kind, c)
        \/ Erase(r, c)
  BY DEF Begins
<1>3. req[r].pc = "new" /\ req[r].next = "loaded" /\ req[r].list = <<>>
  BY <1>2 DEF Start, Create, Erase, IInv, Stages, Placed
<1>4. ASSUME NEW kind \in Kinds
      PROVE  LET q == Started(r, kind, c) IN
               /\ q \in Request /\ q.kind = kind /\ q.conv = c /\ q.out = req[r].out
               /\ q.before = {p \in Requests : req[p].pc = "done"} /\ q.cut = req[r].cut
               /\ q.next = req[r].next /\ q.list = req[r].list
  BY <1>4, StartedIs DEF Done
<1>5. CASE \E kind \in Kinds \ {"delete"} : Start(r, kind, c)
  <2>1. PICK kind \in Kinds \ {"delete"} : Start(r, kind, c)
    BY <1>5
  <2> DEFINE p == Started(r, kind, c)  q == Found(p, r)
  <2>2. UNCHANGED <<row, file>> /\ req' = [req EXCEPT ![r] = q]
    BY <2>1 DEF Start
  <2>3. /\ q.before = {x \in Requests : req[x].pc = "done"} /\ q.out = req[r].out
        /\ q.cut = req[r].cut /\ q.pc \in {"read", "set", "open"} /\ q.kind = kind
        /\ kind # "replace" => q.pc # "open" /\ q.next = "loaded" /\ q.list = <<>>
        /\ kind = "replace" => q.pc = "open" /\ q.next = "edited"
        /\ q.pc = "read" => q.seen = row[q.conv]
    <3>1. p \in Request
      BY <1>4
    <3> QED BY <1>3, <1>4, <3>1, FoundIs
  <2>4. kind = "replace" => q.list = <<<<r, "assistant">>>>
    <3>1. p \in Request /\ p.kind = kind
      BY <1>4
    <3> HIDE DEF p
    <3> QED BY <3>1 DEF Found, Request
  <2> HIDE DEF q
  <2>5. \A x \in Requests : Proceeds(x)
    BY <2>2, <2>3, <2>4, <1>3, BegunProceeds
  <2> QED BY <2>2, <2>5, <1>1, SameCounts DEF StepSays
<1>6. CASE \E kind \in {"chat", "replace"} : Create(r, kind, c)
  <2>1. PICK kind \in {"chat", "replace"} : Create(r, kind, c)
    BY <1>6
  <2> DEFINE q == [Started(r, kind, c) EXCEPT !.pc = "find"]
  <2>2. /\ row[c].there = "no" /\ row' = [row EXCEPT ![c] = Fresh("live")]
        /\ req' = [req EXCEPT ![r] = q]
    BY <2>1 DEF Create
  <2>3. /\ q.before = {x \in Requests : req[x].pc = "done"} /\ q.out = req[r].out
        /\ q.cut = req[r].cut /\ q.pc = "find" /\ q.next = "loaded" /\ q.list = <<>>
    BY <1>3, <1>4 DEF Request, Kinds, Writers
  <2>4. RowsGo
    <3>1. row'[c].there = "live" /\ \A d \in Convs \ {c} : row'[d] = row[d]
      BY <2>2 DEF IInv, TypeOK, Fresh
    <3> QED BY <3>1, <2>2, SameCounts
  <2> HIDE DEF q
  <2>5. \A x \in Requests : Proceeds(x)
    BY <2>2, <2>3, <1>3, BegunProceeds
  <2> QED BY <2>4, <2>5, <1>1 DEF StepSays
<1>7. CASE Erase(r, c)
  <2> DEFINE q == [Started(r, "delete", c) EXCEPT !.pc = "remove"]
  <2>1. /\ row' = [row EXCEPT ![c].there = "gone"] /\ req' = [req EXCEPT ![r] = q]
    BY <1>7 DEF Erase
  <2>2. /\ q.before = {x \in Requests : req[x].pc = "done"} /\ q.out = req[r].out
        /\ q.cut = req[r].cut /\ q.pc = "remove" /\ q.next = "loaded" /\ q.list = <<>>
    BY <1>3, <1>4 DEF Request, Kinds
  <2>3. RowsGo
    <3>1. \A d \in Convs :
            /\ row'[d].count = row[d].count
            /\ row'[d].there = row[d].there \/ row'[d].there = "gone"
      BY <2>1 DEF IInv, TypeOK, Row
    <3> QED BY <3>1, SameCounts
  <2> HIDE DEF q
  <2>4. \A x \in Requests : Proceeds(x)
    BY <2>1, <2>2, <1>3, BegunProceeds
  <2> QED BY <2>3, <2>4, <1>1 DEF StepSays
<1> QED BY <1>2, <1>5, <1>6, <1>7

LEMMA LoadsSays ==
  ASSUME IInv, ListsAreFine, NEW r \in Requests, Loads(r)
  PROVE  StepSays
<1>1. UNCHANGED <<row, file, tmp>>
  BY DEF Loads, Find, FindFails, Read, ReadFails, ReadLegacy, Loaded, SaveImages, RefuseImages
<1>2. RowsGo /\ FilesGo
  BY <1>1, SameCounts, SameFiles
<1>3. req[r].pc \in {"find", "read", "legacy", "loaded", "images"}
  BY DEF Loads, Find, FindFails, Read, ReadFails, ReadLegacy, Loaded, SaveImages, RefuseImages
<1>4. /\ InFlight(r) /\ req[r] \in Request /\ req[r].next = "loaded" /\ Conv(r) \in Convs
      /\ file[Conv(r)].list \in Seq(Message) /\ req[r].list \in Seq(Message)
  BY <1>3 DEF InFlight, IInv, TypeOK, Stages, Placed, Conv, Content, Request
<1>5. Fine(file[Conv(r)].list) /\ Clean(req[r])
  BY <1>4 DEF ListsAreFine
<1>6. CASE End(r, "failed")
  BY <1>2, <1>4, <1>6, EndProceeds DEF StepSays
<1>7. CASE Find(r)
  <2> DEFINE q == Found(req[r], r)
  <2>1. req' = [req EXCEPT ![r] = q] /\ req[r].pc = "find" /\ req[r].list = <<>>
    BY <1>7 DEF Find, IInv, Stages, Placed
  <2>2. /\ q.kind = req[r].kind /\ q.conv = req[r].conv /\ q.before = req[r].before
        /\ q.cut = req[r].cut /\ q.out = req[r].out /\ q.pc \in {"read", "set", "open"}
        /\ q.kind # "replace" => q.pc # "open" /\ q.next = "loaded" /\ q.list = <<>>
        /\ q.kind = "replace" => q.pc = "open" /\ q.next = "edited"
        /\ q.pc = "read" => q.seen = row[q.conv]
    BY <2>1, <1>4, FoundIs
  <2>3. q.kind = "replace" => q.list = <<<<r, "assistant">>>>
    BY <1>4 DEF Found, Request
  <2> HIDE DEF q
  <2>4. \A x \in Requests : Proceeds(x)
    BY <2>1, <2>2, <2>3, <1>1, BegunProceeds
  <2> QED BY <2>4, <1>2 DEF StepSays
<1>8. CASE Read(r) /\ WantsLegacy(r)
  <2> DEFINE q == [req[r] EXCEPT !.pc = "legacy"]
  <2>1. req' = [req EXCEPT ![r] = q] /\ req[r].pc = "read"
    BY <1>8 DEF Read, Goto
  <2>2. /\ q.pc = "legacy" /\ q.kind = req[r].kind /\ q.conv = req[r].conv /\ q.cut = req[r].cut
        /\ q.before = req[r].before /\ q.out = req[r].out /\ q.list = req[r].list
        /\ q.next = req[r].next
    BY <1>4 DEF Request
  <2> HIDE DEF q
  <2>3. req'[r] = q => Reads(r) /\ Stands(r)
    BY <2>1, <2>2, <1>8 DEF Reads, Stands
  <2>4. \A by : Says(req[r], by) => Says(q, by)
    BY <2>1, <2>2 DEF Says
  <2>5. \A x \in Requests : Proceeds(x)
    BY <2>1, <2>2, <2>3, <2>4, <1>4, HoldsOn
  <2> QED BY <2>5, <1>2 DEF StepSays
<1>9. CASE Read(r) /\ Use(r, file[Conv(r)].list)
  <2>1. req[r].pc = "read"
    BY <1>9 DEF Read
  <2>2. \A x \in Requests : Proceeds(x)
    BY <2>1, <1>4, <1>5, <1>9, UseProceeds DEF Fine
  <2> QED BY <2>2, <1>2 DEF StepSays
<1>10. CASE ReadLegacy(r) /\ Use(r, <<>>)
  <2>1. req[r].pc = "legacy" /\ <<>> \in Seq(Message)
    BY <1>10 DEF ReadLegacy
  <2>2. \A x \in Requests : Proceeds(x)
    BY <2>1, <1>10, OnceSmall, NothingContained, UseProceeds
  <2> QED BY <2>2, <1>2 DEF StepSays
<1>11. CASE /\ ReadLegacy(r) /\ Live(r)
            /\ req' = [req EXCEPT ![r].pc = "open", ![r].list = LegacyRows, ![r].next = "loaded"]
  <2> DEFINE q == [req[r] EXCEPT !.pc = "open", !.list = LegacyRows, !.next = "loaded"]
  <2>1. req' = [req EXCEPT ![r] = q] /\ req[r].pc = "legacy"
    BY <1>11 DEF ReadLegacy
  <2>2. /\ q.pc = "open" /\ q.kind = req[r].kind /\ q.conv = req[r].conv /\ q.cut = req[r].cut
        /\ q.before = req[r].before /\ q.out = req[r].out /\ q.list = LegacyRows
        /\ q.next = "loaded"
    BY <1>4 DEF Request
  <2> HIDE DEF q
  <2>3. Once(q.list) /\ q.list # <<>> /\ \A m : Contains(q.list, m) => m = OldMessage
    BY <2>2, OnceSmall DEF LegacyRows
  <2>4. req'[r] = q => Carries(r)
    BY <2>1, <2>3, <1>11 DEF Carries
  <2>5. req'[r] = q => Tidy(r) /\ Reads(r) /\ Stands(r)
    BY <2>2, <2>3 DEF Tidy, Editing, Reads, Stands
  <2>6. \A by : Says(req[r], by) => Says(q, by)
    BY <2>1, <2>2, <1>4 DEF Says
  <2>7. \A x \in Requests : Proceeds(x)
    BY <2>1, <2>2, <2>4, <2>5, <2>6, <1>4, GoesOn
  <2> QED BY <2>7, <1>2 DEF StepSays
<1>12. CASE Loaded(r)
  <2>1. req[r].pc = "loaded" /\ Use(r, req[r].list)
    BY <1>12 DEF Loaded
  <2>2. \A x \in Requests : Proceeds(x)
    BY <2>1, <1>4, <1>5, UseProceeds DEF Clean, Fine
  <2> QED BY <2>2, <1>2 DEF StepSays
<1>13. CASE SaveImages(r)
  <2> DEFINE q == [req[r] EXCEPT !.pc = "open", !.next = "asked",
                                 !.list = Append(@, <<r, "user">>)]
  <2>1. req' = [req EXCEPT ![r] = q] /\ req[r].pc = "images" /\ req[r].kind = "chat"
    BY <1>13 DEF SaveImages, IInv, Stages, Placed
  <2>2. /\ q.pc = "open" /\ q.kind = req[r].kind /\ q.conv = req[r].conv /\ q.cut = req[r].cut
        /\ q.before = req[r].before /\ q.out = req[r].out /\ q.next = "asked"
        /\ q.list = Append(req[r].list, <<r, "user">>)
    BY <1>4 DEF Request
  <2> HIDE DEF q
  <2>3. ~Says(req[r], "user") /\ Says(q, "user") /\ \A by : ~Says(req[r], by)
    BY <2>1, <2>2, <1>4 DEF Says
  <2>4. <<r, "user">> \notin Said /\ (req'[r] = q => <<r, "user">> \in Said')
    BY <2>3, SaidIs
  <2>5. /\ Once(q.list) /\ q.list # <<>>
        /\ \A m : Contains(q.list, m) => Contains(req[r].list, m) \/ m = <<r, "user">>
    <3>1. <<r, "user">> \in Message /\ ~Contains(req[r].list, <<r, "user">>)
      BY <2>4, <1>5 DEF Message, Clean, Fine
    <3> QED BY SMTT(40), <3>1, <2>2, <1>4, <1>5, AppendingOne DEF Clean, Fine
  <2>6. req'[r] = q => Carries(r)
    BY <2>4, <2>5 DEF Carries
  <2>7. req'[r] = q => Tidy(r) /\ Reads(r) /\ Stands(r)
    BY <2>1, <2>2, <2>5 DEF Tidy, Editing, Reads, Stands
  <2>8. \A x \in Requests : Proceeds(x)
    BY <2>1, <2>2, <2>3, <2>6, <2>7, <1>4, GoesOn
  <2> QED BY <2>8, <1>2 DEF StepSays
<1>14. CASE Read(r) \/ ReadLegacy(r)
  BY <1>6, <1>8, <1>9, <1>10, <1>11, <1>14 DEF Read, ReadLegacy
<1>15. CASE FindFails(r) \/ ReadFails(r) \/ RefuseImages(r)
  BY <1>6, <1>15 DEF FindFails, ReadFails, RefuseImages
<1> QED BY <1>7, <1>12, <1>13, <1>14, <1>15 DEF Loads

LEMMA SavesSays ==
  ASSUME IInv, ListsAreFine, NEW r \in Requests, Saves(r)
  PROVE  StepSays
<1>1. UNCHANGED row /\ req[r].pc \in {"open", "write", "rename"}
  BY DEF Saves, Open, Write, Rename, RenameFails
<1>2. /\ RowsGo /\ InFlight(r) /\ req[r] \in Request /\ Conv(r) \in Convs /\ Clean(req[r])
      /\ req[r].out = "none"
  BY <1>1, SameCounts DEF InFlight, IInv, TypeOK, Stages, Placed, Request, Conv, ListsAreFine
<1>3. <<>> \in Lists /\ req[r].list \in Lists
  BY DEF Lists
<1>4. CASE Open(r)
  <2> DEFINE q == [req[r] EXCEPT !.pc = "write", !.fd = "tmp"]
  <2>1. /\ req' = [req EXCEPT ![r] = q] /\ req[r].pc = "open"
        /\ UNCHANGED file /\ tmp' = [tmp EXCEPT ![Conv(r)] = Cut]
    BY <1>4 DEF Open
  <2>2. /\ q.pc = "write" /\ q.kind = req[r].kind /\ q.conv = req[r].conv /\ q.cut = req[r].cut
        /\ q.before = req[r].before /\ q.out = req[r].out /\ q.list = req[r].list
        /\ q.next = req[r].next
    BY <1>2 DEF Request
  <2> HIDE DEF q
  <2>3. req'[r] = q => Reads(r) /\ Stands(r)
    BY <2>2 DEF Reads, Stands
  <2>4. \A by : Says(req[r], by) => Says(q, by)
    BY <2>1, <2>2 DEF Says
  <2>5. \A x \in Requests : Proceeds(x)
    BY <2>1, <2>2, <2>3, <2>4, <1>2, HoldsOn
  <2>6. FilesGo
    <3>1. \A c \in Convs : tmp'[c].list \in Lists
      BY <2>1, <1>3 DEF IInv, TypeOK, Cut, Lists
    <3> QED BY <3>1, <2>1 DEF FilesGo, Lists
  <2> QED BY <2>5, <2>6, <1>2 DEF StepSays
<1>5. CASE Write(r)
  <2> DEFINE q == [req[r] EXCEPT !.pc = "rename"]
  <2>1. req' = [req EXCEPT ![r] = q] /\ req[r].pc = "write"
    BY <1>5 DEF Write, Goto
  <2>2. /\ q.pc = "rename" /\ q.kind = req[r].kind /\ q.conv = req[r].conv /\ q.cut = req[r].cut
        /\ q.before = req[r].before /\ q.out = req[r].out /\ q.list = req[r].list
        /\ q.next = req[r].next
    BY <1>2 DEF Request
  <2> HIDE DEF q
  <2>3. req'[r] = q => Reads(r) /\ Stands(r)
    BY <2>2 DEF Reads, Stands
  <2>4. \A by : Says(req[r], by) => Says(q, by)
    BY <2>1, <2>2 DEF Says
  <2>5. \A x \in Requests : Proceeds(x)
    BY <2>1, <2>2, <2>3, <2>4, <1>2, HoldsOn
  <2>6. ASSUME NEW old, NEW new \in Overwritten(old, req[r].list) PROVE new.list \in Lists
    <3>1. new = Torn \/ new = Whole(req[r].list)
      BY <2>6, OverwrittenIs
    <3> QED BY <3>1, <1>3 DEF Torn, Whole
  <2>7. CASE \E new \in Overwritten(tmp[Conv(r)], req[r].list) :
                tmp' = [tmp EXCEPT ![Conv(r)] = new] /\ UNCHANGED file
    <3>1. PICK new \in Overwritten(tmp[Conv(r)], req[r].list) :
            tmp' = [tmp EXCEPT ![Conv(r)] = new] /\ UNCHANGED file
      BY <2>7
    <3>2. new.list \in Lists
      BY <2>6
    <3>3. \A c \in Convs : tmp'[c].list \in Lists
      BY <3>1, <3>2 DEF IInv, TypeOK, Lists
    <3> QED BY <3>1, <3>3, <2>5, <1>2 DEF StepSays, FilesGo, Lists
  <2>8. CASE /\ req[r].fd = "file" /\ UNCHANGED tmp
             /\ \E new \in Overwritten(file[Conv(r)], req[r].list) :
                  file' = [file EXCEPT ![Conv(r)] = new]
    <3>1. PICK new \in Overwritten(file[Conv(r)], req[r].list) :
            file' = [file EXCEPT ![Conv(r)] = new]
      BY <2>8
    <3>2. new.list \in Lists
      BY <2>6
    <3>3. \A c \in Convs : file'[c].list \in Lists /\ (c # Conv(r) => file'[c] = file[c])
      BY <3>1, <3>2 DEF IInv, TypeOK, Lists
    <3>4. FilesGo
      BY <3>3, <2>1, <2>8 DEF FilesGo, Lists
    <3> QED BY <3>4, <2>5, <1>2 DEF StepSays
  <2>9. CASE UNCHANGED <<file, tmp>>
    BY <2>5, <2>9, <1>2, SameFiles DEF StepSays
  <2> QED BY <2>7, <2>8, <2>9, <1>5 DEF Write
<1>6. CASE RenameFails(r)
  <2>1. End(r, "failed") /\ UNCHANGED <<file, tmp>>
    BY <1>6 DEF RenameFails
  <2>2. \A x \in Requests : Proceeds(x)
    BY <2>1, <1>2, EndProceeds
  <2> QED BY <2>1, <2>2, <1>2, SameFiles DEF StepSays
<1>7. CASE Rename(r)
  <2>1. /\ req[r].pc = "rename"
        /\ file' = [file EXCEPT ![Conv(r)] = tmp[Conv(r)]]
        /\ tmp' = [tmp EXCEPT ![Conv(r)] = Absent]
        /\ req'[r] = [req[r] EXCEPT !.pc = req[r].next, !.next = "loaded", !.fd = "gone"]
        /\ \A x \in Requests \ {r} : req'[x] = Moved(req[x], Conv(r))
    BY <1>7 DEF Rename
  <2>2. /\ req'[r].pc = req[r].next /\ req'[r].kind = req[r].kind /\ req'[r].conv = req[r].conv
        /\ req'[r].cut = req[r].cut /\ req'[r].before = req[r].before
        /\ req'[r].out = req[r].out /\ req'[r].list = req[r].list /\ req'[r].next = "loaded"
        /\ req[r].next \in {"loaded", "asked", "answered", "edited"}
    BY <2>1, <1>2 DEF Request
  <2>3. file'[Conv(r)] = tmp[Conv(r)]
    BY <2>1, <1>2 DEF IInv, TypeOK
  <2>4. Evolving(r)
    BY <2>1, <2>2 DEF Evolving, Says
  <2>5. Carries(r) /\ Reads(r) /\ Finishes(r)
    BY <2>1, <2>2, <1>2 DEF Carries, Reads, Finishes
  <2>6. Stands(r)
    BY <2>1, <2>2, <2>3 DEF Stands
  <2>7. Tidy(r)
    BY <2>2, <1>2 DEF Tidy, Clean, Fine, Editing
  <2>8. ASSUME NEW x \in Requests, x # r PROVE Proceeds(x)
    <3>1. req'[x] = Moved(req[x], Conv(r)) /\ req[x] \in Request
      BY <2>1, <2>8 DEF IInv, TypeOK
    <3>2. Untouched(x) /\ req'[x].seen = req[x].seen
      BY <3>1 DEF Moved, Untouched, Request
    <3> QED BY <3>2, RestProceeds
  <2>9. FilesGo
    <3>1. \A c \in Convs :
            /\ file'[c] = file[c] \/ (c = Conv(r) /\ file'[c] = tmp[c])
            /\ tmp'[c] = tmp[c] \/ tmp'[c] = Absent
      BY <2>1 DEF IInv, TypeOK
    <3>2. \A c \in Convs : file'[c].list \in Lists /\ tmp'[c].list \in Lists
      BY <3>1 DEF Lists, Absent
    <3> QED BY <3>1, <3>2, <2>1, <2>2 DEF FilesGo
  <2> QED BY <2>4, <2>5, <2>6, <2>7, <2>8, <2>9, <1>2 DEF StepSays, Proceeds
<1> QED BY <1>4, <1>5, <1>6, <1>7 DEF Saves

LEMMA StoredSays ==
  ASSUME IInv, ListsAreFine, NEW r \in Requests, Stored(r)
  PROVE  StepSays
<1>1. UNCHANGED <<file, tmp>> /\ req[r].pc \in {"asked", "asking", "answered", "edited"}
  BY DEF Stored, Asked, Answer, Answered, StatsFail, Edited, EditedUncounted
<1>2. /\ FilesGo /\ InFlight(r) /\ req[r] \in Request /\ Clean(req[r])
      /\ req[r].next = "loaded" /\ req[r].list \in Seq(Message)
  BY <1>1, SameFiles DEF InFlight, IInv, TypeOK, Stages, Placed, Request, ListsAreFine
<1>3. UNCHANGED row => RowsGo
  BY SameCounts
<1>4. CASE Asked(r)
  <2> DEFINE q == [req[r] EXCEPT !.pc = "asking"]
  <2>1. req' = [req EXCEPT ![r] = q] /\ req[r].pc = "asked" /\ Counted(r) /\ Live(r)
    BY <1>4 DEF Asked, Goto
  <2>2. /\ q.pc = "asking" /\ q.kind = req[r].kind /\ q.conv = req[r].conv /\ q.cut = req[r].cut
        /\ q.before = req[r].before /\ q.out = req[r].out /\ q.list = req[r].list
        /\ q.next = req[r].next
    BY <1>2 DEF Request
  <2> HIDE DEF q
  <2>3. req'[r] = q => Reads(r) /\ Stands(r)
    BY <2>2 DEF Reads, Stands
  <2>4. \A by : Says(req[r], by) => Says(q, by)
    BY <2>1, <2>2 DEF Says
  <2>5. \A x \in Requests : Proceeds(x)
    BY <2>1, <2>2, <2>3, <2>4, <1>2, HoldsOn
  <2> QED BY <2>1, <2>5, <1>1, <1>2, CountsGo DEF StepSays
<1>5. CASE Answer(r)
  <2> DEFINE q == [req[r] EXCEPT !.pc = "open", !.next = "answered",
                                 !.list = Append(@, <<r, "assistant">>)]
  <2>1. /\ req' = [req EXCEPT ![r] = q] /\ req[r].pc = "asking" /\ req[r].kind = "chat"
        /\ UNCHANGED row
    BY <1>5 DEF Answer, IInv, Stages, Placed
  <2>2. /\ q.pc = "open" /\ q.kind = req[r].kind /\ q.conv = req[r].conv /\ q.cut = req[r].cut
        /\ q.before = req[r].before /\ q.out = req[r].out /\ q.next = "answered"
        /\ q.list = Append(req[r].list, <<r, "assistant">>)
    BY <1>2 DEF Request
  <2> HIDE DEF q
  <2>3. ~Says(req[r], "assistant") /\ \A by : Says(q, by)
    BY <2>1, <2>2, <1>2 DEF Says
  <2>4. <<r, "assistant">> \notin Said /\ (req'[r] = q => <<r, "assistant">> \in Said')
    BY <2>3, SaidIs
  <2>5. /\ Once(q.list) /\ q.list # <<>>
        /\ \A m : Contains(q.list, m) => Contains(req[r].list, m) \/ m = <<r, "assistant">>
    <3>1. <<r, "assistant">> \in Message /\ ~Contains(req[r].list, <<r, "assistant">>)
      BY <2>4, <1>2 DEF Message, Clean, Fine
    <3> QED BY <3>1, <2>2, <1>2, AppendingOne DEF Clean, Fine
  <2>6. req'[r] = q => Carries(r)
    BY <2>4, <2>5 DEF Carries
  <2>7. req'[r] = q => Tidy(r) /\ Reads(r) /\ Stands(r)
    BY <2>1, <2>2, <2>5 DEF Tidy, Editing, Reads, Stands
  <2>8. \A x \in Requests : Proceeds(x)
    BY <2>1, <2>2, <2>3, <2>6, <2>7, <1>2, GoesOn
  <2> QED BY <2>1, <2>8, <1>2, <1>3 DEF StepSays
<1>6. CASE Answered(r)
  <2>1. req[r].pc = "answered" /\ req[r].kind = "chat" /\ Counted(r) /\ Live(r) /\ End(r, "ok")
    BY <1>6 DEF Answered, IInv, Stages, Placed
  <2>2. \A x \in Requests : Proceeds(x)
    BY <2>1, <1>2, EndProceeds
  <2> QED BY <2>1, <2>2, <1>1, <1>2, CountsGo DEF StepSays
<1>7. CASE StatsFail(r) \/ EditedUncounted(r)
  <2>1. PICK out \in {"uncounted", "failed"} : End(r, out)
    BY <1>7 DEF StatsFail, EditedUncounted
  <2>2. \A x \in Requests : Proceeds(x)
    BY <2>1, <1>2, EndProceeds
  <2> QED BY <2>2, <1>2, <1>3, <1>7 DEF StepSays, StatsFail, EditedUncounted
<1>8. CASE Edited(r)
  <2>1. req[r].pc = "edited" /\ End(r, "ok")
    BY <1>8 DEF Edited
  <2>2. RowsGo /\ (Live(r) => row'[Conv(r)].count = Len(req[r].list))
    BY <2>1, <1>1, <1>3, <1>8, CountsGo DEF Edited
  <2>3. \A x \in Requests : Proceeds(x)
    BY <2>1, <2>2, <1>1, <1>2, EndProceeds
  <2> QED BY <2>2, <2>3, <1>2 DEF StepSays
<1> QED BY <1>4, <1>5, <1>6, <1>7, <1>8 DEF Stored

LEMMA RowOnlySays ==
  ASSUME IInv, ListsAreFine, NEW r \in Requests, RowOnly(r) \/ Fail(r)
  PROVE  StepSays
<1>1. InFlight(r) /\ req[r] \in Request /\ Conv(r) \in Convs
  BY DEF RowOnly, Set, SetFails, RemoveFile, KeepFile, Fail, InFlight, IInv, TypeOK, Request, Conv
<1>2. CASE SetFails(r) \/ KeepFile(r) \/ Fail(r)
  <2>1. PICK out \in {"failed", "kept"} :
          /\ End(r, out) /\ UNCHANGED <<row, file, tmp>>
          /\ out = "kept" => req[r].kind = "delete"
    <3>1. KeepFile(r) => req[r].kind = "delete"
      BY DEF KeepFile, IInv, Stages, Placed
    <3> QED BY <1>2, <3>1 DEF SetFails, KeepFile, Fail
  <2>2. \A x \in Requests : Proceeds(x)
    BY <2>1, <1>1, EndProceeds
  <2> QED BY <2>1, <2>2, SameCounts, SameFiles DEF StepSays
<1>3. CASE Set(r)
  <2>1. req[r].kind # "edit" /\ End(r, "ok") /\ UNCHANGED <<file, tmp>>
    BY <1>3 DEF Set, IInv, Stages, Placed
  <2>2. \A c \in Convs : row'[c].there = row[c].there /\ row'[c].count = row[c].count
    BY <1>1, <1>3 DEF Set, IInv, TypeOK, Row
  <2>3. RowsGo
    BY <2>2, SameCounts
  <2>4. \A x \in Requests : Proceeds(x)
    BY <2>1, <1>1, EndProceeds
  <2> QED BY <2>1, <2>3, <2>4, SameFiles DEF StepSays
<1>4. CASE RemoveFile(r)
  <2>1. /\ req[r].pc = "remove" /\ req[r].kind = "delete" /\ row[Conv(r)].there = "gone"
        /\ file' = [file EXCEPT ![Conv(r)] = Absent] /\ UNCHANGED <<row, tmp>>
        /\ req'[r] = Over(req[r], "ok")
    BY <1>4 DEF RemoveFile, IInv, Stages, Placed, DeletedLast
  <2>2. Proceeds(r)
    BY <2>1, <1>1, OverProceeds
  <2>3. ASSUME NEW x \in Requests, x # r PROVE Proceeds(x)
    <3>1. req'[x] = req[x] \/ req'[x] = [req[x] EXCEPT !.fd = "gone"]
      BY <2>3, <1>4 DEF RemoveFile
    <3>2. Untouched(x) /\ req'[x].seen = req[x].seen
      BY <3>1 DEF Untouched, IInv, TypeOK, Request
    <3> QED BY <3>2, RestProceeds
  <2>4. FilesGo
    <3>1. \A c \in Convs : file'[c] = file[c] \/ (file'[c] = Absent /\ row[c].there = "gone")
      BY <2>1 DEF IInv, TypeOK
    <3> QED BY <3>1, <2>1 DEF FilesGo, Lists, Absent
  <2> QED BY <2>1, <2>2, <2>3, <2>4, SameCounts DEF StepSays
<1> QED BY <1>2, <1>3, <1>4 DEF RowOnly

LEMMA CrashSays ==
  ASSUME IInv, ListsAreFine, Crash \/ UNCHANGED vars
  PROVE  StepSays
<1>1. UNCHANGED <<row, file, tmp>>
  BY DEF Crash, vars
<1>2. ASSUME NEW x \in Requests PROVE Proceeds(x)
  <2>1. CASE InFlight(x) /\ Crash
    <3>1. req'[x] = Over(req[x], "failed")
      BY <2>1 DEF Crash
    <3> QED BY <3>1, <2>1, OverProceeds
  <2>2. CASE req'[x] = req[x]
    BY <2>2, RestProceeds DEF Untouched
  <2> QED BY <2>1, <2>2 DEF Crash, vars
<1> QED BY <1>1, <1>2, SameCounts, SameFiles DEF StepSays

LEMMA RemovalKeeps == IInv /\ RemovalInv /\ [Next]_vars => RemovalInv'
<1> SUFFICES ASSUME IInv, RemovalInv, [Next]_vars PROVE StepSays
  BY SaysKeep
<1>1. ListsAreFine
  BY DEF RemovalInv
<1>2. ASSUME NEW r \in Requests,
             Begins(r) \/ Loads(r) \/ Saves(r) \/ Stored(r) \/ RowOnly(r) \/ Fail(r)
      PROVE  StepSays
  BY <1>1, <1>2, BeginsSays, LoadsSays, SavesSays, StoredSays, RowOnlySays
<1>3. CASE Crash \/ UNCHANGED vars
  BY <1>1, <1>3, CrashSays
<1> QED BY <1>2, <1>3 DEF Next

LEMMA RemovalStarts == Init => RemovalInv
<1> SUFFICES ASSUME Init PROVE RemovalInv
  OBVIOUS
<1>1. \A r \in Requests :
        /\ req[r].pc = "new" /\ req[r].kind = "open" /\ req[r].list = <<>>
        /\ req[r].next = "loaded" /\ req[r].cut = OldMessage /\ req[r].out = "none"
  BY DEF Init
<1>2. \A c \in Convs : file[c].list = <<>> /\ tmp[c].list = <<>>
  BY DEF Init, Absent
<1>3. Fine(<<>>) /\ OldMessage \in Said
  BY OnceSmall, NothingContained DEF Fine, Said
<1>4. ListsAreFine
  BY <1>1, <1>2, <1>3 DEF ListsAreFine, Clean, Editing
<1> QED BY <1>1, <1>4 DEF RemovalInv, SavedAs, EditsLast

\* A message that an edit took is not in the file again, whatever the other requests,
\* their failures and crashes do: neither the lists that are read and written back nor
\* the legacy rows, which loadConversationMessages imports when the file is empty and the row
\* counts messages, bring it back, unless writers overlapped or a count was lost.
THEOREM RemovedForGood == Spec => []RemovedStays
<1>1. RemovalInv => RemovedStays
  BY DEF RemovalInv, EditsLast, GoneFor, EditLost, RemovedStays
<1> QED BY <1>1, RemovalStarts, RemovalKeeps, ChatKeeps, PTL DEF Spec

=============================================================================
