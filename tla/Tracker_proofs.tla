---------------------------- MODULE Tracker_proofs ----------------------------
(***************************************************************************)
(* Theorems about Tracker, for any number of reviews, suggestions, entries *)
(* and failures.                                                           *)
(***************************************************************************)
EXTENDS Tracker, TLAPS

LEMMA InitTrackerInv == TrackerInit => TrackerInv
<1> SUFFICES ASSUME TrackerInit PROVE TrackerInv
  OBVIOUS
<1> USE TrackerAssumption DEF TrackerInit
<1>0. \A e \in Entries : entries[e] = NoEntry \/ \E c \in Contents : entries[e] = OldEntry(e, c)
  OBVIOUS
<1>1. TrackerOK
  <2>1. \A e \in Entries : NoEntry \in Entry /\ \A c \in Contents : OldEntry(e, c) \in Entry
    BY DEF NoEntry, OldEntry, Entry
  <2>2. entries \in [Entries -> Entry]
    BY <1>0, <2>1
  <2> QED BY <2>2 DEF TrackerOK, Suggestion, Review
<1>2. ApprovedIsMade
  BY DEF ApprovedIsMade
<1>3. ReviewsTell
  BY DEF ReviewsTell, ReviewPlaced, Settles, ReviewOf
<1>4. OneEntryEach
  <2>1. \A e \in Entries : LiveEntry(e) => entries[e].of = e
    BY <1>0 DEF LiveEntry, NoEntry, OldEntry
  <2> QED BY <2>1 DEF OneEntryEach, Holds
<1>5. EntriesAreMade
  BY <1>0 DEF EntriesAreMade, Migrated, NoEntry, OldEntry
<1> QED BY <1>1, <1>2, <1>3, <1>4, <1>5 DEF TrackerInv

-----------------------------------------------------------------------------
(* Steps of a review that change no suggestion and no entry.               *)

\* r goes on as q.
ReviewGoes(r, q) ==
  /\ reviews' = [reviews EXCEPT ![r] = q] /\ q \in Review
  /\ UNCHANGED <<suggestions, entries>> /\ trackerSlips' \in 0..MaxTrackerSlips
  /\ reviews[r].pc # "done" /\ q.pc # "new" /\ q.kind = "approve" /\ q.out \in {"none", "failed"}
  /\ ReviewPlaced(q)
  /\ reviews[r].pc # "new" =>
       q.kind = reviews[r].kind /\ q.of = reviews[r].of /\ q.before = reviews[r].before
  /\ reviews[r].pc = "new" =>
       q.before = {b \in Reviews : reviews[b].pc = "done"} /\ suggestions[q.of].review = "pending"

LEMMA GoesTells ==
  ASSUME TrackerInv, NEW r \in Reviews, NEW q, ReviewGoes(r, q)
  PROVE  /\ TrackerOK' /\ ApprovedIsMade' /\ ReviewsTell' /\ EntriesAreMade'
         /\ reviews'[r] = q /\ \A x \in Reviews \ {r} : reviews'[x] = reviews[x]
<1> USE DEF TrackerInv
<1>1. reviews'[r] = q /\ \A x \in Reviews \ {r} : reviews'[x] = reviews[x]
  BY DEF ReviewGoes, TrackerOK
<1>2. TrackerOK'
  BY DEF ReviewGoes, TrackerOK
<1>3. ApprovedIsMade'
  BY DEF ReviewGoes, ApprovedIsMade
<1>4. ASSUME NEW b \in Reviews, NEW s
      PROVE  Settles(b, s)' <=> Settles(b, s)
  <2>1. CASE b = r
    <3>1. ReviewPlaced(reviews[r]) /\ reviews[r].kind # "dismiss" /\ reviews[r].out # "ok"
      BY DEF ReviewsTell, ReviewPlaced, ReviewGoes
    <3> QED BY <3>1, <2>1, <1>1 DEF Settles, ReviewOf, ReviewGoes
  <2>2. CASE b # r
    BY <2>2, <1>1 DEF Settles, ReviewOf
  <2> QED BY <2>1, <2>2
<1>5. ReviewsTell'
  <2>1. ASSUME NEW x \in Reviews
        PROVE  /\ ReviewPlaced(reviews'[x])
               /\ reviews'[x].pc # "new" => suggestions'[reviews'[x].of].review # "none"
    <3>1. CASE x = r
      BY <3>1, <1>1 DEF ReviewGoes, ReviewsTell
    <3>2. CASE x # r
      BY <3>2, <1>1 DEF ReviewGoes, ReviewsTell, ReviewPlaced
    <3> QED BY <3>1, <3>2
  <2>2. ASSUME NEW x \in Reviews, NEW b \in reviews'[x].before
        PROVE  /\ reviews'[b].pc = "done"
               /\ \A s : s = reviews'[x].of => ~Settles(b, s)'
    <3>1. /\ b \in Reviews /\ reviews[b].pc = "done" /\ ~Settles(b, reviews'[x].of)
      <4>1. CASE x = r /\ reviews[r].pc = "new"
        BY <4>1, <1>1, <2>2 DEF ReviewGoes, ReviewsTell, ReviewPlaced, TrackerOK, Review
      <4>2. CASE ~(x = r /\ reviews[r].pc = "new")
        <5>1. reviews'[x].before = reviews[x].before /\ reviews'[x].of = reviews[x].of
          BY <4>2, <1>1 DEF ReviewGoes
        <5> QED BY <5>1, <2>2 DEF ReviewsTell, TrackerOK, Review
      <4> QED BY <4>1, <4>2
    <3>2. b # r
      BY <3>1 DEF ReviewGoes
    <3>3. reviews'[b].pc = "done"
      BY <3>1, <3>2, <1>1
    <3> QED BY <3>1, <3>3, <1>4
  <2>3. ASSUME NEW s \in Suggestions
        PROVE  /\ suggestions'[s].review = "pending" => \A x \in Reviews : ~Settles(x, s)'
               /\ suggestions'[s].review # "approved" =>
                    \A x \in Reviews : ReviewOf(x, "approve", s)' => reviews'[x].out # "ok"
               /\ suggestions'[s].review = "approved" =>
                    \E x \in Reviews : ReviewOf(x, "approve", s)' /\ reviews'[x].out = "ok"
    <3>1. suggestions' = suggestions
      BY DEF ReviewGoes
    <3>2. suggestions[s].review = "pending" => \A x \in Reviews : ~Settles(x, s)'
      BY <1>4 DEF ReviewsTell
    <3>3. ASSUME NEW x \in Reviews, suggestions[s].review # "approved", ReviewOf(x, "approve", s)'
          PROVE  reviews'[x].out # "ok"
      BY <3>3, <1>1 DEF ReviewsTell, ReviewGoes, ReviewOf
    <3>4. ASSUME suggestions[s].review = "approved"
          PROVE  \E x \in Reviews : ReviewOf(x, "approve", s)' /\ reviews'[x].out = "ok"
      <4>1. PICK x \in Reviews : ReviewOf(x, "approve", s) /\ reviews[x].out = "ok"
        BY <3>4 DEF ReviewsTell
      <4>2. x # r
        BY <4>1 DEF ReviewsTell, ReviewPlaced, ReviewGoes
      <4> QED BY <4>1, <4>2, <1>1 DEF ReviewOf
    <3> QED BY <3>1, <3>2, <3>3, <3>4
  <2> QED BY <2>1, <2>2, <2>3 DEF ReviewsTell, ReviewPlaced
<1>6. EntriesAreMade'
  <2> SUFFICES ASSUME NEW e \in Entries
      PROVE /\ entries'[e].there = "no" => entries'[e].from = NoId
            /\ entries'[e].there # "no" /\ ~entries'[e].edited /\ entries'[e].of \notin Entries =>
                 entries'[e].says = entries'[e].of
            /\ entries'[e].from # NoId =>
                 /\ entries'[e].of = suggestions'[entries'[e].from].of
                 /\ \E x \in Reviews : /\ reviews'[x].kind = "approve" /\ reviews'[x].of = entries'[e].from
                                      /\ reviews'[x].out = "ok" /\ reviews'[x].makes = e
    BY DEF EntriesAreMade, Migrated, ReviewOf
  <2>1. entries' = entries /\ suggestions' = suggestions
    BY DEF ReviewGoes
  <2>2. ASSUME entries[e].from # NoId
        PROVE  \E x \in Reviews : /\ reviews'[x].kind = "approve" /\ reviews'[x].of = entries'[e].from
                                 /\ reviews'[x].out = "ok" /\ reviews'[x].makes = e
    <3>1. PICK x \in Reviews : /\ ReviewOf(x, "approve", entries[e].from)
                               /\ reviews[x].out = "ok" /\ reviews[x].makes = e
      BY <2>2 DEF EntriesAreMade
    <3>2. x # r
      BY <3>1 DEF ReviewsTell, ReviewPlaced, ReviewGoes
    <3> QED BY <3>1, <3>2, <2>1, <1>1 DEF ReviewOf
  <2> QED BY <2>1, <2>2 DEF EntriesAreMade, Migrated
<1> QED BY <1>1, <1>2, <1>3, <1>5, <1>6

LEMMA GoesAlone ==
  ASSUME TrackerInv, NEW r \in Reviews, NEW q, ReviewGoes(r, q),
         q.pc \in {"mark", "commit"} => Holds(r) /\ q.makes = reviews[r].makes,
         q.makes \in {reviews[r].makes, NoId}
  PROVE  OneEntryEach'
<1> USE DEF TrackerInv
<1>1. /\ reviews'[r] = q /\ \A x \in Reviews \ {r} : reviews'[x] = reviews[x]
      /\ suggestions' = suggestions /\ entries' = entries
  BY GoesTells DEF ReviewGoes
<1>2. ASSUME NEW x \in Reviews, Holds(x)'
      PROVE  Holds(x) /\ HashOf(x)' = HashOf(x) /\ reviews'[x].makes = reviews[x].makes
  <2>1. CASE x = r
    BY <1>1, <1>2, <2>1 DEF Holds, HashOf, ReviewGoes
  <2>2. CASE x # r
    BY <1>1, <1>2, <2>2 DEF Holds, HashOf
  <2> QED BY <2>1, <2>2
<1>3. \A x \in Reviews : reviews'[x].makes \in {reviews[x].makes, NoId}
  BY <1>1
<1>4. \A x \in Reviews : Holds(x) => reviews[x].makes \in Entries
  BY DEF ReviewsTell, ReviewPlaced, Holds
<1>5. \A p, x \in Reviews : p # x /\ Holds(p)' /\ Holds(x)' => HashOf(p)' # HashOf(x)'
  BY <1>2 DEF OneEntryEach
<1>6. \A e, f \in Entries :
        e # f /\ LiveEntry(e)' /\ LiveEntry(f)' => entries'[e].of # entries'[f].of
  BY <1>1 DEF OneEntryEach, LiveEntry
<1>7. ASSUME NEW x \in Reviews, Holds(x)'
      PROVE  \/ LiveEntry(reviews'[x].makes) /\ entries[reviews'[x].makes].of = HashOf(x)
             \/ /\ entries[reviews'[x].makes].there = "no"
                /\ \A f \in Entries : LiveEntry(f) => entries[f].of # HashOf(x)
                /\ \A p \in Reviews : p # x => reviews'[p].makes # reviews'[x].makes
  <2>1. Holds(x) /\ reviews'[x].makes = reviews[x].makes /\ reviews[x].makes # NoId
    BY <1>2, <1>4, <1>7, TrackerAssumption
  <2> QED BY <2>1, <1>3 DEF OneEntryEach
<1>8. \A x \in Reviews :
        Holds(x)' =>
          \/ entries'[reviews'[x].makes].there = "live" /\ entries'[reviews'[x].makes].of = HashOf(x)'
          \/ /\ entries'[reviews'[x].makes].there = "no"
             /\ \A f \in Entries : LiveEntry(f)' => entries'[f].of # HashOf(x)'
             /\ \A p \in Reviews : p # x => reviews'[p].makes # reviews'[x].makes
  BY <1>1, <1>2, <1>7 DEF LiveEntry
<1> QED BY <1>5, <1>6, <1>8 DEF OneEntryEach, LiveEntry

LEMMA ApproveKeeps ==
  ASSUME TrackerInv, NEW r \in Reviews, NEW s \in Suggestions, Approve(r, s)
  PROVE  TrackerInv'
<1> DEFINE q == [pc |-> "enter", kind |-> "approve", of |-> s, makes |-> NoId,
                 before |-> {b \in Reviews : reviews[b].pc = "done"}, out |-> "none"]
<1>1. /\ reviews' = [reviews EXCEPT ![r] = q] /\ reviews[r].pc = "new"
      /\ UNCHANGED <<suggestions, entries, trackerSlips>> /\ suggestions[s].review = "pending"
  BY DEF Approve, ReviewBegins, Pending
<1>2. q \in Review
  BY DEF Review
<1>3. ReviewGoes(r, q)
  BY <1>1, <1>2 DEF ReviewGoes, ReviewPlaced, TrackerInv, TrackerOK
<1> QED BY <1>3, GoesTells, GoesAlone DEF TrackerInv

LEMMA MarkKeeps ==
  ASSUME TrackerInv, NEW r \in Reviews, Mark(r)
  PROVE  TrackerInv'
<1> DEFINE q == [reviews[r] EXCEPT !.pc = "commit"]
<1>1. /\ reviews' = [reviews EXCEPT ![r] = q] /\ reviews[r].pc = "mark" /\ reviews[r] \in Review
      /\ UNCHANGED <<suggestions, entries, trackerSlips>> /\ ReviewPlaced(reviews[r])
  BY DEF Mark, TrackerInv, TrackerOK, ReviewsTell
<1>2. /\ q \in Review /\ q.pc = "commit" /\ q.kind = reviews[r].kind /\ q.of = reviews[r].of
      /\ q.makes = reviews[r].makes /\ q.before = reviews[r].before /\ q.out = reviews[r].out
  BY <1>1 DEF Review
<1> HIDE DEF q
<1>3. ReviewGoes(r, q)
  BY <1>1, <1>2 DEF ReviewGoes, ReviewPlaced, TrackerInv, TrackerOK
<1>4. Holds(r)
  BY <1>1 DEF Holds
<1> QED BY <1>2, <1>3, <1>4, GoesTells, GoesAlone DEF TrackerInv

LEMMA RollbackKeeps ==
  ASSUME TrackerInv, NEW r \in Reviews, Rollback(r)
  PROVE  TrackerInv'
<1> DEFINE q == [reviews[r] EXCEPT !.pc = "done", !.makes = NoId, !.out = "failed"]
<1>1. /\ reviews' = [reviews EXCEPT ![r] = q] /\ reviews[r].pc \in {"enter", "mark", "commit"}
      /\ reviews[r] \in Review /\ UNCHANGED <<suggestions, entries>> /\ ReviewPlaced(reviews[r])
  BY DEF Rollback, TrackerInv, TrackerOK, ReviewsTell
<1> trackerSlips' \in 0..MaxTrackerSlips
  BY TrackerAssumption DEF Rollback, TrackerInv, TrackerOK
<1>2. /\ q \in Review /\ q.pc = "done" /\ q.kind = reviews[r].kind /\ q.of = reviews[r].of
      /\ q.makes = NoId /\ q.before = reviews[r].before /\ q.out = "failed"
  BY <1>1 DEF Review
<1> HIDE DEF q
<1>3. ReviewGoes(r, q)
  BY <1>1, <1>2 DEF ReviewGoes, ReviewPlaced
<1> QED BY <1>2, <1>3, GoesTells, GoesAlone DEF TrackerInv

\* The entry: the live one of the hash, or one nobody makes.
LEMMA EntryOfIs ==
  ASSUME NEW c, NEW e \in EntryOf(c)
  PROVE  /\ e \in Entries
         /\ \/ LiveEntry(e) /\ entries[e].of = c
            \/ /\ entries[e].there = "no" /\ \A r \in Reviews : reviews[r].makes # e
               /\ \A f \in Entries : LiveEntry(f) => entries[f].of # c
BY DEF EntryOf

LEMMA EnterKeeps ==
  ASSUME TrackerInv, NEW r \in Reviews, Enter(r)
  PROVE  TrackerInv'
<1>1. PICK e \in EntryOf(HashOf(r)) : reviews' = [reviews EXCEPT ![r].pc = "mark", ![r].makes = e]
  BY DEF Enter, HashOf
<1> DEFINE q == [reviews[r] EXCEPT !.pc = "mark", !.makes = e]
<1>2. /\ reviews' = [reviews EXCEPT ![r] = q] /\ reviews[r].pc = "enter" /\ reviews[r] \in Review
      /\ UNCHANGED <<suggestions, entries, trackerSlips>> /\ ReviewPlaced(reviews[r])
      /\ ~EntryLocked(HashOf(r))
  BY <1>1 DEF Enter, HashOf, TrackerInv, TrackerOK, ReviewsTell
<1>3. /\ e \in Entries
      /\ \/ LiveEntry(e) /\ entries[e].of = HashOf(r)
         \/ /\ entries[e].there = "no" /\ \A x \in Reviews : reviews[x].makes # e
            /\ \A f \in Entries : LiveEntry(f) => entries[f].of # HashOf(r)
  BY EntryOfIs
<1>4. /\ q \in Review /\ q.pc = "mark" /\ q.kind = reviews[r].kind /\ q.of = reviews[r].of
      /\ q.makes = e /\ q.before = reviews[r].before /\ q.out = reviews[r].out
  BY <1>2, <1>3 DEF Review
<1> HIDE DEF q
<1>5. ReviewGoes(r, q)
  BY <1>2, <1>3, <1>4 DEF ReviewGoes, ReviewPlaced, TrackerInv, TrackerOK
<1>6. reviews'[r] = q /\ \A x \in Reviews \ {r} : reviews'[x] = reviews[x]
  BY <1>5, GoesTells
<1>7. ~Holds(r) /\ \A x \in Reviews \ {r} : Holds(x) => HashOf(x) # HashOf(r)
  BY <1>2 DEF Holds, HashOf, EntryLocked
<1>8. \A x \in Reviews : HashOf(x)' = HashOf(x) /\ (Holds(x)' => Holds(x) \/ x = r)
  BY <1>2, <1>4, <1>6 DEF HashOf, Holds
<1>9. \A p, x \in Reviews : p # x /\ Holds(p)' /\ Holds(x)' => HashOf(p)' # HashOf(x)'
  BY <1>7, <1>8 DEF TrackerInv, OneEntryEach
<1>10. ASSUME NEW x \in Reviews, Holds(x)'
       PROVE  \/ LiveEntry(reviews'[x].makes) /\ entries[reviews'[x].makes].of = HashOf(x)
              \/ /\ entries[reviews'[x].makes].there = "no"
                 /\ \A f \in Entries : LiveEntry(f) => entries[f].of # HashOf(x)
                 /\ \A p \in Reviews : p # x => reviews'[p].makes # reviews'[x].makes
  <2>1. CASE x = r
    BY <2>1, <1>3, <1>4, <1>6
  <2>2. CASE x # r
    <3>1. Holds(x) /\ reviews'[x] = reviews[x] /\ HashOf(x) # HashOf(r)
      BY <2>2, <1>6, <1>7, <1>8, <1>10
    <3>2. CASE LiveEntry(reviews[x].makes) /\ entries[reviews[x].makes].of = HashOf(x)
      BY <3>1, <3>2
    <3>3. CASE /\ entries[reviews[x].makes].there = "no"
               /\ \A f \in Entries : LiveEntry(f) => entries[f].of # HashOf(x)
               /\ \A p \in Reviews : p # x => reviews[p].makes # reviews[x].makes
      <4>1. e # reviews[x].makes
        BY <3>3, <1>3 DEF LiveEntry
      <4> QED BY <4>1, <3>1, <3>3, <1>4, <1>6
    <3> QED BY <3>1, <3>2, <3>3 DEF TrackerInv, OneEntryEach
  <2> QED BY <2>1, <2>2
<1>11. \A x \in Reviews :
        Holds(x)' =>
          \/ entries'[reviews'[x].makes].there = "live" /\ entries'[reviews'[x].makes].of = HashOf(x)'
          \/ /\ entries'[reviews'[x].makes].there = "no"
             /\ \A f \in Entries : LiveEntry(f)' => entries'[f].of # HashOf(x)'
             /\ \A p \in Reviews : p # x => reviews'[p].makes # reviews'[x].makes
  BY <1>2, <1>8, <1>10 DEF LiveEntry
<1>12. \A g, f \in Entries :
        g # f /\ LiveEntry(g)' /\ LiveEntry(f)' => entries'[g].of # entries'[f].of
  BY <1>2 DEF TrackerInv, OneEntryEach, LiveEntry
<1>13. OneEntryEach'
  BY <1>9, <1>11, <1>12 DEF OneEntryEach, LiveEntry
<1> QED BY <1>5, <1>13, GoesTells DEF TrackerInv

-----------------------------------------------------------------------------
(* Suggestions.                                                            *)

LEMMA SuggestKeeps ==
  ASSUME TrackerInv, NEW s \in Suggestions, NEW c \in Contents, Suggest(s, c)
  PROVE  TrackerInv'
<1> USE DEF TrackerInv
<1> DEFINE new == [review |-> "pending", of |-> c, entry |-> NoId]
<1>1. /\ suggestions[s].review = "none" /\ suggestions' = [suggestions EXCEPT ![s] = new]
      /\ UNCHANGED <<entries, reviews, trackerSlips>>
  BY DEF Suggest
<1>2. TrackerOK'
  <2>1. new \in Suggestion
    BY DEF Suggestion
  <2> QED BY <1>1, <2>1 DEF TrackerOK
<1>3. /\ suggestions'[s].review = "pending"
      /\ \A t \in Suggestions \ {s} : suggestions'[t] = suggestions[t]
  BY <1>1 DEF TrackerOK
<1>4. ASSUME NEW r \in Reviews, reviews[r].pc # "new"
      PROVE  reviews[r].of \in Suggestions /\ reviews[r].of # s
  BY <1>1, <1>4 DEF ReviewsTell, ReviewPlaced
<1>5. ApprovedIsMade'
  BY <1>1, <1>3 DEF ApprovedIsMade
<1>6. \A r \in Reviews : reviews[r].kind \in {"approve", "dismiss"} => reviews[r].pc # "new"
  BY DEF ReviewsTell, ReviewPlaced
<1>7. ReviewsTell'
  <2>1. \A b \in Reviews : \A t : Settles(b, t)' => Settles(b, t)
    BY <1>1 DEF Settles, ReviewOf
  <2>2. \A b \in Reviews : ~Settles(b, s)
    BY <1>4, <1>6 DEF Settles, ReviewOf
  <2>3. \A r \in Reviews :
          /\ ReviewPlaced(reviews'[r])
          /\ reviews'[r].pc # "new" => suggestions'[reviews'[r].of].review # "none"
    BY <1>1, <1>3, <1>4 DEF ReviewsTell
  <2>4. ASSUME NEW r \in Reviews, NEW b \in reviews[r].before
        PROVE  reviews'[b].pc = "done" /\ \A t : t = reviews[r].of => ~Settles(b, t)'
    BY <1>1, <2>1 DEF ReviewsTell, TrackerOK, Review
  <2>5. ASSUME NEW t \in Suggestions
        PROVE  /\ suggestions'[t].review = "pending" => \A x \in Reviews : ~Settles(x, t)'
               /\ suggestions'[t].review # "approved" =>
                    \A x \in Reviews : ReviewOf(x, "approve", t)' => reviews'[x].out # "ok"
               /\ suggestions'[t].review = "approved" =>
                    \E x \in Reviews : ReviewOf(x, "approve", t)' /\ reviews'[x].out = "ok"
    <3>1. CASE t = s
      BY <3>1, <1>1, <1>3, <1>4, <1>6, <2>1, <2>2 DEF ReviewOf
    <3>2. CASE t # s
      BY <3>2, <1>1, <1>3, <2>1 DEF ReviewsTell, ReviewOf
    <3> QED BY <3>1, <3>2
  <2> QED BY <1>1, <2>3, <2>4, <2>5 DEF ReviewsTell, ReviewPlaced
<1>8. \A r \in Reviews : Holds(r)' => Holds(r) /\ HashOf(r)' = HashOf(r)
  BY <1>1, <1>3, <1>4 DEF Holds, HashOf
<1>9. OneEntryEach'
  <2>1. \A p, x \in Reviews : p # x /\ Holds(p)' /\ Holds(x)' => HashOf(p)' # HashOf(x)'
    BY <1>8 DEF OneEntryEach
  <2>2. ASSUME NEW x \in Reviews, Holds(x)'
        PROVE  \/ LiveEntry(reviews[x].makes) /\ entries[reviews[x].makes].of = HashOf(x)'
               \/ /\ entries[reviews[x].makes].there = "no"
                  /\ \A f \in Entries : LiveEntry(f) => entries[f].of # HashOf(x)'
                  /\ \A p \in Reviews : p # x => reviews[p].makes # reviews[x].makes
    BY <1>8, <2>2 DEF OneEntryEach
  <2> QED BY <1>1, <2>1, <2>2 DEF OneEntryEach, LiveEntry
<1>10. EntriesAreMade'
  <2> SUFFICES ASSUME NEW e \in Entries, entries[e].from # NoId
      PROVE /\ entries[e].of = suggestions'[entries[e].from].of
            /\ \E x \in Reviews : /\ reviews[x].kind = "approve" /\ reviews[x].of = entries[e].from
                                 /\ reviews[x].out = "ok" /\ reviews[x].makes = e
    BY <1>1 DEF EntriesAreMade, Migrated, ReviewOf
  <2>1. PICK x \in Reviews : /\ reviews[x].kind = "approve" /\ reviews[x].of = entries[e].from
                             /\ reviews[x].out = "ok" /\ reviews[x].makes = e
    BY DEF EntriesAreMade, Migrated, ReviewOf
  <2>2. entries[e].from \in Suggestions \ {s}
    BY <2>1, <1>4, <1>6
  <2> QED BY <2>1, <2>2, <1>3 DEF EntriesAreMade
<1> QED BY <1>2, <1>5, <1>7, <1>9, <1>10

LEMMA DismissKeeps ==
  ASSUME TrackerInv, NEW r \in Reviews, NEW s \in Suggestions, Dismiss(r, s)
  PROVE  TrackerInv'
<1> USE DEF TrackerInv
<1> DEFINE q == [pc |-> "done", kind |-> "dismiss", of |-> s, makes |-> NoId,
                 before |-> {b \in Reviews : reviews[b].pc = "done"}, out |-> "ok"]
<1>1. /\ reviews' = [reviews EXCEPT ![r] = q] /\ reviews[r].pc = "new"
      /\ suggestions' = [suggestions EXCEPT ![s].review = "dismissed"]
      /\ UNCHANGED <<entries, trackerSlips>> /\ suggestions[s].review = "pending"
  BY DEF Dismiss, ReviewBegins, Pending
<1>2. q \in Review /\ ReviewPlaced(q)
  BY DEF Review, ReviewPlaced
<1>3. TrackerOK'
  BY <1>1, <1>2 DEF TrackerOK, Suggestion
<1>4. /\ suggestions'[s].review = "dismissed" /\ suggestions'[s].of = suggestions[s].of
      /\ \A t \in Suggestions \ {s} : suggestions'[t] = suggestions[t]
      /\ reviews'[r] = q /\ \A x \in Reviews \ {r} : reviews'[x] = reviews[x]
  BY <1>1 DEF TrackerOK, Suggestion
<1>5. \A t \in Suggestions : suggestions'[t].of = suggestions[t].of
  BY <1>4
<1>6. ApprovedIsMade'
  BY <1>1, <1>4 DEF ApprovedIsMade
<1>7. \A b \in Reviews \ {r} : \A t : Settles(b, t)' => Settles(b, t)
  BY <1>4 DEF Settles, ReviewOf
<1>8. \A t : Settles(r, t)' => t = s
  BY <1>4 DEF Settles, ReviewOf
<1>9. ReviewsTell'
  <2>1. ASSUME NEW x \in Reviews
        PROVE  /\ ReviewPlaced(reviews'[x])
               /\ reviews'[x].pc # "new" => suggestions'[reviews'[x].of].review # "none"
    <3>1. CASE x = r
      BY <3>1, <1>2, <1>4
    <3>2. CASE x # r
      <4>1. /\ reviews'[x] = reviews[x] /\ ReviewPlaced(reviews[x])
            /\ reviews[x].pc # "new" => /\ reviews[x].of \in Suggestions
                                       /\ suggestions[reviews[x].of].review # "none"
        BY <3>2, <1>4 DEF ReviewsTell, ReviewPlaced
      <4> QED BY <4>1, <1>4
    <3> QED BY <3>1, <3>2
  <2>2. ASSUME NEW x \in Reviews, NEW b \in reviews'[x].before
        PROVE  reviews'[b].pc = "done" /\ \A t : t = reviews'[x].of => ~Settles(b, t)'
    <3>1. b \in Reviews /\ reviews[b].pc = "done" /\ ~Settles(b, reviews'[x].of)
      <4>1. CASE x = r
        BY <4>1, <1>1, <1>4, <2>2 DEF ReviewsTell
      <4>2. CASE x # r
        BY <4>2, <1>4, <2>2 DEF ReviewsTell, TrackerOK, Review
      <4> QED BY <4>1, <4>2
    <3>2. b # r
      BY <3>1, <1>1
    <3>3. reviews'[b].pc = "done"
      BY <3>1, <3>2, <1>4
    <3> QED BY <3>1, <3>2, <3>3, <1>7
  <2>3. ASSUME NEW t \in Suggestions
        PROVE  /\ suggestions'[t].review = "pending" => \A x \in Reviews : ~Settles(x, t)'
               /\ suggestions'[t].review # "approved" =>
                    \A x \in Reviews : ReviewOf(x, "approve", t)' => reviews'[x].out # "ok"
               /\ suggestions'[t].review = "approved" =>
                    \E x \in Reviews : ReviewOf(x, "approve", t)' /\ reviews'[x].out = "ok"
    <3>1. CASE t = s
      <4>1. ASSUME NEW x \in Reviews, ReviewOf(x, "approve", s)' PROVE reviews'[x].out # "ok"
        <5>1. x # r /\ ReviewOf(x, "approve", s) /\ reviews'[x] = reviews[x]
          BY <4>1, <1>4 DEF ReviewOf
        <5> QED BY <5>1, <1>1 DEF ReviewsTell
      <4> QED BY <3>1, <4>1, <1>4
    <3>2. CASE t # s
      <4>1. suggestions'[t] = suggestions[t]
        BY <3>2, <1>4
      <4>2. suggestions[t].review = "pending" => \A x \in Reviews : ~Settles(x, t)'
        BY <3>2, <1>7, <1>8 DEF ReviewsTell
      <4>3. ASSUME NEW x \in Reviews, suggestions[t].review # "approved", ReviewOf(x, "approve", t)'
            PROVE  reviews'[x].out # "ok"
        <5>1. x # r /\ ReviewOf(x, "approve", t) /\ reviews'[x] = reviews[x]
          BY <4>3, <1>4 DEF ReviewOf
        <5> QED BY <5>1, <4>3 DEF ReviewsTell
      <4>4. ASSUME suggestions[t].review = "approved"
            PROVE  \E x \in Reviews : ReviewOf(x, "approve", t)' /\ reviews'[x].out = "ok"
        <5>1. PICK x \in Reviews : ReviewOf(x, "approve", t) /\ reviews[x].out = "ok"
          BY <4>4 DEF ReviewsTell
        <5>2. x # r
          BY <5>1, <1>1 DEF ReviewsTell, ReviewPlaced, ReviewOf
        <5> QED BY <5>1, <5>2, <1>4 DEF ReviewOf
      <4> QED BY <4>1, <4>2, <4>3, <4>4
    <3> QED BY <3>1, <3>2
  <2> QED BY <2>1, <2>2, <2>3 DEF ReviewsTell, ReviewPlaced
<1>10. \A x \in Reviews :
         /\ Holds(x)' => Holds(x) /\ HashOf(x)' = HashOf(x)
         /\ reviews'[x].makes = reviews[x].makes
  <2>1. reviews[r].makes = NoId
    BY <1>1 DEF ReviewsTell, ReviewPlaced
  <2>2. \A x \in Reviews : Holds(x) => reviews[x].of \in Suggestions
    BY DEF ReviewsTell, ReviewPlaced, Holds
  <2> QED BY <2>1, <2>2, <1>4, <1>5 DEF Holds, HashOf
<1>11. OneEntryEach'
  <2>1. \A p, x \in Reviews : p # x /\ Holds(p)' /\ Holds(x)' => HashOf(p)' # HashOf(x)'
    BY <1>10 DEF OneEntryEach
  <2>2. ASSUME NEW x \in Reviews, Holds(x)'
        PROVE  \/ LiveEntry(reviews[x].makes) /\ entries[reviews[x].makes].of = HashOf(x)'
               \/ /\ entries[reviews[x].makes].there = "no"
                  /\ \A f \in Entries : LiveEntry(f) => entries[f].of # HashOf(x)'
                  /\ \A p \in Reviews : p # x => reviews[p].makes # reviews[x].makes
    BY <1>10, <2>2 DEF OneEntryEach
  <2> QED BY <1>1, <1>10, <2>1, <2>2 DEF OneEntryEach, LiveEntry
<1>12. EntriesAreMade'
  <2> SUFFICES ASSUME NEW e \in Entries, entries[e].from # NoId
      PROVE /\ entries[e].of = suggestions'[entries[e].from].of
            /\ \E x \in Reviews : /\ reviews'[x].kind = "approve" /\ reviews'[x].of = entries[e].from
                                 /\ reviews'[x].out = "ok" /\ reviews'[x].makes = e
    BY <1>1 DEF EntriesAreMade, Migrated, ReviewOf
  <2>1. PICK x \in Reviews : /\ reviews[x].kind = "approve" /\ reviews[x].of = entries[e].from
                             /\ reviews[x].out = "ok" /\ reviews[x].makes = e
    BY DEF EntriesAreMade, Migrated, ReviewOf
  <2>2. x # r /\ entries[e].from \in Suggestions
    BY <2>1, <1>1 DEF ReviewsTell, ReviewPlaced
  <2> QED BY <2>1, <2>2, <1>4, <1>5 DEF EntriesAreMade
<1> QED BY <1>3, <1>6, <1>9, <1>11, <1>12

-----------------------------------------------------------------------------
(* Entries.                                                                *)

\* e is made, changed or deleted by nobody's review.
EntryGoes(e, new) ==
  /\ entries' = [entries EXCEPT ![e] = new] /\ new \in Entry
  /\ UNCHANGED <<suggestions, reviews, trackerSlips>>
  /\ new.there # "no" /\ (new.edited \/ new.of \in Entries \/ new.says = new.of)
  /\ \/ /\ entries[e].there = "live" /\ new.of = entries[e].of /\ new.from = entries[e].from
        /\ new.there = "live" \/ ~EntryLocked(new.of)
     \/ /\ entries[e].there = "no" /\ new.from = NoId /\ ~EntryLocked(new.of)
        /\ \A r \in Reviews : reviews[r].makes # e
        /\ \A f \in Entries : LiveEntry(f) => entries[f].of # new.of

LEMMA EntryGoesKeeps ==
  ASSUME TrackerInv, NEW e \in Entries, NEW new, EntryGoes(e, new)
  PROVE  TrackerInv'
<1> USE DEF TrackerInv
<1>1. /\ suggestions' = suggestions /\ reviews' = reviews /\ trackerSlips' = trackerSlips
      /\ entries'[e] = new /\ \A f \in Entries \ {e} : entries'[f] = entries[f]
  BY DEF EntryGoes, TrackerOK
<1>2. TrackerOK'
  BY <1>1 DEF EntryGoes, TrackerOK
<1>3. ReviewsTell'
  BY <1>1 DEF ReviewsTell, ReviewOf, Settles
<1>4. ApprovedIsMade'
  <2> SUFFICES ASSUME NEW s \in Suggestions, suggestions[s].review = "approved"
      PROVE /\ suggestions[s].entry # NoId /\ entries'[suggestions[s].entry].there # "no"
            /\ entries'[suggestions[s].entry].of = suggestions[s].of
    BY <1>1 DEF ApprovedIsMade
  <2>1. /\ suggestions[s].entry # NoId /\ entries[suggestions[s].entry].there # "no"
        /\ entries[suggestions[s].entry].of = suggestions[s].of
    BY DEF ApprovedIsMade
  <2>2. suggestions[s].entry \in Entries
    BY <2>1 DEF TrackerOK, Suggestion
  <2>3. CASE suggestions[s].entry = e
    BY <2>1, <2>3, <1>1 DEF EntryGoes
  <2>4. CASE suggestions[s].entry # e
    BY <2>1, <2>2, <2>4, <1>1
  <2> QED BY <2>3, <2>4
<1>5. EntriesAreMade'
  <2> SUFFICES ASSUME NEW f \in Entries
      PROVE /\ entries'[f].there = "no" => entries'[f].from = NoId
            /\ entries'[f].there # "no" /\ ~entries'[f].edited /\ entries'[f].of \notin Entries =>
                 entries'[f].says = entries'[f].of
            /\ entries'[f].from # NoId =>
                 /\ entries'[f].of = suggestions[entries'[f].from].of
                 /\ \E x \in Reviews : /\ reviews[x].kind = "approve" /\ reviews[x].of = entries'[f].from
                                      /\ reviews[x].out = "ok" /\ reviews[x].makes = f
    BY <1>1 DEF EntriesAreMade, Migrated, ReviewOf
  <2>1. CASE f = e
    BY <2>1, <1>1 DEF EntryGoes, EntriesAreMade, Migrated, ReviewOf
  <2>2. CASE f # e
    BY <2>2, <1>1 DEF EntriesAreMade, Migrated, ReviewOf
  <2> QED BY <2>1, <2>2
<1>6. ASSUME NEW x \in Reviews, Holds(x)
      PROVE  EntryLocked(HashOf(x))
  BY <1>6 DEF Holds, HashOf, EntryLocked
<1>7. \A x \in Reviews : HashOf(x)' = HashOf(x) /\ (Holds(x)' => Holds(x))
  BY <1>1 DEF HashOf, Holds
<1>8. OneEntryEach'
  <2>1. \A p, x \in Reviews : p # x /\ Holds(p)' /\ Holds(x)' => HashOf(p)' # HashOf(x)'
    BY <1>7 DEF OneEntryEach
  <2>2. ASSUME NEW f \in Entries, NEW g \in Entries, f # g,
               entries'[f].there = "live", entries'[g].there = "live"
        PROVE  entries'[f].of # entries'[g].of
    <3>1. CASE f # e /\ g # e
      BY <2>2, <3>1, <1>1 DEF OneEntryEach, LiveEntry
    <3>2. ASSUME NEW h \in Entries, h # e, entries[h].there = "live" PROVE entries[h].of # new.of
      BY <3>2 DEF EntryGoes, OneEntryEach, LiveEntry
    <3> QED BY <2>2, <3>1, <3>2, <1>1
  <2>3. ASSUME NEW x \in Reviews, Holds(x)
        PROVE  \/ /\ entries'[reviews[x].makes].there = "live"
                  /\ entries'[reviews[x].makes].of = HashOf(x)
               \/ /\ entries'[reviews[x].makes].there = "no"
                  /\ \A f \in Entries : entries'[f].there = "live" => entries'[f].of # HashOf(x)
                  /\ \A p \in Reviews : p # x => reviews[p].makes # reviews[x].makes
    <3>1. reviews[x].makes \in Entries
      BY <2>3 DEF ReviewsTell, ReviewPlaced, Holds
    <3>2. CASE entries[reviews[x].makes].there = "live" /\ entries[reviews[x].makes].of = HashOf(x)
      <4>1. CASE reviews[x].makes = e
        <5>1. new.of = HashOf(x) /\ EntryLocked(new.of)
          BY <3>2, <4>1, <2>3, <1>6 DEF EntryGoes
        <5>2. new.there = "live"
          BY <5>1 DEF EntryGoes
        <5> QED BY <5>1, <5>2, <4>1, <1>1
      <4>2. CASE reviews[x].makes # e
        BY <3>1, <3>2, <4>2, <1>1
      <4> QED BY <4>1, <4>2
    <3>3. CASE /\ entries[reviews[x].makes].there = "no"
               /\ \A f \in Entries : LiveEntry(f) => entries[f].of # HashOf(x)
               /\ \A p \in Reviews : p # x => reviews[p].makes # reviews[x].makes
      <4>1. reviews[x].makes # e
        BY <3>3 DEF EntryGoes
      <4>2. ASSUME NEW f \in Entries, entries'[f].there = "live" PROVE entries'[f].of # HashOf(x)
        <5>1. CASE f # e
          BY <5>1, <4>2, <3>3, <1>1 DEF LiveEntry
        <5>2. CASE f = e /\ entries[e].there = "live"
          BY <5>2, <3>3, <1>1 DEF LiveEntry, EntryGoes
        <5>3. CASE f = e /\ entries[e].there # "live"
          <6>1. ~EntryLocked(new.of)
            BY <5>3 DEF EntryGoes
          <6> QED BY <6>1, <5>3, <2>3, <1>1, <1>6
        <5> QED BY <5>1, <5>2, <5>3
      <4> QED BY <3>1, <3>3, <4>1, <4>2, <1>1
    <3> QED BY <2>3, <3>2, <3>3 DEF OneEntryEach, LiveEntry
  <2>4. \A x \in Reviews :
          Holds(x)' =>
            \/ /\ entries'[reviews'[x].makes].there = "live"
               /\ entries'[reviews'[x].makes].of = HashOf(x)'
            \/ /\ entries'[reviews'[x].makes].there = "no"
               /\ \A f \in Entries : entries'[f].there = "live" => entries'[f].of # HashOf(x)'
               /\ \A p \in Reviews : p # x => reviews'[p].makes # reviews'[x].makes
    BY <1>1, <1>7, <2>3
  <2> QED BY <2>1, <2>2, <2>4 DEF OneEntryEach, LiveEntry
<1> QED BY <1>2, <1>3, <1>4, <1>5, <1>8

LEMMA EntriesKeep ==
  ASSUME TrackerInv, NEW e \in Entries, NEW c \in Contents,
         CreateEntry(c) \/ UpdateEntry(e, c) \/ DeleteEntry(e)
  PROVE  TrackerInv'
<1>1. entries \in [Entries -> Entry]
  BY DEF TrackerInv, TrackerOK
<1>2. CASE CreateEntry(c)
  <2> DEFINE new == [there |-> "live", of |-> c, says |-> c, edited |-> FALSE, from |-> NoId]
  <2>1. PICK f \in EntryOf(c) : ~LiveEntry(f) /\ entries' = Made(f, c, NoId)
    BY <1>2 DEF CreateEntry
  <2>2. /\ f \in Entries
        /\ \/ LiveEntry(f) /\ entries[f].of = c
           \/ /\ entries[f].there = "no" /\ \A r \in Reviews : reviews[r].makes # f
              /\ \A g \in Entries : LiveEntry(g) => entries[g].of # c
    BY EntryOfIs
  <2>3. entries' = [entries EXCEPT ![f] = new] /\ new \in Entry
    BY <2>1 DEF Made, Entry
  <2>4. EntryGoes(f, new)
    BY <2>1, <2>2, <2>3, <1>2 DEF EntryGoes, CreateEntry
  <2> QED BY <2>2, <2>4, EntryGoesKeeps
<1>3. CASE UpdateEntry(e, c)
  <2> DEFINE new == [entries[e] EXCEPT !.says = c, !.edited = TRUE]
  <2>1. entries' = [entries EXCEPT ![e] = new] /\ new \in Entry /\ entries[e].there = "live"
    BY <1>1, <1>3 DEF UpdateEntry, Entry, LiveEntry
  <2>2. EntryGoes(e, new)
    BY <1>1, <1>3, <2>1 DEF EntryGoes, UpdateEntry, Entry
  <2> QED BY <2>2, EntryGoesKeeps
<1>4. CASE DeleteEntry(e)
  <2> DEFINE new == [entries[e] EXCEPT !.there = "deleted"]
  <2>1. entries' = [entries EXCEPT ![e] = new] /\ new \in Entry /\ entries[e].there = "live"
    BY <1>1, <1>4 DEF DeleteEntry, Entry, LiveEntry
  <2>2. new.edited \/ new.of \in Entries \/ new.says = new.of
    BY <2>1, <1>1 DEF TrackerInv, EntriesAreMade, Migrated, Entry
  <2>3. EntryGoes(e, new)
    BY <1>1, <1>4, <2>1, <2>2 DEF EntryGoes, DeleteEntry, Entry
  <2> QED BY <2>3, EntryGoesKeeps
<1> QED BY <1>2, <1>3, <1>4

-----------------------------------------------------------------------------
(* An approval is committed.                                               *)

LEMMA CommitKeeps ==
  ASSUME TrackerInv, NEW r \in Reviews, Commit(r)
  PROVE  TrackerInv'
<1> USE DEF TrackerInv
<1> DEFINE s == reviews[r].of
           e == reviews[r].makes
           new == [there |-> "live", of |-> suggestions[s].of, says |-> suggestions[s].of,
                   edited |-> FALSE, from |-> s]
           q == [reviews[r] EXCEPT !.pc = "done", !.out = "ok"]
<1>1. /\ reviews[r].pc = "commit" /\ ReviewPlaced(reviews[r]) /\ reviews[r] \in Review /\ Holds(r)
      /\ UNCHANGED trackerSlips
  BY DEF Commit, ReviewsTell, TrackerOK, Holds
<1>2. /\ s \in Suggestions /\ e \in Entries /\ reviews[r].kind = "approve" /\ s # NoId /\ e # NoId
      /\ suggestions[s].review # "none"
  BY <1>1, TrackerAssumption DEF ReviewPlaced, ReviewsTell
<1>3. /\ q \in Review /\ q.pc = "done" /\ q.out = "ok" /\ q.kind = "approve" /\ q.of = s
      /\ q.makes = e /\ q.before = reviews[r].before
  BY <1>1, <1>2 DEF Review
<1>4. /\ reviews' = [reviews EXCEPT ![r] = q]
      /\ suggestions' = [suggestions EXCEPT ![s].review = "approved", ![s].entry = e]
      /\ IF LiveEntry(e) THEN entries' = entries ELSE entries' = [entries EXCEPT ![e] = new]
  BY DEF Commit, ReviewEnds, Made
<1>5. new \in Entry /\ new.there = "live" /\ new.of = suggestions[s].of /\ new.from = s
      /\ new.says = suggestions[s].of
  BY <1>2 DEF Entry, TrackerOK, Suggestion
<1> HIDE DEF q, new
<1>6. /\ suggestions'[s].review = "approved" /\ suggestions'[s].of = suggestions[s].of
      /\ suggestions'[s].entry = e
      /\ \A t \in Suggestions \ {s} : suggestions'[t] = suggestions[t]
      /\ reviews'[r] = q /\ \A x \in Reviews \ {r} : reviews'[x] = reviews[x]
  BY <1>2, <1>4 DEF TrackerOK, Suggestion
<1>7. \A t \in Suggestions : suggestions'[t].of = suggestions[t].of
  BY <1>6
<1>8. TrackerOK'
  BY <1>1, <1>2, <1>3, <1>4, <1>5 DEF TrackerOK, Suggestion
<1>9. \A f \in Entries \ {e} : entries'[f] = entries[f]
  BY <1>4 DEF TrackerOK
<1>10. \/ /\ entries[e].there = "live" /\ entries[e].of = suggestions[s].of /\ entries'[e] = entries[e]
       \/ /\ entries[e].there = "no" /\ entries'[e] = new
          /\ \A f \in Entries : entries[f].there = "live" => entries[f].of # suggestions[s].of
          /\ \A p \in Reviews : p # r => reviews[p].makes # e
  <2>1. \/ LiveEntry(e) /\ entries[e].of = suggestions[s].of
        \/ /\ entries[e].there = "no"
           /\ \A f \in Entries : LiveEntry(f) => entries[f].of # suggestions[s].of
           /\ \A p \in Reviews : p # r => reviews[p].makes # e
    BY <1>1 DEF OneEntryEach, HashOf
  <2>2. LiveEntry(e) => entries'[e] = entries[e]
    BY <1>4
  <2>3. ~LiveEntry(e) => entries'[e] = new
    BY <1>2, <1>4 DEF TrackerOK
  <2>4. LiveEntry(e) <=> entries[e].there = "live"
    BY DEF LiveEntry
  <2> QED BY <2>1, <2>2, <2>3, <2>4 DEF LiveEntry
<1>11. entries'[e].there = "live" /\ entries'[e].of = suggestions[s].of
  BY <1>5, <1>10
<1>12. ApprovedIsMade'
  <2> SUFFICES ASSUME NEW t \in Suggestions, suggestions'[t].review = "approved"
      PROVE /\ suggestions'[t].entry # NoId /\ entries'[suggestions'[t].entry].there # "no"
            /\ entries'[suggestions'[t].entry].of = suggestions'[t].of
    BY DEF ApprovedIsMade
  <2>1. CASE t = s
    BY <2>1, <1>2, <1>6, <1>11
  <2>2. CASE t # s
    <3>1. suggestions'[t] = suggestions[t]
      BY <2>2, <1>6
    <3>2. /\ suggestions[t].entry # NoId /\ entries[suggestions[t].entry].there # "no"
          /\ entries[suggestions[t].entry].of = suggestions[t].of
      BY <3>1 DEF ApprovedIsMade
    <3>3. suggestions[t].entry \in Entries
      BY <3>2 DEF TrackerOK, Suggestion
    <3> QED BY <3>1, <3>2, <3>3, <1>9, <1>10
  <2> QED BY <2>1, <2>2
<1>13. \A b \in Reviews \ {r} : \A t : Settles(b, t)' => Settles(b, t)
  BY <1>6 DEF Settles, ReviewOf
<1>14. \A t : Settles(r, t)' => t = s
  BY <1>3, <1>6 DEF Settles, ReviewOf
<1>15. ReviewsTell'
  <2>1. ASSUME NEW x \in Reviews
        PROVE  /\ ReviewPlaced(reviews'[x])
               /\ reviews'[x].pc # "new" => suggestions'[reviews'[x].of].review # "none"
    <3>1. CASE x = r
      <4>1. ReviewPlaced(q)
        BY <1>2, <1>3 DEF ReviewPlaced
      <4> QED BY <3>1, <4>1, <1>3, <1>6
    <3>2. CASE x # r
      <4>1. /\ reviews'[x] = reviews[x] /\ ReviewPlaced(reviews[x])
            /\ reviews[x].pc # "new" => /\ reviews[x].of \in Suggestions
                                       /\ suggestions[reviews[x].of].review # "none"
        BY <3>2, <1>6 DEF ReviewsTell, ReviewPlaced
      <4> QED BY <4>1, <1>6
    <3> QED BY <3>1, <3>2
  <2>2. ASSUME NEW x \in Reviews, NEW b \in reviews'[x].before
        PROVE  reviews'[b].pc = "done" /\ \A t : t = reviews'[x].of => ~Settles(b, t)'
    <3>1. reviews'[x].before = reviews[x].before /\ reviews'[x].of = reviews[x].of
      BY <1>3, <1>6
    <3>2. b \in Reviews /\ reviews[b].pc = "done" /\ ~Settles(b, reviews[x].of)
      BY <2>2, <3>1 DEF ReviewsTell, TrackerOK, Review
    <3>3. b # r
      BY <3>2, <1>1
    <3>4. reviews'[b].pc = "done"
      BY <3>2, <3>3, <1>6
    <3> QED BY <3>1, <3>2, <3>3, <3>4, <1>13
  <2>3. ASSUME NEW t \in Suggestions
        PROVE  /\ suggestions'[t].review = "pending" => \A x \in Reviews : ~Settles(x, t)'
               /\ suggestions'[t].review # "approved" =>
                    \A x \in Reviews : ReviewOf(x, "approve", t)' => reviews'[x].out # "ok"
               /\ suggestions'[t].review = "approved" =>
                    \E x \in Reviews : ReviewOf(x, "approve", t)' /\ reviews'[x].out = "ok"
    <3>1. CASE t = s
      <4>1. suggestions'[t].review = "approved"
        BY <3>1, <1>6, <1>2
      <4>2. reviews'[r].kind = "approve" /\ reviews'[r].of = t /\ reviews'[r].out = "ok"
        BY <3>1, <1>3, <1>6
      <4>3. \E x \in Reviews : ReviewOf(x, "approve", t)' /\ reviews'[x].out = "ok"
        BY <4>2 DEF ReviewOf
      <4>4. suggestions'[t].review # "pending"
        BY <4>1
      <4> QED BY <4>1, <4>3, <4>4
    <3>2. CASE t # s
      <4>1. suggestions'[t] = suggestions[t]
        BY <3>2, <1>6
      <4>2. suggestions[t].review = "pending" => \A x \in Reviews : ~Settles(x, t)'
        BY <3>2, <1>13, <1>14 DEF ReviewsTell
      <4>3. ASSUME NEW x \in Reviews, suggestions[t].review # "approved", ReviewOf(x, "approve", t)'
            PROVE  reviews'[x].out # "ok"
        <5>1. x # r
          BY <4>3, <3>2, <1>3, <1>6 DEF ReviewOf
        <5>2. ReviewOf(x, "approve", t) /\ reviews'[x] = reviews[x]
          BY <5>1, <4>3, <1>6 DEF ReviewOf
        <5> QED BY <5>2, <4>3 DEF ReviewsTell
      <4>4. ASSUME suggestions[t].review = "approved"
            PROVE  \E x \in Reviews : ReviewOf(x, "approve", t)' /\ reviews'[x].out = "ok"
        <5>1. PICK x \in Reviews : ReviewOf(x, "approve", t) /\ reviews[x].out = "ok"
          BY <4>4 DEF ReviewsTell
        <5>2. x # r
          BY <5>1, <1>1 DEF ReviewPlaced
        <5> QED BY <5>1, <5>2, <1>6 DEF ReviewOf
      <4> QED BY <4>1, <4>2, <4>3, <4>4
    <3> QED BY <3>1, <3>2
  <2> QED BY <2>1, <2>2, <2>3 DEF ReviewsTell, ReviewPlaced
<1>16. /\ ~Holds(r)'
       /\ \A x \in Reviews : /\ Holds(x)' => x # r /\ Holds(x) /\ HashOf(x)' = HashOf(x)
                            /\ reviews'[x].makes = reviews[x].makes
  <2>1. \A x \in Reviews : Holds(x) => reviews[x].of \in Suggestions
    BY DEF ReviewsTell, ReviewPlaced, Holds
  <2> QED BY <2>1, <1>3, <1>6, <1>7 DEF Holds, HashOf
<1>17. OneEntryEach'
  <2>1. \A p, x \in Reviews : p # x /\ Holds(p)' /\ Holds(x)' => HashOf(p)' # HashOf(x)'
    BY <1>16 DEF OneEntryEach
  <2>2. ASSUME NEW f \in Entries, NEW g \in Entries, f # g,
               entries'[f].there = "live", entries'[g].there = "live"
        PROVE  entries'[f].of # entries'[g].of
    <3>1. CASE entries'[e] = entries[e]
      BY <2>2, <3>1, <1>9 DEF OneEntryEach, LiveEntry
    <3>2. CASE \A h \in Entries : entries[h].there = "live" => entries[h].of # suggestions[s].of
      <4>1. CASE f # e /\ g # e
        BY <2>2, <4>1, <1>9 DEF OneEntryEach, LiveEntry
      <4> QED BY <2>2, <3>2, <4>1, <1>9, <1>11
    <3> QED BY <3>1, <3>2, <1>10
  <2>3. ASSUME NEW x \in Reviews, x # r, Holds(x)
        PROVE  \/ /\ entries'[reviews[x].makes].there = "live"
                  /\ entries'[reviews[x].makes].of = HashOf(x)
               \/ /\ entries'[reviews[x].makes].there = "no"
                  /\ \A f \in Entries : entries'[f].there = "live" => entries'[f].of # HashOf(x)
                  /\ \A p \in Reviews : p # x => reviews[p].makes # reviews[x].makes
    <3>1. reviews[x].makes \in Entries
      BY <2>3 DEF ReviewsTell, ReviewPlaced, Holds
    <3>2. HashOf(x) # suggestions[s].of
      BY <2>3, <1>1 DEF OneEntryEach, HashOf
    <3>3. CASE entries[reviews[x].makes].there = "live" /\ entries[reviews[x].makes].of = HashOf(x)
      BY <3>1, <3>2, <3>3, <1>9, <1>10
    <3>4. CASE /\ entries[reviews[x].makes].there = "no"
               /\ \A f \in Entries : LiveEntry(f) => entries[f].of # HashOf(x)
               /\ \A p \in Reviews : p # x => reviews[p].makes # reviews[x].makes
      <4>1. reviews[x].makes # e
        BY <3>4, <2>3
      <4>2. ASSUME NEW f \in Entries, entries'[f].there = "live" PROVE entries'[f].of # HashOf(x)
        <5>1. CASE f # e
          BY <5>1, <4>2, <3>4, <1>9 DEF LiveEntry
        <5>2. CASE f = e
          BY <5>2, <3>2, <1>11
        <5> QED BY <5>1, <5>2
      <4> QED BY <3>1, <3>4, <4>1, <4>2, <1>9
    <3> QED BY <2>3, <3>3, <3>4 DEF OneEntryEach, LiveEntry
  <2>4. \A x \in Reviews :
          Holds(x)' =>
            \/ /\ entries'[reviews'[x].makes].there = "live"
               /\ entries'[reviews'[x].makes].of = HashOf(x)'
            \/ /\ entries'[reviews'[x].makes].there = "no"
               /\ \A f \in Entries : entries'[f].there = "live" => entries'[f].of # HashOf(x)'
               /\ \A p \in Reviews : p # x => reviews'[p].makes # reviews'[x].makes
    BY <1>16, <2>3
  <2> QED BY <2>1, <2>2, <2>4 DEF OneEntryEach, LiveEntry
<1>18. EntriesAreMade'
  <2> SUFFICES ASSUME NEW f \in Entries
      PROVE /\ entries'[f].there = "no" => entries'[f].from = NoId
            /\ entries'[f].there # "no" /\ ~entries'[f].edited /\ entries'[f].of \notin Entries =>
                 entries'[f].says = entries'[f].of
            /\ entries'[f].from # NoId =>
                 /\ entries'[f].of = suggestions'[entries'[f].from].of
                 /\ \E x \in Reviews : /\ reviews'[x].kind = "approve"
                                      /\ reviews'[x].of = entries'[f].from
                                      /\ reviews'[x].out = "ok" /\ reviews'[x].makes = f
    BY DEF EntriesAreMade, Migrated, ReviewOf
  <2>1. CASE f = e /\ entries'[e] = new
    BY <2>1, <1>2, <1>3, <1>5, <1>6
  <2>2. CASE entries'[f] = entries[f]
    <3>1. ASSUME entries[f].from # NoId
          PROVE  /\ entries[f].of = suggestions'[entries[f].from].of
                 /\ \E x \in Reviews : /\ reviews'[x].kind = "approve"
                                      /\ reviews'[x].of = entries[f].from
                                      /\ reviews'[x].out = "ok" /\ reviews'[x].makes = f
      <4>1. PICK x \in Reviews : /\ reviews[x].kind = "approve" /\ reviews[x].of = entries[f].from
                                 /\ reviews[x].out = "ok" /\ reviews[x].makes = f
        BY <3>1 DEF EntriesAreMade, Migrated, ReviewOf
      <4>2. x # r /\ entries[f].from \in Suggestions
        BY <4>1, <1>1 DEF ReviewsTell, ReviewPlaced
      <4>3. entries[f].of = suggestions[entries[f].from].of
        BY <3>1 DEF EntriesAreMade
      <4> QED BY <4>1, <4>2, <4>3, <1>6, <1>7
    <3> QED BY <2>2, <3>1 DEF EntriesAreMade, Migrated
  <2> QED BY <2>1, <2>2, <1>9, <1>10
<1> QED BY <1>8, <1>12, <1>15, <1>17, <1>18

-----------------------------------------------------------------------------

LEMMA TrackerNextKeeps == TrackerInv /\ [TrackerNext]_trackerVars => TrackerInv'
<1> SUFFICES ASSUME TrackerInv, [TrackerNext]_trackerVars PROVE TrackerInv'
  OBVIOUS
<1>1. CASE UNCHANGED trackerVars
  BY <1>1 DEF trackerVars, TrackerInv, TrackerOK, ApprovedIsMade, ReviewsTell, OneEntryEach,
     EntriesAreMade, Migrated, ReviewOf, Settles, Holds, HashOf, LiveEntry
<1>2. ASSUME NEW r \in Reviews, NEW s \in Suggestions, Approve(r, s) \/ Dismiss(r, s)
      PROVE  TrackerInv'
  BY <1>2, ApproveKeeps, DismissKeeps
<1>3. ASSUME NEW r \in Reviews, Enter(r) \/ Mark(r) \/ Commit(r) \/ Rollback(r)
      PROVE  TrackerInv'
  BY <1>3, EnterKeeps, MarkKeeps, CommitKeeps, RollbackKeeps
<1>4. ASSUME NEW s \in Suggestions, NEW c \in Contents, Suggest(s, c)
      PROVE  TrackerInv'
  BY <1>4, SuggestKeeps
<1>5. ASSUME NEW c \in Contents, CreateEntry(c) PROVE TrackerInv'
  <2>1. PICK e \in EntryOf(c) : TRUE
    BY <1>5 DEF CreateEntry
  <2>2. e \in Entries
    BY EntryOfIs
  <2> QED BY <2>2, <1>5, EntriesKeep
<1>6. ASSUME NEW e \in Entries, NEW c \in Contents, UpdateEntry(e, c) PROVE TrackerInv'
  BY <1>6, EntriesKeep
<1>7. ASSUME NEW e \in Entries, DeleteEntry(e) PROVE TrackerInv'
  BY <1>7, EntriesKeep, TrackerAssumption
<1> QED BY <1>1, <1>2, <1>3, <1>4, <1>5, <1>6, <1>7 DEF TrackerNext

\* Where reviews are and what they found, who may make the entry of a hash, and whose
\* approval an entry comes from.
THEOREM TrackerKeeps == TrackerSpec => []TrackerInv
BY InitTrackerInv, TrackerNextKeeps, PTL DEF TrackerSpec

\* Whatever the reviews, rollbacks, edits and deletions: an acknowledged dismissal stands
\* and a suggestion makes one entry, unless approvals overlapped
\* (ApproveTrackerSuggestion, DismissTrackerSuggestion).
THEOREM ReviewsHold == TrackerSpec => []ReviewsStand
<1>1. TrackerInv => ReviewsStand
  <2> SUFFICES ASSUME TrackerInv, NEW s \in Suggestions
      PROVE /\ \A d \in Reviews :
                 ReviewOf(d, "dismiss", s) /\ suggestions[s].review # "dismissed" =>
                   \E a \in Reviews : ReviewOf(a, "approve", s) /\ ReviewsOverlap(a, d)
            /\ \A e, f \in Entries :
                 e # f /\ entries[e].from = s /\ entries[f].from = s =>
                   /\ "deleted" \in {entries[e].there, entries[f].there}
                   /\ \E p, q \in Reviews :
                        ReviewOf(p, "approve", s) /\ ReviewOf(q, "approve", s)
                          /\ ReviewsOverlap(p, q)
    BY DEF ReviewsStand
  <2> USE DEF TrackerInv
  <2>1. ASSUME NEW d \in Reviews, ReviewOf(d, "dismiss", s), suggestions[s].review # "dismissed"
        PROVE  \E a \in Reviews : ReviewOf(a, "approve", s) /\ ReviewsOverlap(a, d)
    <3>1. Settles(d, s) /\ reviews[d].pc # "new" /\ reviews[d].of = s
      BY <2>1 DEF Settles, ReviewOf, ReviewsTell, ReviewPlaced
    <3>2. suggestions[s].review = "approved"
      BY <2>1, <3>1 DEF ReviewsTell, TrackerOK, Suggestion
    <3>3. PICK a \in Reviews : ReviewOf(a, "approve", s) /\ reviews[a].out = "ok"
      BY <3>2 DEF ReviewsTell
    <3>4. Settles(a, s) /\ reviews[a].of = s /\ a # d
      BY <2>1, <3>3 DEF Settles, ReviewOf
    <3>5. a \notin reviews[d].before /\ d \notin reviews[a].before
      BY <3>1, <3>4 DEF ReviewsTell
    <3> QED BY <3>3, <3>4, <3>5 DEF ReviewsOverlap
  <2>2. ASSUME NEW e \in Entries, NEW f \in Entries, e # f,
               entries[e].from = s, entries[f].from = s
        PROVE  /\ "deleted" \in {entries[e].there, entries[f].there}
               /\ \E p, q \in Reviews :
                    ReviewOf(p, "approve", s) /\ ReviewOf(q, "approve", s) /\ ReviewsOverlap(p, q)
    <3>1. s # NoId
      BY TrackerAssumption
    <3>2. /\ entries[e].there \in {"live", "deleted"} /\ entries[f].there \in {"live", "deleted"}
          /\ entries[e].of = suggestions[s].of /\ entries[f].of = suggestions[s].of
      BY <2>2, <3>1 DEF EntriesAreMade, TrackerOK, Entry
    <3>3. ~(entries[e].there = "live" /\ entries[f].there = "live")
      BY <2>2, <3>2 DEF OneEntryEach, LiveEntry
    <3>4. PICK p \in Reviews :
            ReviewOf(p, "approve", s) /\ reviews[p].out = "ok" /\ reviews[p].makes = e
      BY <2>2, <3>1 DEF EntriesAreMade
    <3>5. PICK q \in Reviews :
            ReviewOf(q, "approve", s) /\ reviews[q].out = "ok" /\ reviews[q].makes = f
      BY <2>2, <3>1 DEF EntriesAreMade
    <3>6. Settles(p, s) /\ Settles(q, s) /\ reviews[p].of = s /\ reviews[q].of = s
      BY <3>4, <3>5 DEF Settles, ReviewOf
    <3>7. p # q /\ p \notin reviews[q].before /\ q \notin reviews[p].before
      BY <2>2, <3>4, <3>5, <3>6 DEF ReviewsTell
    <3>8. ReviewsOverlap(p, q)
      BY <3>7 DEF ReviewsOverlap
    <3> QED BY <3>2, <3>3, <3>4, <3>5, <3>8
  <2> QED BY <2>1, <2>2
<1> QED BY <1>1, TrackerKeeps, PTL

\* What was approved is in its entry, and live entries differ, but for edits and for
\* entries older than the hashes (the hash of createTrackerEntryWithExec and its unique index).
THEOREM EntriesSay == TrackerSpec => []EntriesTell
<1>1. TrackerInv => EntriesTell
  <2> SUFFICES ASSUME TrackerInv PROVE EntriesTell
    OBVIOUS
  <2> USE DEF TrackerInv
  <2>1. ASSUME NEW s \in Suggestions, suggestions[s].review = "approved"
        PROVE  \/ entries[suggestions[s].entry].says = suggestions[s].of
               \/ entries[suggestions[s].entry].edited
    <3>1. /\ suggestions[s].entry # NoId /\ entries[suggestions[s].entry].there # "no"
          /\ entries[suggestions[s].entry].of = suggestions[s].of
      BY <2>1 DEF ApprovedIsMade
    <3>2. suggestions[s].entry \in Entries /\ suggestions[s].of \in Contents
      BY <3>1 DEF TrackerOK, Suggestion
    <3>3. ~Migrated(suggestions[s].entry)
      BY <3>1, <3>2, TrackerAssumption DEF Migrated
    <3> QED BY <3>1, <3>2, <3>3 DEF EntriesAreMade
  <2>2. ASSUME NEW e \in Entries, NEW f \in Entries, e # f, LiveEntry(e), LiveEntry(f),
               entries[e].says = entries[f].says,
               ~(\E x \in {e, f} : entries[x].edited \/ Migrated(x))
        PROVE  FALSE
    <3>1. entries[e].of = entries[f].of
      BY <2>2 DEF EntriesAreMade, LiveEntry
    <3> QED BY <2>2, <3>1 DEF OneEntryEach
  <2> QED BY <2>1, <2>2 DEF EntriesTell
<1> QED BY <1>1, TrackerKeeps, PTL

=============================================================================
