------------------------------ MODULE Tracker ------------------------------
(***************************************************************************)
(* The tracker of one user: entries, and the suggestions that are drawn    *)
(* from chats (extractTrackersAsync) and then approved or dismissed.       *)
(*                                                                         *)
(* An entry is known by the hash of what it said when it was made; one     *)
(* that is not deleted is the only one with its hash (a unique index), and *)
(* making it again only renews it.  An edit changes what it says and not   *)
(* the hash.  So it is with pending suggestions, which nothing edits.      *)
(* Entries from before the hashes were given one by a migration, another   *)
(* than that of anything said since.                                       *)
(*                                                                         *)
(* ApproveTrackerSuggestion is a transaction of three statements at READ   *)
(* COMMITTED: it reads the pending suggestion, without a lock, makes the   *)
(* entry and marks the suggestion.  What it writes it keeps locked and     *)
(* nobody sees it until the commit, so here it is done at the commit; who  *)
(* wants to write the same waits.  Everything else is one statement.       *)
(***************************************************************************)
EXTENDS Integers, FiniteSets

CONSTANTS
  Reviews,         \* requests of the user
  Suggestions,     \* ids
  Entries,         \* ids
  OldEntries,      \* those of them that may be older than the hashes
  NoId,
  Contents,        \* module, title, amount, category and detail: what the hash is of
  MaxTrackerSlips  \* bound on failing statements and hang-ups

ASSUME TrackerAssumption ==
  /\ NoId \notin Suggestions \cup Entries /\ Contents # {}
  /\ OldEntries \subseteq Entries /\ Entries \cap Contents = {}
  /\ MaxTrackerSlips \in Nat

VARIABLES suggestions, entries, reviews, trackerSlips
trackerVars == <<suggestions, entries, reviews, trackerSlips>>

\* of: what the content_hash was made of.
Suggestion ==
  [review : {"none", "pending", "approved", "dismissed"}, of : Contents,
   entry : Entries \cup {NoId}]

\* of: as above, or the entry itself if the migration made the hash; from: the suggestion
\* whose approval made the entry; edited: it says something else by now.
Entry ==
  [there : {"no", "live", "deleted"}, of : Contents \cup Entries, says : Contents, edited : BOOLEAN,
   from : Suggestions \cup {NoId}]

\* makes: the entry its transaction has made or renewed; before: who was over when it began.
Review ==
  [pc : {"new", "enter", "mark", "commit", "done"}, kind : {"approve", "dismiss", "other"},
   of : Suggestions \cup {NoId}, makes : Entries \cup {NoId}, before : SUBSET Reviews,
   out : {"none", "ok", "failed"}]

NoEntry ==
  [there |-> "no", of |-> CHOOSE c \in Contents : TRUE, says |-> CHOOSE c \in Contents : TRUE,
   edited |-> FALSE, from |-> NoId]

\* Older than the hashes; several of them may say the same.
OldEntry(e, c) == [there |-> "live", of |-> e, says |-> c, edited |-> FALSE, from |-> NoId]

TrackerInit ==
  /\ suggestions = [s \in Suggestions |->
       [review |-> "none", of |-> CHOOSE c \in Contents : TRUE, entry |-> NoId]]
  /\ \E old \in SUBSET OldEntries : \E text \in [old -> Contents] :
       entries = [e \in Entries |-> IF e \in old THEN OldEntry(e, text[e]) ELSE NoEntry]
  /\ reviews = [r \in Reviews |->
       [pc |-> "new", kind |-> "other", of |-> NoId, makes |-> NoId, before |-> {}, out |-> "none"]]
  /\ trackerSlips = 0

Pending(s) == suggestions[s].review = "pending"
LiveEntry(e) == entries[e].there = "live"
Migrated(e) == entries[e].of \in Entries
ReviewEnds(r, out) == reviews' = [reviews EXCEPT ![r].pc = "done", ![r].out = out]

\* A transaction has the entry, or the suggestion, and has not committed.
EntryLocked(c) ==
  \E r \in Reviews : reviews[r].pc \in {"mark", "commit"} /\ suggestions[reviews[r].of].of = c
SuggestionLocked(s) == \E r \in Reviews : reviews[r].pc = "commit" /\ reviews[r].of = s

\* Variant: the hash is not asked for.
EntryAnew(c) ==
  {e \in Entries : entries[e].there = "no" /\ \A r \in Reviews : reviews[r].makes # e}

\* INSERT ... ON CONFLICT: the live entry of this content, or the next id.
EntryOf(c) ==
  LET known == {e \in Entries : LiveEntry(e) /\ entries[e].of = c}
      unused == {e \in Entries : entries[e].there = "no" /\ \A r \in Reviews : reviews[r].makes # e}
  IN IF known # {} THEN known ELSE unused

Made(e, c, s) ==
  IF LiveEntry(e) THEN entries
  ELSE [entries EXCEPT ![e] = [there |-> "live", of |-> c, says |-> c, edited |-> FALSE, from |-> s]]

-----------------------------------------------------------------------------
(* Suggestions.                                                            *)

\* CreateTrackerSuggestion: one that is pending already is left as it is.
Suggest(s, c) ==
  /\ suggestions[s].review = "none"
  /\ ~\E t \in Suggestions : Pending(t) /\ suggestions[t].of = c
  /\ suggestions' = [suggestions EXCEPT ![s] = [review |-> "pending", of |-> c, entry |-> NoId]]
  /\ UNCHANGED <<entries, reviews, trackerSlips>>

ReviewBegins(r, kind, s, pc, out) ==
  reviews' = [reviews EXCEPT ![r] =
    [pc |-> pc, kind |-> kind, of |-> s, makes |-> NoId,
     before |-> {q \in Reviews : reviews[q].pc = "done"}, out |-> out]]

\* Variant: whatever has become of the suggestion.
ApproveAny(r, s) ==
  /\ reviews[r].pc = "new" /\ suggestions[s].review # "none"
  /\ ReviewBegins(r, "approve", s, "enter", "none")
  /\ UNCHANGED <<suggestions, entries, trackerSlips>>

\* SELECT ... review_status = 'pending'; who finds none has 404 and is left out.
Approve(r, s) ==
  /\ reviews[r].pc = "new" /\ Pending(s)
  /\ ReviewBegins(r, "approve", s, "enter", "none")
  /\ UNCHANGED <<suggestions, entries, trackerSlips>>

\* createTrackerEntryWithExec, in the transaction.
Enter(r) ==
  /\ reviews[r].pc = "enter"
  /\ LET c == suggestions[reviews[r].of].of IN
       /\ ~EntryLocked(c)
       /\ \E e \in EntryOf(c) :
            reviews' = [reviews EXCEPT ![r].pc = "mark", ![r].makes = e]
  /\ UNCHANGED <<suggestions, entries, trackerSlips>>

\* UPDATE ... WHERE id = $1: whatever has become of the suggestion.
Mark(r) ==
  /\ reviews[r].pc = "mark" /\ ~SuggestionLocked(reviews[r].of)
  /\ reviews' = [reviews EXCEPT ![r].pc = "commit"]
  /\ UNCHANGED <<suggestions, entries, trackerSlips>>

Commit(r) ==
  /\ reviews[r].pc = "commit"
  /\ LET s == reviews[r].of IN
       /\ entries' = Made(reviews[r].makes, suggestions[s].of, s)
       /\ suggestions' = [suggestions EXCEPT
            ![s].review = "approved", ![s].entry = reviews[r].makes]
  /\ ReviewEnds(r, "ok")
  /\ UNCHANGED trackerSlips

\* A statement fails or the client hangs up: the transaction is rolled back.
Rollback(r) ==
  /\ reviews[r].pc \in {"enter", "mark", "commit"}
  /\ trackerSlips < MaxTrackerSlips
  /\ trackerSlips' = trackerSlips + 1
  /\ reviews' = [reviews EXCEPT ![r].pc = "done", ![r].makes = NoId, ![r].out = "failed"]
  /\ UNCHANGED <<suggestions, entries>>

Dismiss(r, s) ==
  /\ reviews[r].pc = "new" /\ Pending(s) /\ ~SuggestionLocked(s)
  /\ suggestions' = [suggestions EXCEPT ![s].review = "dismissed"]
  /\ ReviewBegins(r, "dismiss", s, "done", "ok")
  /\ UNCHANGED <<entries, trackerSlips>>

-----------------------------------------------------------------------------
(* Entries.                                                                *)

\* CreateTrackerEntry; one that is there is only renewed.
CreateEntry(c) ==
  /\ ~EntryLocked(c)
  /\ \E e \in EntryOf(c) : ~LiveEntry(e) /\ entries' = Made(e, c, NoId)
  /\ UNCHANGED <<suggestions, reviews, trackerSlips>>

UpdateEntry(e, c) ==
  /\ LiveEntry(e) /\ entries[e].says # c /\ ~EntryLocked(entries[e].of)
  /\ entries' = [entries EXCEPT ![e].says = c, ![e].edited = TRUE]
  /\ UNCHANGED <<suggestions, reviews, trackerSlips>>

DeleteEntry(e) ==
  /\ LiveEntry(e) /\ ~EntryLocked(entries[e].of)
  /\ entries' = [entries EXCEPT ![e].there = "deleted"]
  /\ UNCHANGED <<suggestions, reviews, trackerSlips>>

TrackerNext ==
  \/ \E r \in Reviews :
       \/ \E s \in Suggestions : Approve(r, s) \/ Dismiss(r, s)
       \/ Enter(r) \/ Mark(r) \/ Commit(r) \/ Rollback(r)
  \/ \E s \in Suggestions, c \in Contents : Suggest(s, c)
  \/ \E c \in Contents : CreateEntry(c)
  \/ \E e \in Entries : DeleteEntry(e) \/ \E c \in Contents : UpdateEntry(e, c)

TrackerSpec == TrackerInit /\ [][TrackerNext]_trackerVars

-----------------------------------------------------------------------------

ReviewsOverlap(p, q) == p # q /\ p \notin reviews[q].before /\ q \notin reviews[p].before
ReviewOf(r, kind, s) == reviews[r].kind = kind /\ reviews[r].of = s

\* A dismissal that was acknowledged stands, and one suggestion makes one entry, unless
\* approvals overlap: with the dismissal, or with each other around a deletion.
ReviewsStand ==
  \A s \in Suggestions :
    /\ \A d \in Reviews :
         ReviewOf(d, "dismiss", s) /\ suggestions[s].review # "dismissed" =>
           \E a \in Reviews : ReviewOf(a, "approve", s) /\ ReviewsOverlap(a, d)
    /\ \A e, f \in Entries :
         e # f /\ entries[e].from = s /\ entries[f].from = s =>
           /\ "deleted" \in {entries[e].there, entries[f].there}
           /\ \E p, q \in Reviews :
                ReviewOf(p, "approve", s) /\ ReviewOf(q, "approve", s) /\ ReviewsOverlap(p, q)

\* What was approved is in its entry, and no two live entries say the same, but for
\* entries that were edited or are older than the hashes.
EntriesTell ==
  /\ \A s \in Suggestions :
       suggestions[s].review = "approved" =>
         \/ entries[suggestions[s].entry].says = suggestions[s].of
         \/ entries[suggestions[s].entry].edited
  /\ \A e, f \in Entries :
       e # f /\ LiveEntry(e) /\ LiveEntry(f) /\ entries[e].says = entries[f].says =>
         \E x \in {e, f} : entries[x].edited \/ Migrated(x)

TrackerOK ==
  /\ suggestions \in [Suggestions -> Suggestion]
  /\ entries \in [Entries -> Entry]
  /\ reviews \in [Reviews -> Review]
  /\ trackerSlips \in 0..MaxTrackerSlips

\* An approved suggestion has the entry it names, of its own hash.
ApprovedIsMade ==
  \A s \in Suggestions :
    suggestions[s].review = "approved" =>
      /\ suggestions[s].entry # NoId /\ entries[suggestions[s].entry].there # "no"
      /\ entries[suggestions[s].entry].of = suggestions[s].of

\* Where a review can be, and what it has there.
ReviewPlaced(q) ==
  /\ q.pc = "new" => q.kind = "other" /\ q.before = {}
  /\ q.pc # "new" => q.kind \in {"approve", "dismiss"} /\ q.of \in Suggestions
  /\ q.pc # "done" => q.out = "none"
  /\ q.kind = "dismiss" => q.pc = "done"
  /\ q.pc \in {"new", "enter"} \/ q.kind = "dismiss" => q.makes = NoId
  /\ q.pc \in {"mark", "commit"} \/ (q.kind = "approve" /\ q.out = "ok") => q.makes \in Entries

\* A suggestion is as its reviews left it, and a review that began after one that was
\* over and settled it would not have found it pending.
Settles(b, s) ==
  ReviewOf(b, "dismiss", s) \/ (ReviewOf(b, "approve", s) /\ reviews[b].out = "ok")

ReviewsTell ==
  /\ \A r \in Reviews :
       /\ ReviewPlaced(reviews[r])
       /\ reviews[r].pc # "new" => suggestions[reviews[r].of].review # "none"
       /\ \A b \in reviews[r].before :
            reviews[b].pc = "done" /\ ~Settles(b, reviews[r].of)
  /\ \A s \in Suggestions :
       /\ suggestions[s].review = "pending" => \A r \in Reviews : ~Settles(r, s)
       /\ suggestions[s].review # "approved" =>
            \A r \in Reviews : ReviewOf(r, "approve", s) => reviews[r].out # "ok"
       /\ suggestions[s].review = "approved" =>
            \E r \in Reviews : ReviewOf(r, "approve", s) /\ reviews[r].out = "ok"

\* One transaction has a hash, and the entry that it made will be the only one with it.
Holds(r) == reviews[r].pc \in {"mark", "commit"}
HashOf(r) == suggestions[reviews[r].of].of

OneEntryEach ==
  /\ \A p, q \in Reviews : p # q /\ Holds(p) /\ Holds(q) => HashOf(p) # HashOf(q)
  /\ \A e, f \in Entries :
       e # f /\ LiveEntry(e) /\ LiveEntry(f) => entries[e].of # entries[f].of
  /\ \A r \in Reviews :
       Holds(r) =>
         \/ LiveEntry(reviews[r].makes) /\ entries[reviews[r].makes].of = HashOf(r)
         \/ /\ entries[reviews[r].makes].there = "no"
            /\ \A f \in Entries : LiveEntry(f) => entries[f].of # HashOf(r)
            /\ \A q \in Reviews : q # r => reviews[q].makes # reviews[r].makes

\* An entry from a suggestion is that of an approval, and has its hash.
EntriesAreMade ==
  \A e \in Entries :
    /\ entries[e].there = "no" => entries[e].from = NoId
    /\ entries[e].there # "no" /\ ~entries[e].edited /\ ~Migrated(e) =>
         entries[e].says = entries[e].of
    /\ entries[e].from # NoId =>
         /\ entries[e].of = suggestions[entries[e].from].of
         /\ \E r \in Reviews : /\ ReviewOf(r, "approve", entries[e].from)
                              /\ reviews[r].out = "ok" /\ reviews[r].makes = e

TrackerInv ==
  TrackerOK /\ ApprovedIsMade /\ ReviewsTell /\ OneEntryEach /\ EntriesAreMade

=============================================================================
