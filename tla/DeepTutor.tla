------------------------------ MODULE DeepTutor ------------------------------
(***************************************************************************)
(* What the DeepTutor routes keep in maps of the process: notebooks,       *)
(* questions, learning, books, personas, skills, partners, knowledge bases *)
(* and settings.  Four mutexes guard these maps, each on its own; here is  *)
(* one of them, and a map it guards.                                       *)
(*                                                                         *)
(* The mutex guards the map and not what it leads to.  A request takes a   *)
(* pointer while it holds the mutex, releases it and then encodes the      *)
(* object, field by field, while another one may be changing it.  A field  *)
(* that is read as it is written may come out as neither value; a map in   *)
(* the object that is written in place while somebody iterates over it     *)
(* (mastery levels, metadata, pipeline settings) may end the process.      *)
(*                                                                         *)
(* Nothing is stored: what the process kept ends with it.  Most lists are  *)
(* encoded with the mutex held, for as long as their client takes to read  *)
(* them: the server has no write timeout.                                  *)
(***************************************************************************)
EXTENDS Integers

CONSTANTS
  Visits,
  Names,       \* keys of the map; for the pipeline settings all users share them
  NoVisit,
  Garbled,     \* what a torn string is read as
  MaxRestarts  \* bound on restarts that are not the code's fault

ASSUME TutorAssumption ==
  /\ NoVisit \notin Visits /\ Garbled \notin Visits
  /\ MaxRestarts \in Nat

VARIABLES
  mutex,     \* who holds it
  shelf,     \* the object each name leads to: the visit that made it
  objects,
  visits,
  ends,      \* how often the process has ended
  restarts

tutorVars == <<mutex, shelf, objects, visits, ends, restarts>>

\* Of its fields two are told apart; inPlace, the same for all of a map: the second is
\* itself a map, which updates write into; had: what the two were whenever the mutex was
\* free.
Object ==
  [title : Visits \cup {NoVisit}, body : Visits \cup {NoVisit}, inPlace : BOOLEAN,
   had : SUBSET (Visits \X Visits)]

\* got: what it encodes; to: the new name; era: the process it talks to.
Visit ==
  [pc : {"new", "list", "setTitle", "setBody", "title", "body", "done"},
   kind : {"get", "copy", "list", "create", "update", "rename", "delete"},
   name : Names \cup {NoVisit}, to : Names \cup {NoVisit}, of : Visits \cup {NoVisit},
   got : (Visits \cup {NoVisit, Garbled}) \X (Visits \cup {NoVisit, Garbled}),
   before : SUBSET Visits, era : Nat, out : {"none", "missing", "ok", "failed"}]

TutorInit ==
  /\ mutex = NoVisit
  /\ shelf = [n \in Names |-> NoVisit]
  /\ \E inPlace \in BOOLEAN :
       objects = [o \in Visits |->
         [title |-> NoVisit, body |-> NoVisit, inPlace |-> inPlace, had |-> {}]]
  /\ visits = [v \in Visits |->
       [pc |-> "new", kind |-> "get", name |-> NoVisit, to |-> NoVisit,
        of |-> NoVisit, got |-> <<NoVisit, NoVisit>>,
        before |-> {}, era |-> 0, out |-> "none"]]
  /\ ends = 0 /\ restarts = 0

Writing(o, pc) == \E q \in Visits : visits[q].pc = pc /\ visits[q].of = o
VisitEnds(v, out) == visits' = [visits EXCEPT ![v].pc = "done", ![v].out = out]

\* A request that has the mutex, asks for a name and goes on at pc.
Entered(v, kind, n, pc) ==
  [visits[v] EXCEPT !.pc = pc, !.kind = kind, !.name = n, !.to = n, !.of = shelf[n],
     !.before = {q \in Visits : visits[q].pc = "done"}, !.era = ends,
     !.out = IF pc = "done" THEN "ok" ELSE "none"]

Enters(v) == visits[v].pc = "new" /\ mutex = NoVisit

-----------------------------------------------------------------------------
(* With the mutex.                                                         *)

\* A new object, or another one of that name, in place of what was there; it is encoded
\* as those that are found.
Create(v, n) ==
  /\ Enters(v)
  /\ objects' = [objects EXCEPT ![v].title = v, ![v].body = v, ![v].had = {<<v, v>>}]
  /\ shelf' = [shelf EXCEPT ![n] = v]
  /\ visits' = [visits EXCEPT ![v] = [Entered(v, "create", n, "title") EXCEPT !.of = v]]
  /\ UNCHANGED <<mutex, ends, restarts>>

\* Who asks for a name that is not there has 404.
Missing(v, n) ==
  /\ Enters(v) /\ shelf[n] = NoVisit
  /\ visits' = [visits EXCEPT ![v] = [Entered(v, "get", n, "done") EXCEPT !.out = "missing"]]
  /\ UNCHANGED <<mutex, shelf, objects, ends, restarts>>

Get(v, n) ==
  /\ Enters(v) /\ shelf[n] # NoVisit
  /\ visits' = [visits EXCEPT ![v] = Entered(v, "get", n, "title")]
  /\ UNCHANGED <<mutex, shelf, objects, ends, restarts>>

\* dtKnowledgeList copies the fields; a map among them stays the one of the object.
Copy(v, n) ==
  /\ Enters(v) /\ shelf[n] # NoVisit
  /\ LET o == objects[shelf[n]] IN
       visits' = [visits EXCEPT ![v] =
         [Entered(v, "copy", n, IF o.inPlace THEN "body" ELSE "done")
            EXCEPT !.got = <<o.title, o.body>>]]
  /\ UNCHANGED <<mutex, shelf, objects, ends, restarts>>

\* Requests that hold the object go on with it.
Delete(v, n) ==
  /\ Enters(v)
  /\ shelf' = [shelf EXCEPT ![n] = NoVisit]
  /\ visits' = [visits EXCEPT ![v] = Entered(v, "delete", n, "done")]
  /\ UNCHANGED <<mutex, objects, ends, restarts>>

List(v, n) ==
  /\ Enters(v)
  /\ mutex' = v
  /\ visits' = [visits EXCEPT ![v] = Entered(v, "list", n, "list")]
  /\ UNCHANGED <<shelf, objects, ends, restarts>>

\* The client has read it all, or is gone.
Listed(v) ==
  /\ visits[v].pc = "list"
  /\ mutex' = NoVisit
  /\ VisitEnds(v, "ok")
  /\ UNCHANGED <<shelf, objects, ends, restarts>>

Update(v, n) ==
  /\ Enters(v) /\ shelf[n] # NoVisit
  /\ mutex' = v
  /\ visits' = [visits EXCEPT ![v] = Entered(v, "update", n, "setTitle")]
  /\ UNCHANGED <<shelf, objects, ends, restarts>>

Rename(v, n, to) ==
  /\ Enters(v) /\ shelf[n] # NoVisit /\ to # n
  /\ mutex' = v
  /\ visits' = [visits EXCEPT ![v] = [Entered(v, "rename", n, "setTitle") EXCEPT !.to = to]]
  /\ UNCHANGED <<shelf, objects, ends, restarts>>

\* A field that the request leaves empty is left as it is.
SetTitle(v) ==
  /\ visits[v].pc = "setTitle"
  /\ objects' \in {objects, [objects EXCEPT ![visits[v].of].title = v]}
  /\ visits' = [visits EXCEPT ![v].pc = "setBody"]
  /\ UNCHANGED <<mutex, shelf, ends, restarts>>

\* The last field, the new name, and the mutex is released.
SetBody(v) ==
  /\ visits[v].pc = "setBody"
  /\ LET q == visits[v]  o == objects[q.of] IN
       /\ \E by \in {o.body, v} :
            objects' = [objects EXCEPT ![q.of].body = by,
                                       ![q.of].had = @ \cup {<<o.title, by>>}]
       /\ shelf' = IF q.to = q.name THEN shelf
                   ELSE [shelf EXCEPT ![q.name] = NoVisit, ![q.to] = q.of]
  /\ mutex' = NoVisit
  /\ visits' = [visits EXCEPT ![v].pc = "title"]
  /\ UNCHANGED <<ends, restarts>>

-----------------------------------------------------------------------------
(* Without it: writeJSON.                                                  *)

EncodeTitle(v) ==
  /\ visits[v].pc = "title"
  /\ LET o == visits[v].of IN
       \E read \in {objects[o].title} \cup IF Writing(o, "setTitle") THEN {Garbled} ELSE {} :
         visits' = [visits EXCEPT ![v].pc = "body", ![v].got = <<read, NoVisit>>]
  /\ UNCHANGED <<mutex, shelf, objects, ends, restarts>>

EncodeBody(v) ==
  /\ visits[v].pc = "body"
  /\ LET o == visits[v].of IN
       \E read \in {objects[o].body} \cup IF Writing(o, "setBody") THEN {Garbled} ELSE {} :
         visits' = [visits EXCEPT ![v].pc = "done", ![v].out = "ok", ![v].got[2] = read]
  /\ UNCHANGED <<mutex, shelf, objects, ends, restarts>>

\* The process ends, with all its requests, and begins again.
ProcessEnds ==
  /\ mutex' = NoVisit
  /\ shelf' = [n \in Names |-> NoVisit]
  /\ visits' = [v \in Visits |->
       IF visits[v].pc \in {"new", "done"} THEN visits[v]
       ELSE [visits[v] EXCEPT !.pc = "done", !.out = "failed"]]
  /\ ends' = ends + 1
  /\ UNCHANGED objects

\* fatal error: concurrent map iteration and map write.
Die ==
  /\ \E v \in Visits : LET o == visits[v].of IN
       visits[v].pc = "body" /\ objects[o].inPlace /\ Writing(o, "setBody")
  /\ ProcessEnds
  /\ UNCHANGED restarts

RestartTutor ==
  /\ restarts < MaxRestarts /\ restarts' = restarts + 1
  /\ ProcessEnds

TutorNext ==
  \/ \E v \in Visits :
       \/ \E n \in Names :
            \/ Create(v, n) \/ Get(v, n) \/ Copy(v, n) \/ Delete(v, n) \/ List(v, n)
            \/ Update(v, n) \/ Missing(v, n)
            \/ \E to \in Names : Rename(v, n, to)
       \/ Listed(v) \/ SetTitle(v) \/ SetBody(v) \/ EncodeTitle(v) \/ EncodeBody(v)
  \/ Die \/ RestartTutor

TutorSpec == TutorInit /\ [][TutorNext]_tutorVars

-----------------------------------------------------------------------------

VisitsOverlap(p, q) ==
  p # q /\ visits[q].pc # "new" /\ p \notin visits[q].before /\ q \notin visits[p].before
Changes(q) == visits[q].kind \in {"update", "rename"}

\* An answer is the object as it was at some time, deleted or not, unless an update of it
\* overlapped.
AnswersAreWhole ==
  \A v \in Visits :
    visits[v].out = "ok" /\ visits[v].kind \notin {"list", "delete"} =>
      \/ visits[v].got \in objects[visits[v].of].had
      \/ \E q \in Visits : Changes(q) /\ visits[q].of = visits[v].of /\ VisitsOverlap(v, q)

\* What was made or renamed to a name is found by it until it is deleted or renamed, or
\* the process ends.
MadeIsFound ==
  \A v \in Visits : \A c \in visits[v].before :
    /\ visits[v].out = "missing" /\ visits[v].era = visits[c].era
    /\ visits[c].out = "ok"
    /\ visits[c].kind \in {"create", "rename"} /\ visits[c].to = visits[v].name
    => \E q \in Visits :
         /\ visits[q].kind \in {"delete", "rename"} /\ visits[q].name = visits[v].name
         /\ visits[q].pc # "new" /\ q \notin visits[c].before /\ v \notin visits[q].before

\* Only who writes has the mutex while it does, or lists.
MutexIsHeld ==
  \A v \in Visits : visits[v].pc \in {"list", "setTitle", "setBody"} => mutex = v

TutorOK ==
  /\ mutex \in Visits \cup {NoVisit}
  /\ shelf \in [Names -> Visits \cup {NoVisit}]
  /\ objects \in [Visits -> Object]
  /\ visits \in [Visits -> Visit]
  /\ ends \in Nat /\ restarts \in 0..MaxRestarts

TutorInv == TutorOK /\ MutexIsHeld /\ AnswersAreWhole /\ MadeIsFound

=============================================================================
