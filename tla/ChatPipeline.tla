---------------------------- MODULE ChatPipeline ----------------------------
(***************************************************************************)
(* Conversations: rows of conversations, one file of messages each, and    *)
(* the requests that read the whole file, work on the list and write the   *)
(* whole file back: chatStream and processWhatsAppMessage (an AI call lies *)
(* between their two writes), the reads that import legacy rows, the       *)
(* DeepTutor routes that remove a message or replace a document, and the   *)
(* deletion of the row and then the file.  Nothing serialises them.        *)
(*                                                                         *)
(* LocalCloudStorage.SaveMessages writes <id>.json.tmp with os.WriteFile   *)
(* (open with O_TRUNC, then write) and renames it.  Every save of a        *)
(* conversation uses that one name, so two of them may write one inode: an *)
(* open file is followed through the renames (fd).                         *)
(*                                                                         *)
(* A message is who wrote it for which request; texts, previews and models *)
(* are left out, as is what Usage counts.  The WhatsApp handler finds or   *)
(* makes its row in one statement and is otherwise a chat.                 *)
(***************************************************************************)
EXTENDS Integers, Sequences, FiniteSets, SequencesExt

CONSTANTS
  Requests,
  NoRequest,   \* the author of messages older than the files
  Convs,
  MaxSlips     \* bound on failing statements, hang-ups and crashes

ASSUME ChatAssumption ==
  /\ NoRequest \notin Requests
  /\ Convs # {}
  /\ MaxSlips \in Nat

VARIABLES
  row,     \* conversations
  file,    \* <id>.json
  tmp,     \* <id>.json.tmp
  images,  \* the requests whose image is in storage/uploads
  req,     \* the requests
  slips

vars == <<row, file, tmp, images, req, slips>>

Message == (Requests \cup {NoRequest}) \X {"user", "assistant"}
OldMessage == <<NoRequest, "user">>
LegacyRows == <<OldMessage>>

\* "cut": opened and not, or not wholly, written; "torn": two lists in one file.
Content == [is : {"absent", "cut", "torn", "whole"}, list : Seq(Message)]
Absent == [is |-> "absent", list |-> <<>>]
Cut == [is |-> "cut", list |-> <<>>]
Torn == [is |-> "torn", list |-> <<>>]
Whole(list) == [is |-> "whole", list |-> list]

\* legacy: rows of conversation_messages go with it.
Row == [there : {"no", "live", "gone"}, count : Nat, legacy : BOOLEAN,
        title : Requests \cup {NoRequest}, pinned : Requests \cup {NoRequest}]

\* Every chat carries an image (one without is one whose saveChatImages does nothing);
\* "replace" saves a Co-Writer document or an import, "open" only reads.
Writers == {"chat", "open", "edit", "replace"}
Kinds == Writers \cup {"delete", "title", "pin"}

\* seen: the row as it was read; list: the messages the request holds; fd: where
\* the file it has open is now; next: what follows its save; cut: what it removes.
Request ==
  [pc : {"new", "find", "read", "legacy", "images", "open", "write", "rename", "loaded",
         "asked", "asking", "answered", "edited", "set", "remove", "done"},
   kind : Kinds, conv : Convs, before : SUBSET Requests, seen : Row, list : Seq(Message),
   fd : {"tmp", "file", "gone"}, next : {"loaded", "asked", "answered", "edited"},
   cut : Message, out : {"none", "ok", "uncounted", "kept", "failed"}]

Fresh(there) ==
  [there |-> there, count |-> 0, legacy |-> FALSE, title |-> NoRequest, pinned |-> NoRequest]
Unseen == Fresh("no")
Aged == [Fresh("live") EXCEPT !.count = Len(LegacyRows), !.legacy = TRUE]

Init ==
  /\ row \in [Convs -> {Unseen, Aged}]
  /\ file = [c \in Convs |-> Absent]
  /\ tmp = [c \in Convs |-> Absent]
  /\ images = {}
  /\ req = [r \in Requests |->
               [pc |-> "new", kind |-> "open", conv |-> CHOOSE c \in Convs : TRUE,
                before |-> {}, seen |-> Unseen, list |-> <<>>, fd |-> "gone",
                next |-> "loaded", cut |-> OldMessage, out |-> "none"]]
  /\ slips = 0

Conv(r) == req[r].conv
Live(r) == row[Conv(r)].there = "live"
InFlight(r) == req[r].pc \notin {"new", "done"}
Done(r) == req[r].pc = "done"
Slip == slips < MaxSlips /\ slips' = slips + 1
Goto(r, pc) == req' = [req EXCEPT ![r].pc = pc]

\* A request that is over forgets what it held.
Over(q, out) ==
  [q EXCEPT !.pc = "done", !.out = out, !.list = <<>>, !.seen = Unseen, !.fd = "gone",
            !.next = "loaded"]
End(r, out) == req' = [req EXCEPT ![r] = Over(@, out)]

-----------------------------------------------------------------------------
(* Beginning: the row.  A request that finds none ends there, and is left out.     *)

Started(r, kind, c) ==
  [req[r] EXCEPT !.kind = kind, !.conv = c, !.before = {q \in Requests : Done(q)}]

\* Variant: what the row says is not read.
FoundUnread(q, r) ==
  IF q.kind = "replace"
  THEN [q EXCEPT !.pc = "open", !.list = <<<<r, "assistant">>>>, !.next = "edited"]
  ELSE [q EXCEPT !.pc = IF q.kind \in {"title", "pin"} THEN "set" ELSE "read"]

\* GetConversationByID has found the row of q; a Co-Writer document is saved without
\* reading the old one.
Found(q, r) ==
  IF q.kind = "replace"
  THEN [q EXCEPT !.pc = "open", !.list = <<<<r, "assistant">>>>, !.next = "edited"]
  ELSE [q EXCEPT !.pc = IF q.kind \in {"title", "pin"} THEN "set" ELSE "read",
                 !.seen = row[q.conv]]

\* Variant: the row is not looked for.
StartAnyway(r, kind, c) ==
  /\ req[r].pc = "new" /\ row[c].there # "no"
  /\ req' = [req EXCEPT ![r] = Found(Started(r, kind, c), r)]
  /\ UNCHANGED <<row, file, tmp, images, slips>>

Start(r, kind, c) ==
  /\ req[r].pc = "new" /\ row[c].there = "live"
  /\ req' = [req EXCEPT ![r] = Found(Started(r, kind, c), r)]
  /\ UNCHANGED <<row, file, tmp, images, slips>>

\* A chat, a document or an import that makes its conversation, and then finds it.
Create(r, kind, c) ==
  /\ req[r].pc = "new" /\ row[c].there = "no"
  /\ row' = [row EXCEPT ![c] = Fresh("live")]
  /\ req' = [req EXCEPT ![r] = [Started(r, kind, c) EXCEPT !.pc = "find"]]
  /\ UNCHANGED <<file, tmp, images, slips>>

Find(r) ==
  /\ req[r].pc = "find" /\ Live(r)
  /\ req' = [req EXCEPT ![r] = Found(@, r)]
  /\ UNCHANGED <<row, file, tmp, images, slips>>

FindFails(r) ==
  /\ req[r].pc = "find" /\ ~Live(r)
  /\ End(r, "failed")
  /\ UNCHANGED <<row, file, tmp, images, slips>>

-----------------------------------------------------------------------------
(* loadConversationMessages, and what each request does with the list.     *)

\* An edit of a message that is not there fails.
Use(r, list) ==
  \/ req[r].kind = "open" /\ End(r, "ok")
  \/ /\ req[r].kind = "edit"
     /\ IF list = <<>> THEN End(r, "failed")
        ELSE \E i \in 1..Len(list) :
               req' = [req EXCEPT ![r].pc = "open", ![r].list = RemoveAt(list, i),
                                  ![r].seen = Unseen, ![r].next = "edited", ![r].cut = list[i]]
  \/ /\ req[r].kind = "chat"
     /\ req' = [req EXCEPT ![r].pc = "images", ![r].seen = Unseen, ![r].list = list]

\* A missing file is an empty conversation, a row that counts messages has them
\* in the legacy table.
WantsLegacy(r) == file[Conv(r)].list = <<>> /\ req[r].seen.count > 0

Read(r) ==
  /\ req[r].pc = "read"
  /\ file[Conv(r)].is \in {"absent", "whole"}
  /\ IF WantsLegacy(r) THEN Goto(r, "legacy") ELSE Use(r, file[Conv(r)].list)
  /\ UNCHANGED <<row, file, tmp, images, slips>>

\* The JSON does not parse.
ReadFails(r) ==
  /\ req[r].pc = "read"
  /\ file[Conv(r)].is \notin {"absent", "whole"}
  /\ End(r, "failed")
  /\ UNCHANGED <<row, file, tmp, images, slips>>

\* ListLegacyConversationMessages; what it finds is saved as the file.
ReadLegacy(r) ==
  /\ req[r].pc = "legacy"
  /\ IF ~Live(r) THEN End(r, "failed")
     ELSE IF row[Conv(r)].legacy
     THEN req' = [req EXCEPT ![r].pc = "open", ![r].list = LegacyRows, ![r].next = "loaded"]
     ELSE Use(r, <<>>)
  /\ UNCHANGED <<row, file, tmp, images, slips>>

\* The legacy rows are saved.
Loaded(r) ==
  /\ req[r].pc = "loaded"
  /\ Use(r, req[r].list)
  /\ UNCHANGED <<row, file, tmp, images, slips>>

\* saveChatImages, then the message that names them.
SaveImages(r) ==
  /\ req[r].pc = "images"
  /\ images' = images \cup {r}
  /\ req' = [req EXCEPT ![r].pc = "open", ![r].next = "asked", ![r].list = Append(@, <<r, "user">>)]
  /\ UNCHANGED <<row, file, tmp, slips>>

\* An image is refused, and those before it stay in storage.
RefuseImages(r) ==
  /\ req[r].pc = "images"
  /\ images' \in {images, images \cup {r}}
  /\ End(r, "failed")
  /\ UNCHANGED <<row, file, tmp, slips>>

-----------------------------------------------------------------------------
(* SaveMessages.                                                           *)

\* Variant: a temporary file that is there is not cut.
OpenKeeps(r) ==
  /\ req[r].pc = "open"
  /\ tmp' = [tmp EXCEPT ![Conv(r)] = IF @.is = "absent" THEN Cut ELSE @]
  /\ req' = [req EXCEPT ![r].pc = "write", ![r].fd = "tmp"]
  /\ UNCHANGED <<row, file, images, slips>>

\* os.WriteFile opens: the file that has the name is cut.
Open(r) ==
  /\ req[r].pc = "open"
  /\ tmp' = [tmp EXCEPT ![Conv(r)] = Cut]
  /\ req' = [req EXCEPT ![r].pc = "write", ![r].fd = "tmp"]
  /\ UNCHANGED <<row, file, images, slips>>

\* A list written over another from the start of the file: a longer one covers it, a
\* shorter one leaves its tail, and of two others nobody knows.
Overwritten(old, list) ==
  CASE old.is = "torn" -> {Torn, Whole(list)}
    [] old.is = "whole" /\ IsPrefix(old.list, list) -> {Whole(list)}
    [] old.is = "whole" /\ IsStrictPrefix(list, old.list) -> {Torn}
    [] old.is = "whole" /\ ~IsPrefix(old.list, list) /\ ~IsPrefix(list, old.list) ->
         {Torn, Whole(list)}
    [] OTHER -> {Whole(list)}

\* os.WriteFile writes and closes, wherever the file it opened is by now.
Write(r) ==
  /\ req[r].pc = "write"
  /\ LET c == Conv(r) IN
       \/ /\ req[r].fd = "tmp"
          /\ \E new \in Overwritten(tmp[c], req[r].list) : tmp' = [tmp EXCEPT ![c] = new]
          /\ UNCHANGED file
       \/ /\ req[r].fd = "file"
          /\ \E new \in Overwritten(file[c], req[r].list) : file' = [file EXCEPT ![c] = new]
          /\ UNCHANGED tmp
       \/ req[r].fd = "gone" /\ UNCHANGED <<file, tmp>>
  /\ Goto(r, "rename")
  /\ UNCHANGED <<row, images, slips>>

\* The open files of the others move along with a rename, or lose their name.
Moved(q, c) ==
  IF q.conv # c \/ q.pc # "write" THEN q
  ELSE [q EXCEPT !.fd = IF @ = "tmp" THEN "file" ELSE "gone"]

Rename(r) ==
  /\ req[r].pc = "rename"
  /\ tmp[Conv(r)].is # "absent"
  /\ LET c == Conv(r) IN
       /\ file' = [file EXCEPT ![c] = tmp[c]]
       /\ tmp' = [tmp EXCEPT ![c] = Absent]
       /\ req' = [q \in Requests |->
                    IF q # r THEN Moved(req[q], c)
                    ELSE [req[r] EXCEPT !.pc = req[r].next, !.next = "loaded", !.fd = "gone"]]
  /\ UNCHANGED <<row, images, slips>>

\* Somebody else renamed it.
RenameFails(r) ==
  /\ req[r].pc = "rename"
  /\ tmp[Conv(r)].is = "absent"
  /\ End(r, "failed")
  /\ UNCHANGED <<row, file, tmp, images, slips>>

-----------------------------------------------------------------------------
(* After a save.                                                           *)

Counted(r) == row' = [row EXCEPT ![Conv(r)].count = Len(req[r].list)]

\* UpdateConversationStats and GetConversationByID, and then the AI is asked.  A row
\* that is deleted between these statements ends the request as one deleted before.
Asked(r) ==
  /\ req[r].pc = "asked" /\ Live(r)
  /\ Counted(r)
  /\ Goto(r, "asking")
  /\ UNCHANGED <<file, tmp, images, slips>>

\* Variant: the answer is all there is to save.
AnswerAlone(r) ==
  /\ req[r].pc = "asking"
  /\ req' = [req EXCEPT ![r].pc = "open", ![r].next = "answered",
                        ![r].list = <<<<r, "assistant">>>>]
  /\ UNCHANGED <<row, file, tmp, images, slips>>

\* The AI, or the status command, has answered: its words go behind the list that was
\* read before it was asked.
Answer(r) ==
  /\ req[r].pc = "asking"
  /\ req' = [req EXCEPT ![r].pc = "open", ![r].next = "answered",
                        ![r].list = Append(@, <<r, "assistant">>)]
  /\ UNCHANGED <<row, file, tmp, images, slips>>

\* UpdateConversationStats, the jobs that learn from the chat, GetConversationByID.
Answered(r) ==
  /\ req[r].pc = "answered" /\ Live(r)
  /\ Counted(r)
  /\ End(r, "ok")
  /\ UNCHANGED <<file, tmp, images, slips>>

StatsFail(r) ==
  /\ req[r].pc \in {"asked", "answered"} /\ ~Live(r)
  /\ End(r, "failed")
  /\ UNCHANGED <<row, file, tmp, images, slips>>

\* Variant: removing a message is not counted.
EditedOnly(r) ==
  /\ req[r].pc = "edited"
  /\ End(r, "ok")
  /\ UNCHANGED <<row, file, tmp, images, slips>>

\* Edits ignore what UpdateConversationStats returns.
Edited(r) ==
  /\ req[r].pc = "edited"
  /\ IF Live(r) THEN Counted(r) ELSE UNCHANGED row
  /\ End(r, "ok")
  /\ UNCHANGED <<file, tmp, images, slips>>

EditedUncounted(r) ==
  /\ req[r].pc = "edited"
  /\ Slip
  /\ End(r, "uncounted")
  /\ UNCHANGED <<row, file, tmp, images>>

-----------------------------------------------------------------------------
(* Title, pin and deletion.                                                *)

\* UpdateConversationMeta writes both back, the one it was not asked to change as it
\* was read.
Set(r) ==
  /\ req[r].pc = "set" /\ Live(r)
  /\ row' = [row EXCEPT
       ![Conv(r)].title = IF req[r].kind = "title" THEN r ELSE req[r].seen.title,
       ![Conv(r)].pinned = IF req[r].kind = "pin" THEN r ELSE req[r].seen.pinned]
  /\ End(r, "ok")
  /\ UNCHANGED <<file, tmp, images, slips>>

SetFails(r) ==
  /\ req[r].pc = "set" /\ ~Live(r)
  /\ End(r, "failed")
  /\ UNCHANGED <<row, file, tmp, images, slips>>

\* DeleteConversation, of the row; ON DELETE CASCADE takes the legacy rows along.
Erase(r, c) ==
  /\ req[r].pc = "new" /\ row[c].there = "live"
  /\ row' = [row EXCEPT ![c].there = "gone"]
  /\ req' = [req EXCEPT ![r] = [Started(r, "delete", c) EXCEPT !.pc = "remove"]]
  /\ UNCHANGED <<file, tmp, images, slips>>

\* DeleteMessages, of the file; the temporary one stays.
RemoveFile(r) ==
  /\ req[r].pc = "remove"
  /\ file' = [file EXCEPT ![Conv(r)] = Absent]
  /\ req' = [q \in Requests |->
       IF q = r THEN Over(req[r], "ok")
       ELSE IF req[q].conv = Conv(r) /\ req[q].fd = "file" THEN [req[q] EXCEPT !.fd = "gone"]
       ELSE req[q]]
  /\ UNCHANGED <<row, tmp, images, slips>>

\* What DeleteMessages returns is ignored: the file stays, and the answer is the same.
KeepFile(r) ==
  /\ req[r].pc = "remove"
  /\ Slip
  /\ End(r, "kept")
  /\ UNCHANGED <<row, file, tmp, images>>

-----------------------------------------------------------------------------
(* What goes wrong: a statement, a write or the AI fails, a client hangs up; the   *)
(* process dies with all its requests.  A deletion has asked for nothing more once *)
(* the row is gone.                                                                *)

Fail(r) ==
  /\ InFlight(r) /\ req[r].pc # "remove"
  /\ Slip
  /\ End(r, "failed")
  /\ UNCHANGED <<row, file, tmp, images>>

Crash ==
  /\ \E r \in Requests : InFlight(r)
  /\ Slip
  /\ req' = [r \in Requests |->
               IF InFlight(r) THEN Over(req[r], "failed") ELSE req[r]]
  /\ UNCHANGED <<row, file, tmp, images>>

Begins(r) ==
  \E c \in Convs : \/ \E kind \in Kinds \ {"delete"} : Start(r, kind, c)
                   \/ \E kind \in {"chat", "replace"} : Create(r, kind, c)
                   \/ Erase(r, c)
Loads(r) ==
  \/ Find(r) \/ FindFails(r) \/ Read(r) \/ ReadFails(r) \/ ReadLegacy(r) \/ Loaded(r)
  \/ SaveImages(r) \/ RefuseImages(r)
Saves(r) == Open(r) \/ Write(r) \/ Rename(r) \/ RenameFails(r)
Stored(r) ==
  \/ Asked(r) \/ Answer(r) \/ Answered(r) \/ StatsFail(r) \/ Edited(r) \/ EditedUncounted(r)
RowOnly(r) == Set(r) \/ SetFails(r) \/ RemoveFile(r) \/ KeepFile(r)

Next ==
  \/ \E r \in Requests : Begins(r) \/ Loads(r) \/ Saves(r) \/ Stored(r) \/ RowOnly(r) \/ Fail(r)
  \/ Crash

Spec == Init /\ [][Next]_vars

-----------------------------------------------------------------------------
(* What users may count on, and what it takes two of them to break.                *)

\* Neither was over when the other began.
Overlap(p, q) ==
  /\ p # q /\ Conv(p) = Conv(q)
  /\ req[p].pc # "new" /\ req[q].pc # "new"
  /\ p \notin req[q].before /\ q \notin req[p].before

Writer(r) == req[r].pc # "new" /\ req[r].kind \in Writers
OverlapsWriter(r) == \E q \in Requests : Writer(q) /\ Overlap(r, q)
Clash(c) == \E p \in Requests : Conv(p) = c /\ Writer(p) /\ OverlapsWriter(p)

Unreadable(content) == content.is \in {"cut", "torn"}

\* The messages of r are in the list, but for those a user removed.
Removed == {req[q].cut : q \in {e \in Requests : req[e].kind = "edit"}}
KeepsBut(list, r, gone) ==
  \A by \in {"user", "assistant"} : Contains(list, <<r, by>>) \/ <<r, by>> \in gone
Keeps(list, r) == KeepsBut(list, r, Removed)

\* Another writer overlapped r, or a document replaced the list since.
Excused(r) ==
  \/ OverlapsWriter(r)
  \/ \E q \in Requests : /\ q # r /\ Conv(q) = Conv(r) /\ Writer(q)
                         /\ req[q].kind = "replace" /\ q \notin req[r].before

\* What a chat was told is stored, is: its image, and its turn in the list, although
\* others came after it with lists of their own, crashed or imported the legacy rows.
TurnsSurvive ==
  \A r \in Requests :
    req[r].kind = "chat" /\ req[r].out = "ok" /\ Live(r) =>
      /\ r \in images
      /\ \/ Excused(r) \/ Unreadable(file[Conv(r)])
         \/ file[Conv(r)].is = "whole" /\ Keeps(file[Conv(r)].list, r)

\* A file that does not parse, or is not wholly written, shows that two saves
\* overlapped: no crash and no leftover of one makes a conversation unreadable.
TornByTwo == \A c \in Convs : Unreadable(file[c]) => Clash(c)

\* A removed file comes back only through a request that was at work when it was removed.
FilesStayRemoved ==
  \A d \in Requests :
    req[d].kind = "delete" /\ req[d].out = "ok" /\ file[Conv(d)].is # "absent" =>
      OverlapsWriter(d)

\* What a deletion promises, though it does not look whether the file could be removed:
\* a removed file comes back only through a request that was at work then, and what is
\* left, after a failed removal or a crash, is out of the reach of every later request.
DeletedStays ==
  /\ FilesStayRemoved
  /\ \A d, q \in Requests :
       /\ req[d].kind = "delete" /\ Done(d)
       /\ Conv(q) = Conv(d) /\ InFlight(q)
       => Overlap(d, q)

\* A message that an edit removed comes back, by way of the legacy rows, only if
\* saves overlapped or the count of an edit of this conversation was lost.
RemovedStays ==
  \A e \in Requests :
    req[e].kind = "edit" /\ req[e].out = "ok" /\ Contains(file[Conv(e)].list, req[e].cut) =>
      \/ Clash(Conv(e))
      \/ \E q \in Requests : /\ Conv(q) = Conv(e) /\ req[q].kind = "edit"
                            /\ req[q].out \in {"uncounted", "failed"}

\* A new title stays until the next, unless a change of the pin overlapped it.
TitlesSurvive ==
  \A r \in Requests :
    req[r].kind = "title" /\ req[r].out = "ok" =>
      \/ row[Conv(r)].title = r
      \/ \E q \in Requests :
           /\ q # r /\ Conv(q) = Conv(r) /\ req[q].pc # "new"
           /\ \/ req[q].kind = "title" /\ q \notin req[r].before
              \/ req[q].kind = "pin" /\ Overlap(r, q)

-----------------------------------------------------------------------------
(* The inductive invariant behind the first three.                         *)

TypeOK ==
  /\ row \in [Convs -> Row]
  /\ file \in [Convs -> Content] /\ tmp \in [Convs -> Content]
  /\ images \subseteq Requests
  /\ req \in [Requests -> Request]
  /\ slips \in 0..MaxSlips

\* Where a request of a kind can be, and what it holds there.
Placed(q) ==
  /\ q.pc \notin {"new", "set", "remove", "done"} => q.kind \in Writers
  /\ q.pc = "set" => q.kind \in {"title", "pin"}
  /\ q.pc = "remove" => q.kind = "delete"
  /\ q.pc \in {"images", "asked", "asking", "answered"} \/ q.next \in {"asked", "answered"} =>
       q.kind = "chat"
  /\ q.pc \notin {"open", "write", "rename"} => q.next = "loaded"
  /\ "edited" \in {q.pc, q.next} => q.kind \in {"edit", "replace"}
  /\ q.out # "none" => q.pc = "done"
  /\ \/ q.pc \in {"new", "find", "read", "legacy", "loaded"}
     \/ q.pc \in {"open", "write", "rename"} /\ q.next = "loaded"
     => q.cut = OldMessage
  /\ q.pc \in {"new", "find", "read", "legacy"} => q.list = <<>>

Stages ==
  \A r \in Requests :
    /\ Placed(req[r])
    /\ req[r].pc # "new" => row[Conv(r)].there # "no"
    /\ \A q \in req[r].before : Done(q) /\ q # r /\ req[r].pc # "new"

\* A save is alone with its temporary file, or another writer overlaps it.
SavesAlone ==
  \A r \in Requests :
    /\ req[r].pc = "write" =>
         OverlapsWriter(r) \/ (req[r].fd = "tmp" /\ tmp[Conv(r)] = Cut)
    /\ req[r].pc = "rename" => OverlapsWriter(r) \/ tmp[Conv(r)] = Whole(req[r].list)

\* Requests begin before the row is deleted.
DeletedLast ==
  \A d, q \in Requests :
    req[d].kind = "delete" /\ req[d].pc # "new" =>
      /\ row[Conv(d)].there = "gone"
      /\ req[q].pc # "new" /\ Conv(q) = Conv(d) => d \notin req[q].before

\* A chat has its own messages in its list, and its image in storage.
Owns(r, q, stored) ==
  /\ q.next \in {"asked", "answered"} \/ q.pc \in {"asked", "asking"} =>
       r \in stored /\ Contains(q.list, <<r, "user">>)
  /\ q.next = "answered" => Contains(q.list, <<r, "assistant">>)
  /\ q.pc = "answered" \/ (q.kind = "chat" /\ q.out = "ok") => r \in stored

HoldsOwn == \A r \in Requests : Owns(r, req[r], images)

HoldsList == {"legacy", "images", "open", "write", "rename", "loaded", "asked", "asking"}
Holding(p) == req[p].pc \in HoldsList

\* A turn that must be there: only edits may take its messages.
Safe(r) == req[r].kind = "chat" /\ req[r].out = "ok" /\ Live(r) /\ ~Excused(r)

\* Every list that may still be written keeps the turns that were over before its
\* request began; so does the file, and there is no list of older requests left in the
\* temporary one.
TurnsKept ==
  \A r \in Requests :
    /\ Safe(r) =>
         /\ \A p \in Requests : Conv(p) = Conv(r) /\ Holding(p) => Keeps(req[p].list, r)
         /\ tmp[Conv(r)].is = "whole" => Keeps(tmp[Conv(r)].list, r)
    /\ req[r].pc = "answered" /\ Live(r) /\ ~Excused(r) =>
         /\ tmp[Conv(r)] = Absent
         /\ file[Conv(r)].is = "whole" /\ Keeps(file[Conv(r)].list, r)

IInv ==
  /\ TypeOK /\ Stages /\ SavesAlone /\ DeletedLast /\ HoldsOwn /\ TurnsKept
  /\ TurnsSurvive /\ TornByTwo /\ FilesStayRemoved

=============================================================================
