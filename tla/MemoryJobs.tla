----------------------------- MODULE MemoryJobs -----------------------------
(***************************************************************************)
(* The memory extraction queue: rows of memory_extraction_jobs, the worker *)
(* of each API process and the memories it writes.                         *)
(*                                                                         *)
(* A chat reply enqueues a job; the process then works off whatever is     *)
(* due, as does a ticker every 20 seconds.  memoryWorkerMu lets one        *)
(* goroutine of a process do so at a time: that is the worker of a server. *)
(* A job is one AI call and one upsert per memory in its answer, all under *)
(* one context of 60 seconds; the job's result is written under the same   *)
(* context, and an error of that write is ignored.                         *)
(*                                                                         *)
(* A memory is its content_hash, unique among the live memories of a user. *)
(* Every job has a conversation of its own.                                *)
(***************************************************************************)
EXTENDS Integers, FiniteSets, Sequences

CONSTANTS
  Servers,    \* API processes that share the database
  Users,
  NoUser,     \* owner of a row that is not there
  Contents,   \* the memories an answer may hold
  MaxJobs,    \* bound on the jobs ever enqueued
  BatchSize,  \* jobs claimed at a time: 3 in the code
  MaxReply,   \* memories kept of one answer: 5 in the code
  MaxSlips    \* bound on crashes, expired contexts and lost claims

ASSUME JobsAssumption ==
  /\ NoUser \notin Users
  /\ MaxJobs \in Nat /\ MaxReply \in Nat /\ MaxSlips \in Nat
  /\ BatchSize \in Nat \ {0}

VARIABLES
  job,     \* memory_extraction_jobs, in order of created_at
  memory,  \* the live user_memories of each user
  work,    \* the worker of each process
  calls,   \* AI calls made for each job (not in the code: for the properties)
  slips    \* crashes, expired contexts and lost claims so far

vars == <<job, memory, work, calls, slips>>

Jobs == 1..MaxJobs
MaxAttempts == 3

\* "none": not enqueued yet; "gone": deleted with its conversation.
JobRow ==
  [user : Users \cup {NoUser}, attempts : 0..MaxAttempts, due : BOOLEAN,
   status : {"none", "pending", "running", "retry", "done", "failed", "gone"}]

\* late: the context has ended, so every further statement fails.
Worker ==
  [pc : {"idle"}]
  \cup [pc : {"batch"}, todo : SUBSET Jobs]
  \cup [pc : {"calling"}, todo : SUBSET Jobs, job : Jobs, late : BOOLEAN]
  \cup [pc : {"saving"}, todo : SUBSET Jobs, job : Jobs, late : BOOLEAN, left : Seq(Contents)]

Idle == [pc |-> "idle"]

Init ==
  /\ job = [j \in Jobs |-> [user |-> NoUser, attempts |-> 0, due |-> FALSE, status |-> "none"]]
  /\ memory = [u \in Users |-> {}]
  /\ work = [s \in Servers |-> Idle]
  /\ calls = [j \in Jobs |-> 0]
  /\ slips = 0

Slip == slips < MaxSlips /\ slips' = slips + 1

\* The jobs a worker has claimed and not started, and not finished with.
Todo(w) == IF w.pc = "idle" THEN {} ELSE w.todo
Holding(w) == Todo(w) \cup (IF w.pc \in {"calling", "saving"} THEN {w.job} ELSE {})
Held(s) == Holding(work[s])

-----------------------------------------------------------------------------
(* The rows.                                                               *)

\* EnqueueMemoryExtractionJob, after a reply in a conversation of u.
Enqueue(u) ==
  /\ \E j \in Jobs :
       /\ job[j].status = "none"
       /\ \A i \in 1..(j - 1) : job[i].status # "none"
       /\ job' = [job EXCEPT ![j] = [user |-> u, attempts |-> 0, due |-> TRUE,
                                     status |-> "pending"]]
  /\ UNCHANGED <<memory, work, calls, slips>>

\* run_after passes.
BecomeDue(j) ==
  /\ job[j].status = "retry" /\ ~job[j].due
  /\ job' = [job EXCEPT ![j].due = TRUE]
  /\ UNCHANGED <<memory, work, calls, slips>>

\* ON DELETE CASCADE takes the jobs of a deleted conversation along.
DeleteConversation(j) ==
  /\ job[j].status \notin {"none", "gone"}
  /\ job' = [job EXCEPT ![j].status = "gone"]
  /\ UNCHANGED <<memory, work, calls, slips>>

\* Variant: a job that looks stale while it runs is claimed again.
ClaimableRunning(j) ==
  job[j].status \in {"pending", "retry", "running"} /\ job[j].due /\ job[j].attempts < MaxAttempts

Claimable(j) ==
  job[j].status \in {"pending", "retry"} /\ job[j].due /\ job[j].attempts < MaxAttempts

\* Variant: the attempt is not counted.
FailedUncounted(row) ==
  IF row.status = "gone" THEN row ELSE [row EXCEPT !.due = FALSE, !.status = "retry"]

\* Variant: off by one, the last attempt is not the end.
FailedLate(row) ==
  IF row.status = "gone" THEN row
  ELSE [row EXCEPT !.attempts = @ + 1, !.due = FALSE,
                   !.status = IF row.attempts >= MaxAttempts THEN "failed" ELSE "retry"]

\* FailMemoryExtractionJob: the row after one more attempt.
Failed(row) ==
  IF row.status = "gone" THEN row
  ELSE [row EXCEPT !.attempts = @ + 1, !.due = FALSE,
                   !.status = IF row.attempts + 1 >= MaxAttempts THEN "failed" ELSE "retry"]

\* CompleteMemoryExtractionJob.
Completed(row) == IF row.status = "gone" THEN row ELSE [row EXCEPT !.status = "done"]

-----------------------------------------------------------------------------
(* processDueMemoryExtractionJobs.                                         *)

\* ClaimDueMemoryExtractionJobs: the oldest claimable rows, at most BatchSize.
Batch ==
  LET claimable == {j \in Jobs : Claimable(j)}
  IN {j \in claimable : Cardinality({i \in claimable : i < j}) < BatchSize}

MarkRunning(batch) ==
  job' = [j \in Jobs |-> IF j \in batch THEN [job[j] EXCEPT !.status = "running"] ELSE job[j]]

Claim(s) ==
  /\ work[s].pc = "idle"
  /\ Batch # {}
  /\ MarkRunning(Batch)
  /\ work' = [work EXCEPT ![s] = [pc |-> "batch", todo |-> Batch]]
  /\ UNCHANGED <<memory, calls, slips>>

\* The UPDATE commits, but reading what it RETURNs fails.
ClaimLost(s) ==
  /\ work[s].pc = "idle"
  /\ Batch # {}
  /\ MarkRunning(Batch)
  /\ Slip
  /\ UNCHANGED <<memory, work, calls>>

\* Variant: the worker returns after one job of its batch.
ContinueReturns(s) == work' = [work EXCEPT ![s] = Idle]

\* The worker is through with its job, and goes on with its batch.
Continue(s) ==
  work' = [work EXCEPT ![s] = IF @.todo = {} THEN Idle ELSE [pc |-> "batch", todo |-> @.todo]]

-----------------------------------------------------------------------------
(* processMemoryExtractionJob.                                             *)

\* Settings are complete: the AI is called.
Start(s) ==
  /\ work[s].pc = "batch"
  /\ \E j \in work[s].todo :
       /\ work' = [work EXCEPT ![s] = [pc |-> "calling", todo |-> @.todo \ {j}, job |-> j,
                                       late |-> FALSE]]
       /\ calls' = [calls EXCEPT ![j] = @ + 1]
  /\ UNCHANGED <<job, memory, slips>>

\* Settings are not complete.
StartFails(s) ==
  /\ work[s].pc = "batch"
  /\ \E j \in work[s].todo :
       /\ job' = [job EXCEPT ![j] = Failed(@)]
       /\ work' = [work EXCEPT ![s] =
                     IF @.todo = {j} THEN Idle ELSE [pc |-> "batch", todo |-> @.todo \ {j}]]
  /\ UNCHANGED <<memory, calls, slips>>

\* The 60 seconds are over, or the database is unreachable from here on.
Expire(s) ==
  /\ work[s].pc \in {"calling", "saving"}
  /\ ~work[s].late
  /\ work' = [work EXCEPT ![s].late = TRUE]
  /\ Slip
  /\ UNCHANGED <<job, memory, calls>>

\* The AI answers; parseMemoryExtraction keeps the first memories of it.
Answered(s, reply) ==
  /\ work[s].pc = "calling"
  /\ ~work[s].late
  /\ Len(reply) <= MaxReply
  /\ work' = [work EXCEPT ![s] = [pc |-> "saving", todo |-> @.todo, job |-> @.job,
                                  late |-> FALSE, left |-> reply]]
  /\ UNCHANGED <<job, memory, calls, slips>>

\* The result is written under the context of the job: not once that has ended.
Record(s, result) ==
  /\ job' = IF work[s].late THEN job ELSE [job EXCEPT ![work[s].job] = result]
  /\ Continue(s)
  /\ UNCHANGED <<memory, calls, slips>>

\* The AI call fails, as it does when the context ends.
CallFails(s) ==
  /\ work[s].pc = "calling"
  /\ Record(s, Failed(job[work[s].job]))

\* Variant: the row carries no reference to its conversation.
MayReferenceAny(j) == job[j].status # "none"

\* source_conversation_id references a conversation that is still there.
MayReference(j) == job[j].status # "gone"

\* UpsertMemory of the next memory.
Save(s) ==
  /\ work[s].pc = "saving"
  /\ ~work[s].late
  /\ work[s].left # <<>>
  /\ MayReference(work[s].job)
  /\ memory' = [memory EXCEPT ![job[work[s].job].user] = @ \cup {Head(work[s].left)}]
  /\ work' = [work EXCEPT ![s].left = Tail(@)]
  /\ UNCHANGED <<job, calls, slips>>

SaveFails(s) ==
  /\ work[s].pc = "saving"
  /\ work[s].left # <<>>
  /\ Record(s, Failed(job[work[s].job]))

Finish(s) ==
  /\ work[s].pc = "saving"
  /\ work[s].left = <<>>
  /\ Record(s, Completed(job[work[s].job]))

\* The process dies and is started again.
Crash(s) ==
  /\ work[s].pc # "idle"
  /\ work' = [work EXCEPT ![s] = Idle]
  /\ Slip
  /\ UNCHANGED <<job, memory, calls>>

-----------------------------------------------------------------------------
(* What users do to their memories.                                        *)

CreateMemory(u, c) ==
  /\ memory' = [memory EXCEPT ![u] = @ \cup {c}]
  /\ UNCHANGED <<job, work, calls, slips>>

\* Another live memory with the new content makes the UPDATE fail.
UpdateMemory(u, old, new) ==
  /\ old \in memory[u] /\ new \notin memory[u]
  /\ memory' = [memory EXCEPT ![u] = (@ \ {old}) \cup {new}]
  /\ UNCHANGED <<job, work, calls, slips>>

DeleteMemory(u, c) ==
  /\ c \in memory[u]
  /\ memory' = [memory EXCEPT ![u] = @ \ {c}]
  /\ UNCHANGED <<job, work, calls, slips>>

-----------------------------------------------------------------------------

\* One step of the job at hand.
Work(s) == \/ Start(s) \/ StartFails(s) \/ CallFails(s) \/ Save(s) \/ SaveFails(s) \/ Finish(s)

Answers(s) == \E n \in 0..MaxReply : \E reply \in [1..n -> Contents] : Answered(s, reply)

Server(s) == Claim(s) \/ ClaimLost(s) \/ Work(s) \/ Answers(s) \/ Expire(s) \/ Crash(s)

User(u) ==
  \/ Enqueue(u)
  \/ \E c \in Contents : \/ CreateMemory(u, c) \/ DeleteMemory(u, c)
                         \/ \E new \in Contents : UpdateMemory(u, c, new)

Next ==
  \/ \E s \in Servers : Server(s)
  \/ \E u \in Users : User(u)
  \/ \E j \in Jobs : BecomeDue(j) \/ DeleteConversation(j)

Spec == Init /\ [][Next]_vars

\* The ticker of every process runs on, clocks advance, and no statement or AI
\* call lasts for ever: all of them are under a context with a deadline.
Fairness ==
  /\ \A s \in Servers : WF_vars(Claim(s)) /\ WF_vars(Work(s))
  /\ \A j \in Jobs : WF_vars(BecomeDue(j))

FairSpec == Spec /\ Fairness

-----------------------------------------------------------------------------
(* What the queue promises.                                                *)

TypeOK ==
  /\ job \in [Jobs -> JobRow]
  /\ memory \in [Users -> SUBSET Contents]
  /\ work \in [Servers -> Worker]
  /\ calls \in [Jobs -> Nat]
  /\ slips \in 0..MaxSlips

\* FOR UPDATE SKIP LOCKED and the status it sets hand a job to one process: what
\* two processes work on is disjoint, and nothing finishes it in between.
ClaimedOnce ==
  /\ \A s, t \in Servers : Held(s) \cap Held(t) # {} => s = t
  /\ \A s \in Servers : \A j \in Held(s) : job[j].status \in {"running", "gone"}
  /\ \A s \in Servers : work[s].pc \in {"calling", "saving"} => work[s].job \notin work[s].todo

\* A job costs at most MaxAttempts calls of the AI, crashes and expired contexts
\* included, and fails for good only when it has used them up.
CallsAreBounded ==
  \A j \in Jobs : /\ calls[j] <= MaxAttempts
                  /\ job[j].status = "failed" => job[j].attempts = MaxAttempts

\* A job that is done, failed or deleted stays so, and its attempts never go back:
\* no late answer of another process reopens it.
FinalStays ==
  [][\A j \in Jobs :
       /\ job[j].status = "done" => job'[j].status \in {"done", "gone"}
       /\ job[j].status = "failed" => job'[j].status \in {"failed", "gone"}
       /\ job[j].status = "gone" => job'[j].status = "gone"
       /\ job'[j].attempts >= job[j].attempts]_job

\* A worker changes the memories of a user only while it runs a job of that user
\* whose conversation is still there.
LearnsFromLiveJobs ==
  [][\A u \in Users : memory'[u] # memory[u] /\ work' # work =>
       \E s \in Servers : /\ work[s].pc = "saving"
                          /\ job[work[s].job].user = u
                          /\ job[work[s].job].status = "running"]_memory

\* A running job that no process works on: nothing claims it again.
Stranded(j) == job[j].status = "running" /\ \A s \in Servers : j \notin Held(s)

\* Every job that waits, for its first attempt or for its next, comes to an end;
\* what crashes, expired contexts and lost claims strand holds up no other job.
WaitingJobsEnd ==
  \A j \in Jobs :
    job[j].status \in {"pending", "retry"} ~>
      (job[j].status \in {"done", "failed", "gone"} \/ Stranded(j))

\* As long as nothing slips, no job is stranded.
OnlySlipsStrand == slips = 0 => \A j \in Jobs : ~Stranded(j)

-----------------------------------------------------------------------------
(* The inductive invariant behind them.                                    *)

\* What a job has cost when it may be claimed, and what it may still cost while a
\* process has it.
CallsCounted ==
  \A j \in Jobs :
    /\ calls[j] <= MaxAttempts
    /\ job[j].status = "none" => calls[j] = 0 /\ job[j].attempts = 0
    /\ job[j].status \in {"pending", "retry"} =>
         calls[j] <= job[j].attempts /\ job[j].attempts < MaxAttempts
    /\ job[j].status = "running" =>
         calls[j] <= job[j].attempts + 1 /\ job[j].attempts < MaxAttempts
    /\ job[j].status = "failed" => job[j].attempts = MaxAttempts

\* A claimed job whose turn has not come costs nothing yet.
TodoUntouched ==
  \A s \in Servers : \A j \in Todo(work[s]) :
    calls[j] <= job[j].attempts /\ job[j].attempts < MaxAttempts

\* A row has a user once it is there.
RowsAreOwned == \A j \in Jobs : job[j].status # "none" => job[j].user \in Users

IInv ==
  /\ TypeOK
  /\ RowsAreOwned
  /\ ClaimedOnce
  /\ CallsCounted
  /\ TodoUntouched

=============================================================================
