------------------------- MODULE MemoryJobs_proofs -------------------------
(***************************************************************************)
(* Theorems about MemoryJobs, for any number of processes, users, jobs and *)
(* memories, any batch size and any number of crashes and timeouts.        *)
(***************************************************************************)
EXTENDS MemoryJobs, TLAPS

-----------------------------------------------------------------------------
(* The inductive invariant.                                                *)

LEMMA InitIInv == Init => IInv
BY JobsAssumption
   DEF Init, IInv, TypeOK, JobRow, Worker, Idle, RowsAreOwned, ClaimedOnce, Held, Holding, Todo,
       CallsCounted, TodoUntouched, Jobs, MaxAttempts

LEMMA HeldJobs ==
  ASSUME IInv, NEW s \in Servers
  PROVE  Held(s) \subseteq Jobs /\ Todo(work[s]) \subseteq Held(s)
BY DEF IInv, TypeOK, Worker, Held, Holding, Todo

\* A worker goes on without a word to the queue.
LEMMA WorkerMoves ==
  ASSUME IInv, NEW s \in Servers, NEW w \in Worker,
         work' = [work EXCEPT ![s] = w],
         UNCHANGED <<job, calls>>,
         memory' \in [Users -> SUBSET Contents], slips' \in 0..MaxSlips,
         Holding(w) \subseteq Held(s), Todo(w) \subseteq Todo(work[s]),
         w.pc \in {"calling", "saving"} => w.job \notin w.todo
  PROVE  IInv'
<1>1. TypeOK'
  BY DEF IInv, TypeOK
<1>2. /\ Held(s)' = Holding(w) /\ \A t \in Servers \ {s} : Held(t)' = Held(t)
      /\ work'[s] = w /\ \A t \in Servers \ {s} : work'[t] = work[t]
  BY DEF IInv, TypeOK, Held
<1>3. ClaimedOnce'
  BY <1>2 DEF IInv, ClaimedOnce
<1>4. TodoUntouched'
  BY <1>2 DEF IInv, TodoUntouched
<1> QED BY <1>1, <1>3, <1>4 DEF IInv, RowsAreOwned, CallsCounted

\* It lets go of job k, with a new row for it.
LEMMA WorkerRecords ==
  ASSUME IInv, NEW s \in Servers, NEW w \in Worker, NEW k \in Held(s), NEW row \in JobRow,
         work' = [work EXCEPT ![s] = w],
         job' = [job EXCEPT ![k] = row],
         UNCHANGED <<memory, calls, slips>>,
         Holding(w) \subseteq Held(s) \ {k}, Todo(w) \subseteq Todo(work[s]),
         w.pc \in {"calling", "saving"} => w.job \notin w.todo,
         row.status # "none", row.user = job[k].user,
         row.status \in {"retry"} => calls[k] <= row.attempts /\ row.attempts < MaxAttempts,
         row.status = "failed" => row.attempts = MaxAttempts,
         row.status \in {"retry", "failed", "done", "gone"}
  PROVE  IInv'
<1>0. k \in Jobs /\ job[k].status # "none"
  BY HeldJobs DEF IInv, ClaimedOnce
<1>1. TypeOK'
  BY <1>0 DEF IInv, TypeOK
<1>2. /\ Held(s)' = Holding(w) /\ \A t \in Servers \ {s} : Held(t)' = Held(t)
      /\ work'[s] = w /\ \A t \in Servers \ {s} : work'[t] = work[t]
      /\ job'[k] = row /\ \A j \in Jobs \ {k} : job'[j] = job[j]
  BY <1>0 DEF IInv, TypeOK, Held
<1>3. \A t \in Servers : k \notin Held(t)'
  BY <1>2 DEF IInv, ClaimedOnce
<1>4. ClaimedOnce'
  <2>1. \A t \in Servers : Held(t)' \subseteq Held(t)
    BY <1>2
  <2>2. \A t1, t2 \in Servers : (Held(t1) \cap Held(t2))' # {} => t1 = t2
    BY <2>1 DEF IInv, ClaimedOnce
  <2>3. \A t \in Servers : \A j \in Held(t)' : job'[j].status \in {"running", "gone"}
    BY <1>2, <1>3, <2>1, HeldJobs DEF IInv, ClaimedOnce
  <2>4. \A t \in Servers : work'[t].pc \in {"calling", "saving"} => work'[t].job \notin work'[t].todo
    BY <1>2 DEF IInv, ClaimedOnce
  <2> QED BY <2>2, <2>3, <2>4 DEF ClaimedOnce
<1>5. TodoUntouched'
  <2> SUFFICES ASSUME NEW t \in Servers, NEW j \in Todo(work'[t])
               PROVE  calls'[j] <= job'[j].attempts /\ job'[j].attempts < MaxAttempts
    BY DEF TodoUntouched
  <2>1. j \in Todo(work[t])
    BY <1>2
  <2>2. j \in Held(t)' /\ j \in Jobs
    BY <1>2, <2>1, HeldJobs DEF Held, Holding
  <2> QED BY <1>2, <1>3, <2>1, <2>2 DEF IInv, TodoUntouched
<1>6. RowsAreOwned'
  BY <1>0, <1>2 DEF IInv, RowsAreOwned
<1>7. CallsCounted'
  BY <1>0, <1>2 DEF IInv, CallsCounted
<1> QED BY <1>1, <1>4, <1>5, <1>6, <1>7 DEF IInv

\* What is recorded of an attempt.
LEMMA RecordedRow ==
  ASSUME IInv, NEW s \in Servers, NEW k \in Held(s)
  PROVE  /\ Failed(job[k]) \in JobRow /\ Completed(job[k]) \in JobRow
         /\ \A row \in {Failed(job[k]), Completed(job[k])} :
              /\ row.status \in {"retry", "failed", "done", "gone"}
              /\ row.user = job[k].user
              /\ row.attempts >= job[k].attempts
              /\ row.status = "retry" => calls[k] <= row.attempts /\ row.attempts < MaxAttempts
              /\ row.status = "failed" => row.attempts = MaxAttempts
              /\ job[k].status = "gone" => row.status = "gone"
<1>1. k \in Jobs /\ job[k] \in JobRow /\ job[k].status \in {"running", "gone"}
  BY HeldJobs DEF IInv, TypeOK, ClaimedOnce
<1>2. calls[k] \in Nat /\ job[k].attempts \in 0..MaxAttempts
  BY <1>1 DEF IInv, TypeOK, JobRow
<1>3. job[k].status = "running" => calls[k] <= job[k].attempts + 1 /\ job[k].attempts < MaxAttempts
  BY <1>1 DEF IInv, CallsCounted
<1>4. CASE job[k].status = "gone"
  BY <1>1, <1>2, <1>4 DEF Failed, Completed
<1>5. CASE job[k].status = "running"
  <2> DEFINE n == job[k].attempts + 1
             fail == [job[k] EXCEPT !.attempts = n, !.due = FALSE,
                                    !.status = IF n >= MaxAttempts THEN "failed" ELSE "retry"]
             done == [job[k] EXCEPT !.status = "done"]
  <2>1. Failed(job[k]) = fail /\ Completed(job[k]) = done
    BY <1>1, <1>5 DEF Failed, Completed, JobRow
  <2>2. n \in 0..MaxAttempts /\ n >= job[k].attempts /\ calls[k] <= n
    BY <1>2, <1>3, <1>5 DEF MaxAttempts
  <2>3. n < MaxAttempts \/ n = MaxAttempts
    BY <2>2 DEF MaxAttempts
  <2> HIDE DEF n
  <2>4. /\ fail \in JobRow /\ fail.user = job[k].user /\ fail.attempts = n
        /\ fail.status = IF n >= MaxAttempts THEN "failed" ELSE "retry"
    BY <1>1, <2>2 DEF JobRow
  <2>5. /\ done \in JobRow /\ done.user = job[k].user /\ done.attempts = job[k].attempts
        /\ done.status = "done"
    BY <1>1 DEF JobRow
  <2> HIDE DEF fail, done
  <2> QED BY <1>2, <1>5, <2>1, <2>2, <2>3, <2>4, <2>5 DEF MaxAttempts
<1> QED BY <1>1, <1>4, <1>5

-----------------------------------------------------------------------------
(* Step by step.                                                           *)

LEMMA RowsKeepIInv ==
  ASSUME IInv, \/ \E u \in Users : Enqueue(u)
               \/ \E j \in Jobs : BecomeDue(j) \/ DeleteConversation(j)
  PROVE  IInv'
<1>1. PICK k \in Jobs, row \in JobRow :
        /\ job' = [job EXCEPT ![k] = row]
        /\ row.user \in Users
        /\ \/ /\ job[k].status = "none" /\ row.status = "pending" /\ row.attempts = 0
           \/ /\ job[k].status = "retry" /\ row.status = "retry"
              /\ row.attempts = job[k].attempts
           \/ /\ job[k].status # "none" /\ row.status = "gone"
              /\ row.attempts = job[k].attempts
  <2>1. CASE \E u \in Users : Enqueue(u)
    <3> PICK u \in Users : Enqueue(u)
      BY <2>1
    <3> DEFINE row == [user |-> u, attempts |-> 0, due |-> TRUE, status |-> "pending"]
    <3>1. PICK j \in Jobs : job[j].status = "none" /\ job' = [job EXCEPT ![j] = row]
      BY DEF Enqueue
    <3>2. /\ row \in JobRow /\ row.user \in Users /\ row.status = "pending"
          /\ row.attempts = 0
      BY DEF JobRow, MaxAttempts
    <3> HIDE DEF row
    <3> QED BY <3>1, <3>2
  <2>2. CASE \E j \in Jobs : BecomeDue(j)
    <3> PICK j \in Jobs : BecomeDue(j)
      BY <2>2
    <3> DEFINE row == [job[j] EXCEPT !.due = TRUE]
    <3>1. job' = [job EXCEPT ![j] = row] /\ job[j] \in JobRow /\ job[j].status = "retry"
      BY DEF BecomeDue, IInv, TypeOK
    <3>2. /\ row \in JobRow /\ row.user = job[j].user /\ row.status = "retry"
          /\ row.attempts = job[j].attempts
      BY <3>1 DEF JobRow
    <3>3. row.user \in Users
      BY <3>1, <3>2 DEF IInv, RowsAreOwned
    <3> HIDE DEF row
    <3> QED BY <3>1, <3>2, <3>3
  <2>3. CASE \E j \in Jobs : DeleteConversation(j)
    <3> PICK j \in Jobs : DeleteConversation(j)
      BY <2>3
    <3> DEFINE row == [job[j] EXCEPT !.status = "gone"]
    <3>1. job' = [job EXCEPT ![j] = row] /\ job[j] \in JobRow /\ job[j].status # "none"
      BY DEF DeleteConversation, IInv, TypeOK
    <3>2. /\ row \in JobRow /\ row.user = job[j].user /\ row.status = "gone"
          /\ row.attempts = job[j].attempts
      BY <3>1 DEF JobRow
    <3>3. row.user \in Users
      BY <3>1, <3>2 DEF IInv, RowsAreOwned
    <3> HIDE DEF row
    <3> QED BY <3>1, <3>2, <3>3
  <2> QED BY <2>1, <2>2, <2>3
<1>2. UNCHANGED <<memory, work, calls, slips>>
  BY DEF Enqueue, BecomeDue, DeleteConversation
<1>3. /\ job'[k] = row /\ \A j \in Jobs \ {k} : job'[j] = job[j]
      /\ \A s \in Servers : Held(s)' = Held(s)
  BY <1>1, <1>2 DEF IInv, TypeOK, Held
<1>4. TypeOK'
  BY <1>1, <1>2 DEF IInv, TypeOK
<1>5. ClaimedOnce'
  BY <1>1, <1>2, <1>3, HeldJobs DEF IInv, ClaimedOnce
<1>6. CallsCounted'
  BY <1>1, <1>2, <1>3 DEF IInv, CallsCounted, TypeOK, JobRow, MaxAttempts
<1>7. TodoUntouched'
  BY <1>1, <1>2, <1>3, HeldJobs DEF IInv, TodoUntouched, ClaimedOnce
<1>8. RowsAreOwned'
  BY <1>1, <1>3 DEF IInv, RowsAreOwned
<1> QED BY <1>4, <1>5, <1>6, <1>7, <1>8 DEF IInv

LEMMA ClaimKeepsIInv ==
  ASSUME IInv, NEW s \in Servers, Claim(s) \/ ClaimLost(s)
  PROVE  IInv'
<1> DEFINE B == Batch
<1>1. /\ B \subseteq Jobs
      /\ \A j \in B : job[j].status \in {"pending", "retry"}
  BY DEF Batch, Claimable
<1>2. /\ \A j \in B : job'[j] = [job[j] EXCEPT !.status = "running"]
      /\ \A j \in Jobs \ B : job'[j] = job[j]
      /\ job' = [j \in Jobs |-> IF j \in B THEN [job[j] EXCEPT !.status = "running"] ELSE job[j]]
  BY <1>1 DEF Claim, ClaimLost, MarkRunning
<1> HIDE DEF B
<1>3. \A j \in B : /\ job'[j] \in JobRow /\ job'[j].status = "running"
                   /\ job'[j].user = job[j].user /\ job'[j].attempts = job[j].attempts
  BY <1>1, <1>2 DEF IInv, TypeOK, JobRow
<1>4. \A t \in Servers : Held(t) \cap B = {}
  BY <1>1 DEF IInv, ClaimedOnce
<1>5. UNCHANGED <<memory, calls>> /\ slips' \in 0..MaxSlips
  BY JobsAssumption DEF Claim, ClaimLost, Slip, IInv, TypeOK
<1>6. \/ work' = work
      \/ work' = [work EXCEPT ![s] = [pc |-> "batch", todo |-> B]] /\ work[s].pc = "idle"
  BY DEF Claim, ClaimLost, B
<1>7. [pc |-> "batch", todo |-> B] \in Worker
  BY <1>1 DEF Worker
<1>8. TypeOK'
  BY <1>2, <1>3, <1>5, <1>6, <1>7 DEF IInv, TypeOK
<1>9. \A t \in Servers :
        \/ work'[t] = work[t] /\ Held(t)' = Held(t)
        \/ /\ t = s
           /\ work'[t] = [pc |-> "batch", todo |-> B]
           /\ Held(t)' = B
           /\ Todo(work'[t]) = B
  <2> DEFINE w == [pc |-> "batch", todo |-> B]
  <2>1. Todo(w) = B /\ Holding(w) = B
    BY DEF Todo, Holding
  <2> HIDE DEF w
  <2>2. work' = work \/ work' = [work EXCEPT ![s] = w]
    BY <1>6 DEF w
  <2>3. work \in [Servers -> Worker]
    BY DEF IInv, TypeOK
  <2>4. ASSUME NEW t \in Servers
        PROVE  work'[t] = work[t] \/ (t = s /\ work'[t] = w)
    <3>1. CASE work' = work
      BY <3>1
    <3>2. CASE work' = [work EXCEPT ![s] = w]
      BY <2>3, <3>2
    <3> QED BY <2>2, <3>1, <3>2
  <2> QED BY <2>1, <2>4 DEF Held, w
<1>10. ClaimedOnce'
  <2>1. \A t1, t2 \in Servers : (Held(t1) \cap Held(t2))' # {} => t1 = t2
    BY <1>4, <1>9 DEF IInv, ClaimedOnce
  <2>2. \A t \in Servers : \A j \in Held(t)' : job'[j].status \in {"running", "gone"}
    BY <1>1, <1>2, <1>3, <1>9, HeldJobs DEF IInv, ClaimedOnce
  <2>3. \A t \in Servers : work'[t].pc \in {"calling", "saving"} => work'[t].job \notin work'[t].todo
    BY <1>9 DEF IInv, ClaimedOnce
  <2> QED BY <2>1, <2>2, <2>3 DEF ClaimedOnce
<1>11. CallsCounted'
  <2> SUFFICES ASSUME NEW j \in Jobs
               PROVE  /\ calls'[j] <= MaxAttempts
                      /\ job'[j].status = "none" => calls'[j] = 0 /\ job'[j].attempts = 0
                      /\ job'[j].status \in {"pending", "retry"} =>
                           calls'[j] <= job'[j].attempts /\ job'[j].attempts < MaxAttempts
                      /\ job'[j].status = "running" =>
                           calls'[j] <= job'[j].attempts + 1 /\ job'[j].attempts < MaxAttempts
                      /\ job'[j].status = "failed" => job'[j].attempts = MaxAttempts
    BY DEF CallsCounted
  <2>1. CASE j \notin B
    BY <1>2, <1>5, <2>1 DEF IInv, CallsCounted
  <2>2. CASE j \in B
    BY <1>1, <1>3, <1>5, <2>2 DEF IInv, CallsCounted, TypeOK, JobRow
  <2> QED BY <2>1, <2>2
<1>12. TodoUntouched'
  <2> SUFFICES ASSUME NEW t \in Servers, NEW j \in Todo(work'[t])
               PROVE  calls'[j] <= job'[j].attempts /\ job'[j].attempts < MaxAttempts
    BY DEF TodoUntouched
  <2>1. CASE j \in B
    BY <1>1, <1>3, <1>5, <2>1 DEF IInv, CallsCounted
  <2>2. CASE j \notin B
    BY <1>2, <1>5, <1>9, <2>2, HeldJobs DEF IInv, TodoUntouched
  <2> QED BY <2>1, <2>2
<1>13. RowsAreOwned'
  BY <1>1, <1>2, <1>3 DEF IInv, RowsAreOwned
<1> QED BY <1>8, <1>10, <1>11, <1>12, <1>13 DEF IInv

LEMMA StartKeepsIInv ==
  ASSUME IInv, NEW s \in Servers, Start(s)
  PROVE  IInv'
<1>0. PICK k \in work[s].todo :
      /\ work' = [work EXCEPT ![s] = [pc |-> "calling", todo |-> @.todo \ {k}, job |-> k,
                                      late |-> FALSE]]
      /\ calls' = [calls EXCEPT ![k] = @ + 1]
  BY DEF Start
<1> DEFINE w == [pc |-> "calling", todo |-> work[s].todo \ {k}, job |-> k, late |-> FALSE]
<1>1. work[s].pc = "batch" /\ UNCHANGED <<job, memory, slips>>
  BY DEF Start
<1>2. Todo(work[s]) = work[s].todo /\ Held(s) = work[s].todo
  BY <1>1 DEF Held, Holding, Todo
<1>3. k \in Jobs /\ work[s].todo \subseteq Jobs
  BY <1>2, HeldJobs
<1>4. /\ w \in Worker /\ Holding(w) = work[s].todo /\ Todo(w) = work[s].todo \ {k}
      /\ w.pc = "calling" /\ w.job = k /\ w.todo = work[s].todo \ {k}
  BY <1>3 DEF Worker, Holding, Todo
<1>5. work' = [work EXCEPT ![s] = w]
  BY <1>0
<1> HIDE DEF w
<1>6. /\ Held(s)' = Held(s) /\ \A t \in Servers \ {s} : Held(t)' = Held(t)
      /\ work'[s] = w /\ \A t \in Servers \ {s} : work'[t] = work[t]
  BY <1>2, <1>4, <1>5 DEF IInv, TypeOK, Held
<1>7. /\ calls'[k] = calls[k] + 1 /\ \A j \in Jobs \ {k} : calls'[j] = calls[j]
      /\ calls' \in [Jobs -> Nat]
  BY <1>0, <1>3 DEF IInv, TypeOK
<1>8. /\ calls[k] <= job[k].attempts /\ job[k].attempts < MaxAttempts
      /\ job[k].status \in {"running", "gone"} /\ job[k].attempts \in 0..MaxAttempts
      /\ calls[k] \in Nat
  BY <1>2, <1>3 DEF IInv, TodoUntouched, ClaimedOnce, TypeOK, JobRow
<1>9. TypeOK'
  BY <1>1, <1>4, <1>5, <1>7 DEF IInv, TypeOK
<1>10. ClaimedOnce'
  BY <1>1, <1>4, <1>6 DEF IInv, ClaimedOnce
<1>11. TodoUntouched'
  <2> SUFFICES ASSUME NEW t \in Servers, NEW j \in Todo(work'[t])
               PROVE  calls'[j] <= job'[j].attempts /\ job'[j].attempts < MaxAttempts
    BY DEF TodoUntouched
  <2>1. j \in Todo(work[t]) /\ j \in Jobs
    <3>1. Todo(work'[t]) \subseteq Todo(work[t])
      BY <1>2, <1>4, <1>6
    <3> QED BY <3>1, HeldJobs
  <2>2. j # k
    <3>1. CASE t = s
      BY <1>4, <1>6, <3>1
    <3>2. CASE t # s
      BY <1>2, <2>1, <3>2, HeldJobs DEF IInv, ClaimedOnce
    <3> QED BY <3>1, <3>2
  <2> QED BY <1>1, <1>7, <2>1, <2>2 DEF IInv, TodoUntouched
<1>12. CallsCounted'
  BY <1>1, <1>3, <1>7, <1>8 DEF IInv, CallsCounted, MaxAttempts
<1> QED BY <1>1, <1>9, <1>10, <1>11, <1>12 DEF IInv, RowsAreOwned

LEMMA MovesKeepIInv ==
  ASSUME IInv, NEW s \in Servers, Expire(s) \/ Answers(s) \/ Save(s) \/ Crash(s)
  PROVE  IInv'
<1>0. work[s] \in Worker /\ slips \in 0..MaxSlips
  BY DEF IInv, TypeOK
<1>1. CASE Expire(s)
  <2> DEFINE w == [work[s] EXCEPT !.late = TRUE]
  <2>1. /\ work' = [work EXCEPT ![s] = w] /\ work[s].pc \in {"calling", "saving"}
        /\ UNCHANGED <<job, memory, calls>> /\ slips' \in 0..MaxSlips
    BY <1>0, <1>1, JobsAssumption DEF Expire, Slip
  <2>2. /\ w \in Worker /\ Holding(w) = Held(s) /\ Todo(w) = Todo(work[s])
        /\ w.pc = work[s].pc /\ w.job = work[s].job /\ w.todo = work[s].todo
    BY <1>0, <2>1 DEF Worker, Held, Holding, Todo
  <2> HIDE DEF w
  <2> QED BY <2>1, <2>2, WorkerMoves DEF IInv, TypeOK, ClaimedOnce
<1>2. CASE Answers(s)
  <2> PICK n \in 0..MaxReply : \E reply \in [1..n -> Contents] : Answered(s, reply)
    BY <1>2 DEF Answers
  <2> PICK reply \in [1..n -> Contents] : Answered(s, reply)
    OBVIOUS
  <2> DEFINE w == [pc |-> "saving", todo |-> work[s].todo, job |-> work[s].job, late |-> FALSE,
                   left |-> reply]
  <2>1. /\ work' = [work EXCEPT ![s] = w] /\ work[s].pc = "calling"
        /\ UNCHANGED <<job, memory, calls, slips>>
    BY DEF Answered
  <2>2. reply \in Seq(Contents)
    BY JobsAssumption
  <2>3. /\ w \in Worker /\ Holding(w) = Held(s) /\ Todo(w) = Todo(work[s])
        /\ w.pc = "saving" /\ w.job = work[s].job /\ w.todo = work[s].todo
    BY <1>0, <2>1, <2>2 DEF Worker, Held, Holding, Todo
  <2> HIDE DEF w
  <2> QED BY <1>0, <2>1, <2>3, WorkerMoves DEF IInv, TypeOK, ClaimedOnce
<1>3. CASE Save(s)
  <2> DEFINE w == [work[s] EXCEPT !.left = Tail(@)]
             u == job[work[s].job].user
  <2>1. /\ work' = [work EXCEPT ![s] = w] /\ work[s].pc = "saving" /\ work[s].left # <<>>
        /\ UNCHANGED <<job, calls, slips>>
        /\ memory' = [memory EXCEPT ![u] = @ \cup {Head(work[s].left)}]
    BY <1>3 DEF Save
  <2>2. work[s].left \in Seq(Contents)
    BY <1>0, <2>1 DEF Worker
  <2>3. Head(work[s].left) \in Contents /\ Tail(work[s].left) \in Seq(Contents)
    BY <2>1, <2>2
  <2>4. memory' \in [Users -> SUBSET Contents]
    BY <2>1, <2>3 DEF IInv, TypeOK
  <2>5. /\ w \in Worker /\ Holding(w) = Held(s) /\ Todo(w) = Todo(work[s])
        /\ w.pc = "saving" /\ w.job = work[s].job /\ w.todo = work[s].todo
    BY <1>0, <2>1, <2>3 DEF Worker, Held, Holding, Todo
  <2> HIDE DEF w
  <2> QED BY ZenonT(60), <1>0, <2>1, <2>4, <2>5, WorkerMoves DEF IInv, ClaimedOnce
<1>4. CASE Crash(s)
  <2>1. /\ work' = [work EXCEPT ![s] = Idle]
        /\ UNCHANGED <<job, memory, calls>> /\ slips' \in 0..MaxSlips
    BY <1>0, <1>4, JobsAssumption DEF Crash, Slip
  <2>2. Idle \in Worker /\ Holding(Idle) = {} /\ Todo(Idle) = {} /\ Idle.pc = "idle"
    BY DEF Idle, Worker, Holding, Todo
  <2> QED BY <2>1, <2>2, WorkerMoves DEF IInv, TypeOK
<1> QED BY <1>1, <1>2, <1>3, <1>4

\* The worker that finishes with job k, or drops it, keeps the rest of its batch.
LEMMA RestOfBatch ==
  ASSUME IInv, NEW s \in Servers, work[s].pc # "idle", NEW rest, rest \subseteq work[s].todo
  PROVE  LET w == IF rest = {} THEN Idle ELSE [pc |-> "batch", todo |-> rest]
         IN w \in Worker /\ Holding(w) = rest /\ Todo(w) = rest /\ w.pc \in {"idle", "batch"}
<1>1. rest \subseteq Jobs
  BY HeldJobs DEF Held, Holding, Todo
<1>2. Idle \in Worker /\ Holding(Idle) = {} /\ Todo(Idle) = {} /\ Idle.pc = "idle"
  BY DEF Idle, Worker, Holding, Todo
<1>3. LET w == [pc |-> "batch", todo |-> rest]
      IN w \in Worker /\ Holding(w) = rest /\ Todo(w) = rest /\ w.pc = "batch"
  BY <1>1 DEF Worker, Holding, Todo
<1> QED BY <1>2, <1>3

LEMMA RecordsKeepIInv ==
  ASSUME IInv, NEW s \in Servers,
         StartFails(s) \/ CallFails(s) \/ SaveFails(s) \/ Finish(s)
  PROVE  IInv'
<1>1. CASE StartFails(s)
  <2>1. PICK k \in work[s].todo :
          /\ job' = [job EXCEPT ![k] = Failed(@)]
          /\ work' = [work EXCEPT ![s] =
                 IF @.todo = {k} THEN Idle ELSE [pc |-> "batch", todo |-> @.todo \ {k}]]
    BY <1>1 DEF StartFails
  <2> DEFINE rest == work[s].todo \ {k}
             w == IF rest = {} THEN Idle ELSE [pc |-> "batch", todo |-> rest]
  <2>2. work[s].pc = "batch" /\ UNCHANGED <<memory, calls, slips>>
    BY <1>1 DEF StartFails
  <2>3. Held(s) = work[s].todo /\ Todo(work[s]) = work[s].todo
    BY <2>2 DEF Held, Holding, Todo
  <2>4. w \in Worker /\ Holding(w) = rest /\ Todo(w) = rest /\ w.pc \in {"idle", "batch"}
    BY <2>2, RestOfBatch
  <2>5. work' = [work EXCEPT ![s] = w] /\ job' = [job EXCEPT ![k] = Failed(job[k])]
    BY <2>1 DEF IInv, TypeOK
  <2> HIDE DEF w
  <2>6. k \in Held(s)
    BY <2>3
  <2> QED BY <2>2, <2>3, <2>4, <2>5, <2>6, RecordedRow, WorkerRecords
<1>2. CASE CallFails(s) \/ SaveFails(s) \/ Finish(s)
  <2> DEFINE k == work[s].job
             rest == work[s].todo
             w == IF rest = {} THEN Idle ELSE [pc |-> "batch", todo |-> rest]
  <2>1. /\ work[s].pc \in {"calling", "saving"}
        /\ work' = [work EXCEPT ![s] = w]
        /\ UNCHANGED <<memory, calls, slips>>
    BY <1>2 DEF CallFails, SaveFails, Finish, Record, Continue
  <2>2. \E row \in {Failed(job[k]), Completed(job[k])} :
          job' = job \/ job' = [job EXCEPT ![k] = row]
    BY <1>2 DEF CallFails, SaveFails, Finish, Record
  <2>3. /\ k \in Held(s) /\ Held(s) = rest \cup {k} /\ Todo(work[s]) = rest
        /\ k \notin rest
    BY <2>1 DEF Held, Holding, Todo, IInv, ClaimedOnce
  <2>4. w \in Worker /\ Holding(w) = rest /\ Todo(w) = rest /\ w.pc \in {"idle", "batch"}
    BY <2>1, RestOfBatch
  <2> HIDE DEF w, k, rest
  <2>5. CASE job' = job
    <3>1. slips' \in 0..MaxSlips /\ memory' \in [Users -> SUBSET Contents]
      BY <2>1 DEF IInv, TypeOK
    <3> QED BY <2>1, <2>3, <2>4, <2>5, <3>1, WorkerMoves
  <2>8. Holding(w) \subseteq Held(s) \ {k} /\ Todo(w) \subseteq Todo(work[s])
    BY <2>3, <2>4
  <2>9. w.pc \in {"calling", "saving"} => w.job \notin w.todo
    BY <2>4
  <2>6. CASE job' = [job EXCEPT ![k] = Failed(job[k])]
    <3> DEFINE row == Failed(job[k])
    <3>1. /\ row \in JobRow /\ row.status # "none" /\ row.user = job[k].user
          /\ row.status \in {"retry"} => calls[k] <= row.attempts /\ row.attempts < MaxAttempts
          /\ row.status = "failed" => row.attempts = MaxAttempts
          /\ row.status \in {"retry", "failed", "done", "gone"}
      BY <2>3, RecordedRow
    <3> HIDE DEF row
    <3> QED BY <2>1, <2>3, <2>4, <2>6, <2>8, <2>9, <3>1, WorkerRecords DEF row
  <2>7. CASE job' = [job EXCEPT ![k] = Completed(job[k])]
    <3> DEFINE row == Completed(job[k])
    <3>1. /\ row \in JobRow /\ row.status # "none" /\ row.user = job[k].user
          /\ row.status \in {"retry"} => calls[k] <= row.attempts /\ row.attempts < MaxAttempts
          /\ row.status = "failed" => row.attempts = MaxAttempts
          /\ row.status \in {"retry", "failed", "done", "gone"}
      BY <2>3, RecordedRow
    <3> HIDE DEF row
    <3> QED BY <2>1, <2>3, <2>4, <2>7, <2>8, <2>9, <3>1, WorkerRecords DEF row
  <2> QED BY <2>2, <2>5, <2>6, <2>7
<1> QED BY <1>1, <1>2

LEMMA MemoriesKeepIInv ==
  ASSUME IInv, NEW u \in Users, NEW c \in Contents,
         \/ CreateMemory(u, c) \/ DeleteMemory(u, c)
         \/ \E new \in Contents : UpdateMemory(u, c, new)
  PROVE  IInv'
<1>1. UNCHANGED <<job, work, calls, slips>> /\ memory' \in [Users -> SUBSET Contents]
  BY DEF CreateMemory, DeleteMemory, UpdateMemory, IInv, TypeOK
<1> QED BY <1>1 DEF IInv, TypeOK, RowsAreOwned, ClaimedOnce, Held, CallsCounted, TodoUntouched

LEMMA IInvInductive == IInv /\ [Next]_vars => IInv'
<1> SUFFICES ASSUME IInv, [Next]_vars
             PROVE  IInv'
  OBVIOUS
<1>1. CASE UNCHANGED vars
  BY <1>1 DEF vars, IInv, TypeOK, RowsAreOwned, ClaimedOnce, Held, CallsCounted, TodoUntouched
<1>2. CASE \E s \in Servers : Server(s)
  BY <1>2, ClaimKeepsIInv, StartKeepsIInv, MovesKeepIInv, RecordsKeepIInv DEF Server, Work
<1>3. CASE \E u \in Users : User(u)
  BY <1>3, RowsKeepIInv, MemoriesKeepIInv DEF User
<1>4. CASE \E j \in Jobs : BecomeDue(j) \/ DeleteConversation(j)
  BY <1>4, RowsKeepIInv
<1> QED BY <1>1, <1>2, <1>3, <1>4 DEF Next

-----------------------------------------------------------------------------
(* The theorems.                                                           *)

\* The rows, the workers and the cost of every job, at all times.
THEOREM QueueInvariant == Spec => []IInv
  BY InitIInv, IInvInductive, PTL DEF Spec

\* ClaimDueMemoryExtractionJobs hands a job to one process.
THEOREM JobsAreClaimedOnce == Spec => []ClaimedOnce
  BY QueueInvariant, PTL DEF IInv

\* Crashes and timeouts included, a job calls the AI at most max_attempts times.
THEOREM CallsStayBounded == Spec => []CallsAreBounded
<1>1. IInv => CallsAreBounded
  BY DEF IInv, CallsCounted, CallsAreBounded
<1> QED BY <1>1, QueueInvariant, PTL

-----------------------------------------------------------------------------
(* Finished jobs.                                                          *)

LEMMA FinalStep ==
  ASSUME IInv, Next, NEW j \in Jobs
  PROVE  /\ job[j].status = "done" => job'[j].status \in {"done", "gone"}
         /\ job[j].status = "failed" => job'[j].status \in {"failed", "gone"}
         /\ job[j].status = "gone" => job'[j].status = "gone"
         /\ job'[j].attempts >= job[j].attempts
<1>0. job[j] \in JobRow /\ job[j].attempts \in 0..MaxAttempts /\ job \in [Jobs -> JobRow]
  BY DEF IInv, TypeOK, JobRow
<1>1. CASE UNCHANGED job
  BY <1>0, <1>1
<1>2. CASE \E s \in Servers : Claim(s) \/ ClaimLost(s)
  <2>1. \/ job'[j] = job[j]
        \/ /\ job[j].status \in {"pending", "retry"}
           /\ job'[j] = [job[j] EXCEPT !.status = "running"]
    BY <1>2 DEF Claim, ClaimLost, MarkRunning, Batch, Claimable
  <2> QED BY <1>0, <2>1 DEF JobRow
<1>3. CASE \E s \in Servers : StartFails(s) \/ CallFails(s) \/ SaveFails(s) \/ Finish(s)
  <2> PICK s \in Servers : StartFails(s) \/ CallFails(s) \/ SaveFails(s) \/ Finish(s)
    BY <1>3
  <2>1. \/ job' = job
        \/ \E k \in Held(s) : \E row \in {Failed(job[k]), Completed(job[k])} :
             job' = [job EXCEPT ![k] = row]
    <3>1. CASE StartFails(s)
      BY <3>1 DEF StartFails, Held, Holding, Todo
    <3>2. CASE CallFails(s) \/ SaveFails(s) \/ Finish(s)
      BY <3>2 DEF CallFails, SaveFails, Finish, Record, Held, Holding, Todo
    <3> QED BY <3>1, <3>2
  <2>2. CASE \E k \in Held(s) : \E row \in {Failed(job[k]), Completed(job[k])} :
               job' = [job EXCEPT ![k] = row]
    <3>0. PICK k \in Held(s) : \E row \in {Failed(job[k]), Completed(job[k])} :
            job' = [job EXCEPT ![k] = row]
      BY <2>2
    <3>1. PICK row \in {Failed(job[k]), Completed(job[k])} : job' = [job EXCEPT ![k] = row]
      BY <3>0
    <3>2. k \in Jobs /\ job[k].status \in {"running", "gone"}
      BY HeldJobs DEF IInv, ClaimedOnce
    <3>3. /\ row.attempts >= job[k].attempts
          /\ job[k].status = "gone" => row.status = "gone"
      BY RecordedRow
    <3>4. IF j = k THEN job'[j] = row ELSE job'[j] = job[j]
      BY <1>0, <3>1
    <3> QED BY <1>0, <3>2, <3>3, <3>4
  <2> QED BY <1>1, <2>1, <2>2
<1>4. CASE \E u \in Users : Enqueue(u)
  <2> PICK u \in Users : Enqueue(u)
    BY <1>4
  <2> DEFINE row == [user |-> u, attempts |-> 0, due |-> TRUE, status |-> "pending"]
  <2>1. PICK k \in Jobs : job[k].status = "none" /\ job' = [job EXCEPT ![k] = row]
    BY DEF Enqueue
  <2>2. job[k].attempts = 0
    BY <2>1 DEF IInv, CallsCounted
  <2> QED BY <1>0, <2>1, <2>2
<1>5. CASE \E k \in Jobs : BecomeDue(k) \/ DeleteConversation(k)
  <2>1. \/ job'[j] = job[j]
        \/ job[j].status = "retry" /\ job'[j] = [job[j] EXCEPT !.due = TRUE]
        \/ job'[j] = [job[j] EXCEPT !.status = "gone"]
    BY <1>0, <1>5 DEF BecomeDue, DeleteConversation
  <2> QED BY <1>0, <2>1 DEF JobRow
<1> QED BY <1>1, <1>2, <1>3, <1>4, <1>5
        DEF Next, Server, User, Work, Start, Save, Answers, Answered, Expire, Crash, CreateMemory,
            UpdateMemory, DeleteMemory

\* No late answer, retry or crash reopens a job that has ended.
THEOREM JobsStayFinal == Spec => FinalStays
<1> DEFINE Step ==
      \A j \in Jobs :
       /\ job[j].status = "done" => job'[j].status \in {"done", "gone"}
       /\ job[j].status = "failed" => job'[j].status \in {"failed", "gone"}
       /\ job[j].status = "gone" => job'[j].status = "gone"
       /\ job'[j].attempts >= job[j].attempts
<1>1. IInv /\ [Next]_vars => [Step]_job
  BY FinalStep DEF vars
<1> QED BY <1>1, QueueInvariant, PTL DEF Spec, FinalStays

-----------------------------------------------------------------------------
(* Stranded jobs.                                                          *)

\* Slips are counted, whoever slips.
LEMMA SlipsCount ==
  ASSUME slips \in Nat, [Next]_vars
  PROVE  \/ slips' = slips + 1
         \/ slips' = slips /\ ~\E s \in Servers : ClaimLost(s) \/ Expire(s) \/ Crash(s)
<1>1. ASSUME NEW s \in Servers, ClaimLost(s) \/ Expire(s) \/ Crash(s)
      PROVE  slips' = slips + 1
  BY <1>1 DEF ClaimLost, Expire, Crash, Slip
<1>2. ASSUME NEW s \in Servers, Claim(s) \/ Work(s)
      PROVE  slips' = slips
  BY <1>2 DEF Claim, Work, Start, StartFails, CallFails, Save, SaveFails, Finish, Record
<1>3. ASSUME NEW s \in Servers, Answers(s)
      PROVE  slips' = slips
  BY <1>3 DEF Answers, Answered
<1>4. ASSUME NEW u \in Users, User(u)
      PROVE  slips' = slips
  BY <1>4 DEF User, Enqueue, CreateMemory, UpdateMemory, DeleteMemory
<1>5. ASSUME NEW j \in Jobs, BecomeDue(j) \/ DeleteConversation(j)
      PROVE  slips' = slips
  BY <1>5 DEF BecomeDue, DeleteConversation
<1>6. ASSUME UNCHANGED vars
      PROVE  slips' = slips
  BY <1>6 DEF vars
<1>7. slips' = slips + 1 \/ slips' = slips
  BY <1>1, <1>2, <1>3, <1>4, <1>5, <1>6 DEF Next, Server
<1> QED BY <1>1, <1>7

\* A context ends only by a slip.
LateSlipped ==
  \A s \in Servers : work[s].pc \in {"calling", "saving"} /\ work[s].late => slips # 0

LEMMA LateSlippedInductive == IInv /\ LateSlipped /\ [Next]_vars => LateSlipped'
<1> SUFFICES ASSUME IInv, LateSlipped, [Next]_vars, NEW s \in Servers,
                    work'[s].pc \in {"calling", "saving"}, work'[s].late
             PROVE  slips' # 0
  BY DEF LateSlipped
<1>0. work \in [Servers -> Worker] /\ slips \in Nat /\ slips' \in Nat
  BY IInvInductive, JobsAssumption DEF IInv, TypeOK
<1>1. CASE slips' # slips
  BY <1>0, <1>1, SlipsCount
<1>2. CASE slips' = slips
  <2>1. CASE work'[s] = work[s]
    BY <1>2, <2>1 DEF LateSlipped
  <2>2. CASE \E t \in Servers : Save(t)
    BY <1>0, <1>2, <2>2 DEF Save, LateSlipped, Worker
  <2>3. CASE \E t \in Servers : Claim(t) \/ Start(t) \/ StartFails(t) \/ Answers(t)
    BY <1>0, <2>1, <2>3 DEF Claim, Start, StartFails, Answers, Answered, Idle
  <2>4. CASE \E t \in Servers : CallFails(t) \/ SaveFails(t) \/ Finish(t)
    BY <1>0, <2>1, <2>4 DEF CallFails, SaveFails, Finish, Record, Continue, Idle
  <2>5. CASE UNCHANGED work
    BY <2>1, <2>5
  <2> QED BY <1>0, <1>2, <2>2, <2>3, <2>4, <2>5
          DEF Next, Server, User, Work, ClaimLost, Expire, Crash, Slip, Enqueue, BecomeDue,
              DeleteConversation, CreateMemory, UpdateMemory, DeleteMemory, vars
<1> QED BY <1>1, <1>2

LEMMA StrandedStep ==
  ASSUME IInv, LateSlipped, OnlySlipsStrand, [Next]_vars
  PROVE  OnlySlipsStrand'
<1> SUFFICES ASSUME slips' = 0, NEW j \in Jobs, job'[j].status = "running"
             PROVE  \E s \in Servers : j \in Held(s)'
  BY DEF OnlySlipsStrand, Stranded
<1>0. work \in [Servers -> Worker] /\ slips \in Nat /\ job \in [Jobs -> JobRow]
  BY JobsAssumption DEF IInv, TypeOK
<1>1. slips = 0 /\ ~\E s \in Servers : ClaimLost(s) \/ Expire(s) \/ Crash(s)
  BY <1>0, SlipsCount
<1>2. job[j].status = "running" => \E s \in Servers : j \in Held(s)
  BY <1>1 DEF OnlySlipsStrand, Stranded
<1>3. CASE \E s \in Servers : Claim(s)
  <2> PICK s \in Servers : Claim(s)
    BY <1>3
  <2>1. Held(s)' = Batch /\ Held(s) = {} /\ \A t \in Servers \ {s} : Held(t)' = Held(t)
    BY <1>0 DEF Claim, Held, Holding, Todo
  <2>2. j \in Batch \/ job[j].status = "running"
    BY DEF Claim, MarkRunning
  <2> QED BY <1>2, <2>1, <2>2
<1>4. CASE \E s \in Servers : StartFails(s)
  <2> PICK s \in Servers : StartFails(s)
    BY <1>4
  <2>1. PICK k \in work[s].todo :
          /\ job' = [job EXCEPT ![k] = Failed(@)]
          /\ work' = [work EXCEPT ![s] =
                 IF @.todo = {k} THEN Idle ELSE [pc |-> "batch", todo |-> @.todo \ {k}]]
    BY DEF StartFails
  <2>2. work[s].pc = "batch" /\ Held(s) = work[s].todo
    BY DEF StartFails, Held, Holding, Todo
  <2>3. Held(s)' = Held(s) \ {k} /\ \A t \in Servers \ {s} : Held(t)' = Held(t)
    BY <1>0, <2>1, <2>2 DEF Held, Holding, Todo, Idle
  <2>4. k \in Jobs /\ Failed(job[k]).status # "running"
    BY <2>2, RecordedRow, HeldJobs
  <2>5. j # k /\ job'[j] = job[j]
    BY <1>0, <2>1, <2>4
  <2> QED BY <1>2, <2>3, <2>5
<1>5. CASE \E s \in Servers : CallFails(s) \/ SaveFails(s) \/ Finish(s)
  <2> PICK s \in Servers : CallFails(s) \/ SaveFails(s) \/ Finish(s)
    BY <1>5
  <2> DEFINE k == work[s].job
  <2>1. work[s].pc \in {"calling", "saving"} /\ ~work[s].late
    BY <1>1 DEF CallFails, SaveFails, Finish, LateSlipped
  <2>2. k \in Held(s) /\ Held(s) = work[s].todo \cup {k}
    BY <2>1 DEF Held, Holding, Todo
  <2>3. \E row \in {Failed(job[k]), Completed(job[k])} : job' = [job EXCEPT ![k] = row]
    BY <2>1 DEF CallFails, SaveFails, Finish, Record
  <2>4. work' = [work EXCEPT ![s] = IF @.todo = {} THEN Idle ELSE [pc |-> "batch", todo |-> @.todo]]
    BY DEF CallFails, SaveFails, Finish, Record, Continue
  <2>5. Held(s)' = work[s].todo /\ \A t \in Servers \ {s} : Held(t)' = Held(t)
    BY <1>0, <2>4 DEF Held, Holding, Todo, Idle
  <2>6. j # k /\ job'[j] = job[j]
    <3> HIDE DEF k
    <3> QED BY <1>0, <2>2, <2>3, RecordedRow, HeldJobs
  <2> QED BY <1>2, <2>2, <2>5, <2>6
<1>6. CASE \E s \in Servers : Start(s) \/ Answers(s) \/ Save(s)
  <2> PICK s \in Servers : Start(s) \/ Answers(s) \/ Save(s)
    BY <1>6
  <2>1. UNCHANGED job
    BY DEF Start, Answers, Answered, Save
  <2>2. \A t \in Servers : Held(t) \subseteq Held(t)'
    <3>1. CASE Start(s)
      BY <1>0, <3>1 DEF Start, Held, Holding, Todo
    <3>2. CASE Answers(s)
      BY <1>0, <3>2 DEF Answers, Answered, Held, Holding, Todo
    <3>3. CASE Save(s)
      BY <1>0, <3>3 DEF Save, Held, Holding, Todo, Worker
    <3> QED BY <3>1, <3>2, <3>3
  <2> QED BY <1>2, <2>1, <2>2
<1>7. CASE \/ \E u \in Users : User(u)
           \/ \E k \in Jobs : BecomeDue(k) \/ DeleteConversation(k)
           \/ UNCHANGED vars
  <2>1. UNCHANGED work
    BY <1>7 DEF User, Enqueue, BecomeDue, DeleteConversation, CreateMemory, UpdateMemory,
                DeleteMemory, vars
  <2>2. job[j].status = "running"
    <3>1. CASE UNCHANGED job
      BY <3>1
    <3>2. CASE \E u \in Users : Enqueue(u)
      BY <1>0, <3>2 DEF Enqueue
    <3>3. CASE \E k \in Jobs : BecomeDue(k) \/ DeleteConversation(k)
      BY <1>0, <3>3 DEF BecomeDue, DeleteConversation, JobRow
    <3> QED BY <1>7, <3>1, <3>2, <3>3
            DEF User, CreateMemory, UpdateMemory, DeleteMemory, vars
  <2> QED BY <1>2, <2>1, <2>2 DEF Held
<1> QED BY <1>1, <1>3, <1>4, <1>5, <1>6, <1>7 DEF Next, Server, Work

\* Without a crash, an expired context or a lost claim no job is left running.
THEOREM NothingElseStrands == Spec => []OnlySlipsStrand
<1>1. Init => LateSlipped /\ OnlySlipsStrand
  BY DEF Init, LateSlipped, OnlySlipsStrand, Stranded, Idle
<1> QED BY <1>1, LateSlippedInductive, StrandedStep, QueueInvariant, PTL DEF Spec

-----------------------------------------------------------------------------
(* What is learnt.                                                         *)

\* A worker writes the memories of a user only for a running job of that user.
THEOREM LearningNeedsALiveJob == Spec => LearnsFromLiveJobs
<1> DEFINE Step ==
      \A u \in Users : memory'[u] # memory[u] /\ work' # work =>
       \E s \in Servers : /\ work[s].pc = "saving"
                          /\ job[work[s].job].user = u
                          /\ job[work[s].job].status = "running"
<1>1. IInv /\ [Next]_vars => [Step]_memory
  <2> SUFFICES ASSUME IInv, [Next]_vars, NEW u \in Users,
                      memory'[u] # memory[u], work' # work
               PROVE  \E s \in Servers : /\ work[s].pc = "saving"
                                         /\ job[work[s].job].user = u
                                         /\ job[work[s].job].status = "running"
    OBVIOUS
  <2>1. PICK s \in Servers : Save(s)
    BY DEF Next, Server, User, Work, Claim, ClaimLost, Start, StartFails, Answers, Answered,
           Expire, CallFails, SaveFails, Finish, Record, Crash, Enqueue, BecomeDue,
           DeleteConversation, CreateMemory, UpdateMemory, DeleteMemory, vars
  <2>2. work[s].pc = "saving" /\ job[work[s].job].status # "gone"
    BY <2>1 DEF Save, MayReference
  <2>3. work[s].job \in Held(s)
    BY <2>2 DEF Held, Holding
  <2>4. job[work[s].job].user = u
    BY <2>1 DEF Save, IInv, TypeOK
  <2> QED BY <2>2, <2>3, <2>4 DEF IInv, ClaimedOnce
<1> QED BY <1>1, QueueInvariant, PTL DEF Spec, LearnsFromLiveJobs

=============================================================================
