--------------------------- MODULE WhatsAppRunner ---------------------------
(***************************************************************************)
(* The embedded WhatsApp runner: Start, Stop and RefreshPairing under      *)
(* r.mu, the goroutines of a run (QR codes, background reconnect, health   *)
(* ticks), the events and messages of the WhatsApp client, and the status  *)
(* reports that all of them write to whatsapp_accounts and to r.account.   *)
(*                                                                         *)
(* A run is one startLocked that got as far as a client; runs are numbered *)
(* and 0 stands for nil.  A status report is an UPDATE, a SELECT and the   *)
(* assignment of r.account, one action each, since nothing orders the      *)
(* reports of two goroutines.  A stored status and its QR code are one     *)
(* value: "qr" is pending_qr with a code, "pending" pending_qr without.    *)
(*                                                                         *)
(* The client is the whatsmeow library, modelled by what the runner uses   *)
(* it for: it connects, logs in once it is paired, offers QR codes until   *)
(* then, reconnects by itself what it lost, and calls its event handlers   *)
(* from goroutines of its own.  Of the data races on r.client the one in   *)
(* logHealthSnapshot is modelled: a nil client ends the process.           *)
(***************************************************************************)
EXTENDS Integers, FiniteSets

CONSTANTS
  MaxRuns,      \* bound on the runs ever started: no Start, and a launch that fails, after them
  MaxRefreshes, \* bound on the RefreshPairing requests
  MaxChanges,   \* bound on what the phone and the network do to a connection
  MaxFailures,  \* bound on failing statements, failing file operations, kills
  MaxEvents,    \* event handlers at work at the same time
  Messages      \* the messages that arrive

ASSUME RunnerAssumption ==
  /\ MaxRuns \in Nat /\ MaxRefreshes \in Nat /\ MaxChanges \in Nat
  /\ MaxFailures \in Nat /\ MaxEvents \in Nat

VARIABLES
  proc,      \* the process: "new" (main has not started the runner), "up", "down"
  call,      \* the call that holds r.mu, the context it was made with, and where it is
  client,    \* run of r.client
  runCtx,    \* run of r.runCtx and r.runCancel
  latest,    \* runs started so far
  ctx,       \* context of each run: its parent while it lives, or "done"
  qr,        \* goroutine of handleQR of each run
  loop,      \* goroutine of startReconnectLoop of each run
  health,    \* goroutine of healthLoop of each run
  report,    \* status reports in flight, by who makes them
  socket,    \* connection of r.client
  paired,    \* the session database holds a device
  db,        \* status and QR code in whatsapp_accounts
  account,   \* status and QR code in r.account
  msg,       \* the messages
  refreshes, changes, failures  \* used up of the bounds

runner == <<proc, call, client, runCtx, latest, ctx>>
goroutines == <<qr, loop, health>>
world == <<socket, paired, changes>>
status == <<db, account>>
vars == <<runner, goroutines, world, status, report, msg, refreshes, failures>>

Runs == 1..MaxRuns
Statuses == {"pending", "qr", "connected", "disconnected"}
Reporters == {<<"call", 0>>} \cup ({"qr", "loop", "health"} \X Runs) \cup ({"event"} \X (1..MaxEvents))
Caller == <<"call", 0>>

CallRow ==
  [op : {"none", "start", "refresh", "stop"}, live : BOOLEAN,
   pc : {"free", "stop", "stopped", "wait", "reset", "row", "launch", "connect", "connected",
         "failed"}]
ReportRow ==
  [phase : {"none"}] \cup [phase : {"write", "fetch", "keep"}, status : Statuses]
MessageRow ==
  [st : {"none", "ready", "replying", "routed", "dropped"}, run : 0..MaxRuns]

Msg(st) == [st |-> st, run |-> 0]
NoReport == [phase |-> "none"]
Free == [op |-> "none", pc |-> "free", live |-> TRUE]

Init ==
  /\ proc = "new" /\ call = Free
  /\ client = 0 /\ runCtx = 0 /\ latest = 0
  /\ ctx = [g \in Runs |-> "none"]
  /\ qr = [g \in Runs |-> "none"]
  /\ loop = [g \in Runs |-> "none"]
  /\ health = [g \in Runs |-> "none"]
  /\ report = [x \in Reporters |-> NoReport]
  /\ socket = "down" /\ paired \in BOOLEAN  \* as an earlier process left it
  /\ db = "pending" /\ account = "none"
  /\ msg = [m \in Messages |-> Msg("none")]
  /\ refreshes = 0 /\ changes = 0 /\ failures = 0

Changes == changes < MaxChanges /\ changes' = changes + 1
Fails == failures < MaxFailures /\ failures' = failures + 1

Quiet(x) == report[x] = NoReport
Report(x, s) == report' = [report EXCEPT ![x] = [phase |-> "write", status |-> s]]

\* reportStatus("pending_qr") sends the QR code along that r.account has.
Pending == IF account = "qr" THEN "qr" ELSE "pending"

LoggedIn == client # 0 /\ socket = "in"

\* Goroutines of a run, counted by retryWG.
Alive(g) == \/ qr[g] \in {"run", "closing"}
            \/ loop[g] \in {"new", "wait", "closing"}
            \/ health[g] \in {"idle", "up", "down"}
Replying(m) == msg[m].st = "replying"

\* The process ends, and everything in it.
EndProcess(next) ==
  /\ proc' = next
  /\ call' = Free /\ client' = 0 /\ runCtx' = 0
  /\ ctx' = [g \in Runs |-> IF g <= latest THEN "done" ELSE "none"]
  /\ qr' = [g \in Runs |-> "none"]
  /\ loop' = [g \in Runs |-> "none"]
  /\ health' = [g \in Runs |-> "none"]
  /\ report' = [x \in Reporters |-> NoReport]
  /\ socket' = "down" /\ account' = "none"
  /\ msg' = [m \in Messages |-> IF msg[m].st \in {"none", "routed"} THEN msg[m]
                                 ELSE Msg("dropped")]
  /\ UNCHANGED <<latest, paired, db, changes, refreshes>>

\* Unless it was told to end, it is started again.
Restart == EndProcess(IF call.op = "stop" THEN "down" ELSE "new")

Crash == proc # "down" /\ Restart /\ Fails

\* A goroutine dereferences a nil pointer.
Panic == Restart /\ UNCHANGED failures

-----------------------------------------------------------------------------
(* Status reports: reportStatus, reportQRCode, reportAccountStatus.        *)

\* The context a report is made with has ended.
Expired(x) ==
  CASE x = Caller -> IF call.pc = "stopped" THEN ~call.live ELSE ctx[latest] = "done"
    [] x[1] \in {"qr", "loop"} -> ctx[x[2]] = "done"
    [] OTHER -> FALSE

\* UPDATE whatsapp_accounts.
Write(x) ==
  /\ report[x].phase = "write" /\ ~Expired(x)
  /\ db' = report[x].status
  /\ report' = [report EXCEPT ![x].phase = "fetch"]
  /\ UNCHANGED <<runner, goroutines, world, account, msg, refreshes, failures>>

\* GetWhatsAppAccountByID.
Fetch(x) ==
  /\ report[x].phase = "fetch" /\ ~Expired(x)
  /\ report' = [report EXCEPT ![x] = [phase |-> "keep", status |-> db]]
  /\ UNCHANGED <<runner, goroutines, world, status, msg, refreshes, failures>>

\* r.account = account
Keep(x) ==
  /\ report[x].phase = "keep"
  /\ account' = report[x].status
  /\ report' = [report EXCEPT ![x] = NoReport]
  /\ UNCHANGED <<runner, goroutines, world, db, msg, refreshes, failures>>

Drop(x) ==
  /\ report[x].phase \in {"write", "fetch"}
  /\ IF Expired(x) THEN UNCHANGED failures ELSE Fails
  /\ report' = [report EXCEPT ![x] = NoReport]
  /\ UNCHANGED <<runner, goroutines, world, status, msg, refreshes>>

-----------------------------------------------------------------------------
(* The calls that hold r.mu.                                               *)

At(pc) == call.pc = pc
Goto(pc) == call' = [call EXCEPT !.pc = pc]

\* main starts the runner before it serves requests.
Start ==
  /\ proc = "new" /\ At("free")
  /\ latest < MaxRuns
  /\ call' = [op |-> "start", pc |-> "launch", live |-> TRUE]
  /\ UNCHANGED <<proc, client, runCtx, latest, ctx, goroutines, world, status, report, msg,
                 refreshes, failures>>

RefreshPairing ==
  /\ proc = "up" /\ At("free")
  /\ refreshes < MaxRefreshes /\ refreshes' = refreshes + 1
  /\ call' = [op |-> "refresh", pc |-> "stop", live |-> TRUE]
  /\ UNCHANGED <<proc, client, runCtx, latest, ctx, goroutines, world, status, report, msg, failures>>

\* main is told to shut down.
Stop ==
  /\ proc = "up" /\ At("free")
  /\ IF client = 0 /\ runCtx = 0
     THEN EndProcess("down") /\ UNCHANGED failures
     ELSE /\ call' = [op |-> "stop", pc |-> "stop", live |-> TRUE]
          /\ UNCHANGED <<proc, client, runCtx, latest, ctx, goroutines, world, status, report, msg,
                         refreshes, failures>>

EndContexts(parents) == ctx' = [g \in Runs |-> IF ctx[g] \in parents THEN "done" ELSE ctx[g]]

\* The HTTP request of a refresh ends with its handler, and its context with it.
Return ==
  /\ call' = Free
  /\ proc' = IF proc = "new" THEN "up" ELSE proc

ReturnError ==
  /\ Return
  /\ client' = 0
  /\ EndContexts({"request"})
  /\ UNCHANGED <<runCtx, latest, goroutines, socket, changes, report, msg, refreshes>>

\* The caller of a refresh hangs up, or the 10 seconds of a shutdown are over.
ContextEnds ==
  /\ call.op \in {"refresh", "stop"} /\ call.live
  /\ call' = [call EXCEPT !.live = FALSE]
  /\ EndContexts({"request"})
  /\ UNCHANGED <<proc, client, runCtx, latest, goroutines, world, status, report, msg, refreshes,
                 failures>>

\* Variant: a refresh leaves the context of the run to the request it was made for.
CancelledOnStop == IF call.op = "stop" THEN {runCtx} ELSE {}

\* The run that r.runCancel ends, if there is one.
CancelledRuns == {runCtx}

\* stopLocked, up to the report.
CancelRun ==
  /\ At("stop")
  /\ ctx' = [g \in Runs |-> IF g \in CancelledRuns THEN "done" ELSE ctx[g]]
  /\ runCtx' = 0
  /\ IF client = 0
     THEN Goto("wait") /\ UNCHANGED <<socket, report>>
     ELSE Goto("stopped") /\ socket' = "down" /\ Report(Caller, "disconnected")
  /\ UNCHANGED <<proc, client, latest, goroutines, paired, changes, status, msg, refreshes, failures>>

\* r.client = nil
DropClient ==
  /\ At("stopped") /\ Quiet(Caller)
  /\ client' = 0
  /\ Goto("wait")
  /\ UNCHANGED <<proc, runCtx, latest, ctx, goroutines, world, status, report, msg, refreshes, failures>>

\* Variant: a message is added to replyWG before it has r.mu.
CountedEarly(m) == msg[m].st \in {"ready", "replying"}

\* What replyWG counts.
Counted(m) == Replying(m)

WaitDone == (\A g \in Runs : ~Alive(g)) /\ (\A m \in Messages : ~Counted(m))

\* stopLocked returns; after Stop main ends the process.
Stopped ==
  /\ At("wait")
  /\ WaitDone \/ ~call.live
  /\ IF call.op = "stop"
     THEN EndProcess("down") /\ UNCHANGED failures
     ELSE /\ Goto("reset")
          /\ UNCHANGED <<proc, client, runCtx, latest, ctx, goroutines, world, status, report, msg,
                         refreshes, failures>>

\* removeWhatsAppSessionDB, and r.account is reset.
Reset ==
  /\ At("reset")
  /\ paired' = FALSE /\ account' = "pending"
  /\ Goto("row")
  /\ UNCHANGED <<proc, client, runCtx, latest, ctx, goroutines, socket, changes, db, report, msg,
                 refreshes, failures>>

ResetFails ==
  /\ At("reset") /\ Fails
  /\ paired' \in {paired, FALSE}
  /\ ReturnError
  /\ UNCHANGED status

\* Variant: the refresh goes on under a context of its own.
OwnContext == TRUE

\* A statement under the context of the call is refused once that has ended.
CallIsLive == call.live

\* UpdateWhatsAppStatus(ctx, pending_qr).
ResetRow ==
  /\ At("row") /\ CallIsLive
  /\ db' = "pending"
  /\ Goto("launch")
  /\ UNCHANGED <<proc, client, runCtx, latest, ctx, goroutines, world, account, report, msg,
                 refreshes, failures>>

ResetRowFails ==
  /\ At("row")
  /\ IF CallIsLive THEN Fails ELSE UNCHANGED failures
  /\ ReturnError
  /\ UNCHANGED <<paired, status>>

\* startLocked, up to the connection: the account is loaded, the session opened.
Launch ==
  /\ At("launch") /\ CallIsLive /\ latest < MaxRuns
  /\ LET g == latest + 1
     IN /\ latest' = g /\ client' = g /\ runCtx' = g
        /\ ctx' = [ctx EXCEPT ![g] = IF call.op = "refresh" THEN "request" ELSE "server"]
        /\ qr' = [qr EXCEPT ![g] = IF paired THEN "none" ELSE "run"]
  /\ account' = db
  /\ Goto("connect")
  /\ UNCHANGED <<proc, loop, health, world, db, report, msg, refreshes, failures>>

\* Out of runs, it fails without a failure to blame: a bound of the model.
LaunchFails ==
  /\ At("launch")
  /\ IF CallIsLive /\ latest < MaxRuns THEN Fails ELSE UNCHANGED failures
  /\ ReturnError
  /\ account' \in {account, db}
  /\ UNCHANGED <<paired, db>>

Connect ==
  /\ At("connect") /\ ctx[latest] # "done"
  /\ socket' = "up"
  /\ Report(Caller, "connected")
  /\ Goto("connected")
  /\ UNCHANGED <<proc, client, runCtx, latest, ctx, goroutines, paired, changes, status, msg,
                 refreshes, failures>>

\* Five attempts fail, or the context ends.
ConnectFails ==
  /\ At("connect")
  /\ Report(Caller, "disconnected")
  /\ Goto("failed")
  /\ UNCHANGED <<proc, client, runCtx, latest, ctx, goroutines, world, status, msg, refreshes, failures>>

\* Variant: nothing reconnects after a failed start.
LoopStartsNever == "none"

LoopStarts == IF At("failed") THEN "new" ELSE "none"

\* The end of startLocked.
Started ==
  /\ call.pc \in {"connected", "failed"} /\ Quiet(Caller)
  /\ loop' = [loop EXCEPT ![latest] = LoopStarts]
  /\ health' = [health EXCEPT ![latest] = "idle"]
  /\ Return
  /\ IF call.op = "refresh" THEN EndContexts({"request"}) ELSE UNCHANGED ctx
  /\ UNCHANGED <<client, runCtx, latest, qr, world, status, report, msg, refreshes, failures>>

-----------------------------------------------------------------------------
(* handleQR.                                                               *)

QRCode(g) ==
  /\ qr[g] = "run" /\ Quiet(<<"qr", g>>)
  /\ client = g /\ socket = "up" /\ ~paired /\ Changes
  /\ Report(<<"qr", g>>, "qr")
  /\ UNCHANGED <<runner, goroutines, socket, paired, status, msg, refreshes, failures>>

QRSuccess(g) ==
  /\ qr[g] = "run" /\ Quiet(<<"qr", g>>)
  /\ paired
  /\ qr' = [qr EXCEPT ![g] = "closing"]
  /\ Report(<<"qr", g>>, "connected")
  /\ UNCHANGED <<runner, loop, health, world, status, msg, refreshes, failures>>

\* Nobody scanned a code; the client disconnects.
QRTimeout(g) ==
  /\ qr[g] = "run" /\ Quiet(<<"qr", g>>)
  /\ client = g /\ socket = "up" /\ ~paired /\ Changes
  /\ socket' = "down"
  /\ qr' = [qr EXCEPT ![g] = "closing"]
  /\ Report(<<"qr", g>>, Pending)
  /\ UNCHANGED <<runner, loop, health, paired, status, msg, refreshes, failures>>

QREnds(g) ==
  /\ qr[g] = "closing" \/ (qr[g] = "run" /\ ctx[g] = "done")
  /\ Quiet(<<"qr", g>>)
  /\ qr' = [qr EXCEPT ![g] = "done"]
  /\ UNCHANGED <<runner, loop, health, world, status, report, msg, refreshes, failures>>

-----------------------------------------------------------------------------
(* startReconnectLoop.                                                     *)

\* ctx := r.runCtx.  Done is called on it at once.
LoopBegins(g) ==
  /\ loop[g] = "new"
  /\ \/ /\ runCtx # 0
        /\ loop' = [loop EXCEPT ![g] = "wait"]
        /\ UNCHANGED <<runner, qr, health, world, status, report, msg, refreshes, failures>>
     \/ runCtx = 0 /\ Panic

LoopConnects(g) ==
  /\ loop[g] = "wait" /\ ctx[g] # "done"
  /\ client # 0 /\ socket = "down"
  /\ socket' = "up"
  /\ loop' = [loop EXCEPT ![g] = "closing"]
  /\ Report(<<"loop", g>>, "connected")
  /\ UNCHANGED <<runner, qr, health, paired, changes, status, msg, refreshes, failures>>

LoopEnds(g) ==
  /\ loop[g] = "closing" \/ (loop[g] = "wait" /\ (ctx[g] = "done" \/ client = 0))
  /\ Quiet(<<"loop", g>>)
  /\ loop' = [loop EXCEPT ![g] = "done"]
  /\ UNCHANGED <<runner, qr, health, world, status, report, msg, refreshes, failures>>

-----------------------------------------------------------------------------
(* healthLoop, logHealthSnapshot.                                          *)

\* connected && loggedIn is read of a client that is there.
HealthTick(g) ==
  /\ health[g] = "idle" /\ Quiet(<<"health", g>>)
  /\ client # 0
  /\ health' = [health EXCEPT ![g] = IF socket = "in" THEN "up" ELSE "down"]
  /\ UNCHANGED <<runner, qr, loop, world, status, report, msg, refreshes, failures>>

\* Variant: the snapshot reports nothing while it waits for a pairing.
SnapshotPaired(up) == IF up \/ ~paired THEN {} ELSE {"disconnected"}

\* What there is to report.
Snapshot(up) ==
  IF ~paired THEN {Pending} ELSE IF up THEN {} ELSE {"disconnected"}

\* r.client.Store is read next.
HealthReports(g) ==
  /\ health[g] \in {"up", "down"}
  /\ \/ /\ client # 0
        /\ health' = [health EXCEPT ![g] = "idle"]
        /\ IF Snapshot(health[g] = "up") = {}
           THEN UNCHANGED report
           ELSE \E s \in Snapshot(health[g] = "up") : Report(<<"health", g>>, s)
        /\ UNCHANGED <<runner, qr, loop, world, status, msg, refreshes, failures>>
     \/ client = 0 /\ Panic

\* healthCtx is made from the context of the run.
HealthCancelled(g) == ctx[g] = "done"

HealthEnds(g) ==
  /\ health[g] = "idle" /\ Quiet(<<"health", g>>)
  /\ HealthCancelled(g)
  /\ health' = [health EXCEPT ![g] = "done"]
  /\ UNCHANGED <<runner, qr, loop, world, status, report, msg, refreshes, failures>>

-----------------------------------------------------------------------------
(* The client, and handleHealthEvent for the events it sends.              *)

Event(s) == \E e \in 1..MaxEvents : Quiet(<<"event", e>>) /\ Report(<<"event", e>>, s)

\* The phone scans a code.
Pair ==
  /\ client # 0 /\ socket = "up" /\ ~paired /\ Changes
  /\ paired' = TRUE
  /\ UNCHANGED <<runner, goroutines, socket, status, report, msg, refreshes, failures>>

\* events.Connected
Login ==
  /\ client # 0 /\ socket = "up" /\ paired
  /\ socket' = "in"
  /\ Event("connected")
  /\ UNCHANGED <<runner, goroutines, paired, changes, status, msg, refreshes, failures>>

\* events.KeepAliveRestored
KeepAliveRestored ==
  /\ LoggedIn /\ Changes
  /\ Event("connected")
  /\ UNCHANGED <<runner, goroutines, socket, paired, status, msg, refreshes, failures>>

\* events.Disconnected: a client that is paired reconnects by itself.
Disconnected ==
  /\ client # 0 /\ socket \in {"up", "in"} /\ Changes
  /\ socket' = IF paired THEN "lost" ELSE "down"
  /\ Event("disconnected")
  /\ UNCHANGED <<runner, goroutines, paired, status, msg, refreshes, failures>>

AutoReconnect ==
  /\ client # 0 /\ socket = "lost"
  /\ socket' = "up"
  /\ UNCHANGED <<runner, goroutines, paired, changes, status, report, msg, refreshes, failures>>

\* StreamReplaced, ClientOutdated, TemporaryBan, ConnectFailure: it does not.
Kicked ==
  /\ LoggedIn /\ Changes
  /\ socket' = "kicked"
  /\ Event("disconnected")
  /\ UNCHANGED <<runner, goroutines, paired, status, msg, refreshes, failures>>

\* events.LoggedOut: the device is removed from the session.
LoggedOut ==
  /\ LoggedIn /\ Changes
  /\ socket' = "kicked" /\ paired' = FALSE
  /\ Event("disconnected")
  /\ UNCHANGED <<runner, goroutines, status, msg, refreshes, failures>>

-----------------------------------------------------------------------------
(* Messages: handleEvent, reply.                                           *)

\* readyForInbound; a message that comes too early is dropped at once.
ReadyForInbound == LoggedIn /\ account = "connected"

Receive(m) ==
  /\ msg[m].st = "none"
  /\ client # 0
  /\ msg' = [msg EXCEPT ![m].st = IF ReadyForInbound THEN "ready" ELSE "dropped"]
  /\ UNCHANGED <<runner, goroutines, world, status, report, refreshes, failures>>

\* Variant: handleEvent does not lock r.mu.
MayReplyUnlocked == TRUE

MayReply == At("free")

\* replyWG.Add(1); runCtx := r.runCtx, or the background context for nil.
BeginReply(m) ==
  /\ msg[m].st = "ready" /\ MayReply
  /\ msg' = [msg EXCEPT ![m] = [st |-> "replying", run |-> runCtx]]
  /\ UNCHANGED <<runner, goroutines, world, status, report, refreshes, failures>>

Cancelled(m) == msg[m].run # 0 /\ ctx[msg[m].run] = "done"

\* HandleWhatsAppInbound has taken it.
Route(m) ==
  /\ Replying(m)
  /\ ~Cancelled(m)
  /\ msg' = [msg EXCEPT ![m] = Msg("routed")]
  /\ UNCHANGED <<runner, goroutines, world, status, report, refreshes, failures>>

ReplyFails(m) ==
  /\ Replying(m)
  /\ IF Cancelled(m) THEN UNCHANGED failures ELSE Fails
  /\ msg' = [msg EXCEPT ![m] = Msg("dropped")]
  /\ UNCHANGED <<runner, goroutines, world, status, report, refreshes>>

-----------------------------------------------------------------------------

Calls == \/ Start \/ RefreshPairing \/ Stop \/ ContextEnds

Holder ==
  \/ CancelRun \/ DropClient \/ Stopped
  \/ Reset \/ ResetFails \/ ResetRow \/ ResetRowFails
  \/ Launch \/ LaunchFails \/ Connect \/ ConnectFails \/ Started

Goroutine(g) ==
  \/ QRCode(g) \/ QRSuccess(g) \/ QRTimeout(g) \/ QREnds(g)
  \/ LoopBegins(g) \/ LoopConnects(g) \/ LoopEnds(g)
  \/ HealthTick(g) \/ HealthReports(g) \/ HealthEnds(g)

Phone ==
  \/ Pair \/ Login \/ KeepAliveRestored \/ Disconnected \/ AutoReconnect \/ Kicked \/ LoggedOut

Message(m) == Receive(m) \/ BeginReply(m) \/ Route(m) \/ ReplyFails(m)

ReportMoves(x) == Write(x) \/ Fetch(x) \/ Keep(x) \/ Drop(x)

Next ==
  \/ Calls \/ Holder \/ Phone \/ Crash
  \/ \E x \in Reporters : ReportMoves(x)
  \/ \E g \in Runs : Goroutine(g)
  \/ \E m \in Messages : Message(m)

Spec == Init /\ [][Next]_vars

\* Goroutines run on, and the report of a goroutine is a step of it; statements
\* are answered, connecting succeeds at last and ticks go on.  A health loop that
\* has both a tick and the end of its context to choose from chooses at random:
\* strong fairness for HealthEnds.
Fairness ==
  /\ WF_vars(Start \/ Holder \/ ReportMoves(Caller))
  /\ WF_vars(Login \/ AutoReconnect)
  /\ \A e \in 1..MaxEvents : WF_vars(ReportMoves(<<"event", e>>))
  /\ \A g \in Runs :
       /\ WF_vars(QRSuccess(g) \/ QREnds(g) \/ ReportMoves(<<"qr", g>>))
       /\ WF_vars(LoopBegins(g) \/ LoopConnects(g) \/ LoopEnds(g) \/ ReportMoves(<<"loop", g>>))
       /\ WF_vars(HealthTick(g) \/ HealthReports(g) \/ ReportMoves(<<"health", g>>))
       /\ SF_vars(HealthEnds(g))
  /\ \A m \in Messages : WF_vars(BeginReply(m) \/ Route(m) \/ ReplyFails(m))

FairSpec == Spec /\ Fairness

-----------------------------------------------------------------------------
(* What the runner promises.                                               *)

TypeOK ==
  /\ proc \in {"new", "up", "down"}
  /\ call \in CallRow
  /\ client \in 0..latest /\ runCtx \in 0..latest /\ latest \in 0..MaxRuns
  /\ ctx \in [Runs -> {"none", "server", "request", "done"}]
  /\ qr \in [Runs -> {"none", "run", "closing", "done"}]
  /\ loop \in [Runs -> {"none", "new", "wait", "closing", "done"}]
  /\ health \in [Runs -> {"none", "idle", "up", "down", "done"}]
  /\ report \in [Reporters -> ReportRow]
  /\ socket \in {"down", "up", "in", "lost", "kicked"} /\ paired \in BOOLEAN
  /\ db \in Statuses /\ account \in Statuses \cup {"none"}
  /\ msg \in [Messages -> MessageRow]
  /\ refreshes \in 0..MaxRefreshes /\ changes \in 0..MaxChanges /\ failures \in 0..MaxFailures

\* The goroutines of a run are gone when a later one starts, although stopLocked
\* gives up waiting for them when its context ends: no two runs share r.client,
\* the session database or the reports.
OneRun == \A g \in Runs : g < latest => ~Alive(g)

\* A refresh that has not lost its caller removes the session only when no
\* goroutine and no reply uses it.
SessionUnused ==
  call.pc \in {"reset", "row", "launch"} /\ call.op = "refresh" /\ call.live =>
    (\A g \in Runs : ~Alive(g)) /\ (\A m \in Messages : ~Replying(m))

\* stopLocked waits, with r.mu held, only for what it has told to end: the context
\* of every goroutine of a run has ended, and that of every reply but those that
\* took the background context because there was no run.
WaitsForTheCancelled ==
  At("wait") => /\ \A g \in Runs : Alive(g) => ctx[g] = "done"
                /\ \A m \in Messages : Replying(m) => Cancelled(m) \/ msg[m].run = 0

Starting == call.pc \in {"connect", "connected", "failed"}

\* As long as the run that main has started has its context, its health loop is
\* there to correct the stored status; and while its client has a session and is
\* without a connection that it would get back by itself, so is the loop that
\* connects it.
RunsAreTended ==
  client # 0 /\ ctx[client] = "server" /\ ~Starting =>
    /\ health[client] \in {"idle", "up", "down"}
    /\ socket = "down" /\ paired => loop[client] \in {"new", "wait"}

\* Start, Stop and RefreshPairing return, and r.mu is free again, although they
\* wait for goroutines that report, reconnect and reply; and a message that found the
\* runner ready is routed or dropped: handleEvent gets r.mu, and its reply ends.
NothingWaitsForever ==
  /\ call.pc # "free" ~> call.pc = "free"
  /\ \A m \in Messages :
       msg[m].st = "ready" ~> msg[m].st \in {"routed", "dropped"} \/ proc = "down"

\* A stored "connected" does not outlast the connection: the health loop
\* corrects it.
DisconnectionIsNoticed ==
  (db = "connected" /\ client # 0 /\ ~LoggedIn)
    ~> (db # "connected" \/ client = 0 \/ LoggedIn)

\* A run with a paired session logs in, whether or not its first connect fails.
PairedRunComesUp ==
  (client # 0 /\ paired) ~> (LoggedIn \/ socket = "kicked" \/ client = 0 \/ ~paired)

-----------------------------------------------------------------------------
(* The inductive invariant.                                                *)

\* Which call is where.
CallStages ==
  /\ call.op = "none" <=> call.pc = "free"
  /\ call.op = "start" => call.pc \in {"launch", "connect", "connected", "failed"}
  /\ call.op = "stop" => call.pc \in {"stop", "stopped", "wait"}
  /\ call.op = "start" => call.live /\ proc = "new"
  /\ call.op \in {"refresh", "stop"} => proc = "up"
  /\ call.pc \in {"connect", "connected", "failed"} => latest \in Runs

\* What a new process, and a refresh with its caller, starts from.
NothingRuns == \A g \in Runs : ~Alive(g)

CleanStart ==
  /\ proc = "new" /\ call.pc \in {"free", "launch"} => NothingRuns
  /\ \A g \in Runs : g > latest => ~Alive(g)

\* r.client and r.runCtx are those of the last run or nil, and only the context
\* that r.runCancel ends is still alive.
Contexts ==
  /\ client \in {0, latest} /\ runCtx \in {0, latest}
  /\ Starting => client = latest /\ runCtx = latest
  /\ call.pc \in {"stopped", "wait", "reset", "row", "launch"} => runCtx = 0
  /\ call.pc \in {"wait", "reset", "row", "launch"} => client = 0
  /\ proc = "new" /\ call.pc = "free" => client = 0 /\ runCtx = 0
  /\ \A g \in Runs : /\ g <= latest => ctx[g] # "none"
                     /\ ctx[g] \in {"server", "request"} => g = runCtx
  /\ \A m \in Messages : Replying(m) => msg[m].run <= latest

\* Once connected, a client with a session is not left without a connection.
Tended == RunsAreTended /\ (call.pc = "connected" => ~(socket = "down" /\ paired))

IInv ==
  /\ TypeOK
  /\ CallStages
  /\ CleanStart
  /\ OneRun
  /\ SessionUnused
  /\ Contexts
  /\ Tended

=============================================================================
