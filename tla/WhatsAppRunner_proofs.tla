------------------------ MODULE WhatsAppRunner_proofs ------------------------
(***************************************************************************)
(* Proofs of the safety properties of WhatsAppRunner.                      *)
(*                                                                         *)
(* The well-formedness of the state is shown first, action by action, then *)
(* that the remaining parts of IInv are preserved.  What the argument of   *)
(* OneRun comes down to: only startLocked starts goroutines; a refresh     *)
(* reaches it only with a context that still lives, for a statement before *)
(* it is made with that context; and with such a context stopLocked has    *)
(* waited until everything was gone.  Contexts follows r.runCtx and        *)
(* r.client through the calls, and with it what stopLocked waits for and   *)
(* which loops look after a run (Tended).                                  *)
(***************************************************************************)
EXTENDS WhatsAppRunner, TLAPS

(* A new report is well formed, whoever makes it. *)
LEMMA ReportTyped ==
  ASSUME NEW x, NEW s \in Statuses, report \in [Reporters -> ReportRow], Report(x, s)
  PROVE  report' \in [Reporters -> ReportRow]
<1>1. [phase |-> "write", status |-> s] \in ReportRow
  BY DEF ReportRow
<1>2. QED  BY <1>1 DEF Report

LEMMA EventTyped ==
  ASSUME NEW s \in Statuses, report \in [Reporters -> ReportRow], Event(s)
  PROVE  report' \in [Reporters -> ReportRow]
BY ReportTyped DEF Event

(* What is left of the state when the process ends. *)
LEMMA EndTyped ==
  ASSUME TypeOK, NEW next \in {"new", "up", "down"}, EndProcess(next), failures' \in 0..MaxFailures
  PROVE  TypeOK'
<1>1. /\ Free \in CallRow /\ NoReport \in ReportRow
      /\ Msg("dropped") \in MessageRow
  BY RunnerAssumption DEF Free, CallRow, NoReport, ReportRow, Msg, MessageRow
<1>2. msg' \in [Messages -> MessageRow]
  BY <1>1 DEF EndProcess, TypeOK
<1>3. ctx' \in [Runs -> {"none", "server", "request", "done"}]
  BY DEF EndProcess, TypeOK
<1>4. report' \in [Reporters -> ReportRow]
  BY <1>1 DEF EndProcess
<1>5. 0 \in 0..latest /\ latest' = latest
  BY RunnerAssumption DEF TypeOK, EndProcess
<1>6. QED
  BY <1>1, <1>2, <1>3, <1>4, <1>5 DEF EndProcess, TypeOK, Runs

(* Every step keeps the state well formed; calls are where their operation
   allows (CallStages), so that a connected call has a run. *)
LEMMA TypeStep ==
  ASSUME TypeOK, CallStages, [Next]_vars
  PROVE  TypeOK'
<1>0. TypeOK /\ CallStages /\ MaxRuns \in Nat /\ MaxRefreshes \in Nat /\ MaxChanges \in Nat
      /\ MaxFailures \in Nat /\ MaxEvents \in Nat
  BY RunnerAssumption
<1>1. CASE Start
  BY <1>0, <1>1 DEF Start, At, TypeOK, CallStages, NoReport, Free, Msg, Statuses,
     Runs, CallRow, ReportRow, MessageRow, runner, goroutines, world, status
<1>2. CASE RefreshPairing
  BY <1>0, <1>2 DEF RefreshPairing, At, TypeOK, CallStages, NoReport, Free, Msg,
     Statuses, Runs, CallRow, ReportRow, MessageRow, runner, goroutines, world,
     status
<1>3. CASE Stop
  <2>1. CASE client = 0 /\ runCtx = 0
    <3>1. EndProcess("down") /\ failures' \in 0..MaxFailures
      BY <1>0, <1>3, <2>1 DEF Stop, TypeOK
    <3>2. QED  BY <1>0, <3>1, EndTyped
  <2>2. CASE ~(client = 0 /\ runCtx = 0)
    <3>1. call' = [op |-> "stop", pc |-> "stop", live |-> TRUE]
      BY <1>3, <2>2 DEF Stop
    <3>2. call' \in CallRow
      BY <3>1 DEF CallRow
    <3>3. UNCHANGED <<proc, client, runCtx, latest, ctx, goroutines, world, status, report, msg,
                      refreshes, failures>>
      BY <1>3, <2>2 DEF Stop
    <3>4. QED  BY <1>0, <3>2, <3>3 DEF TypeOK, goroutines, world, status
  <2>3. QED  BY <2>1, <2>2
<1>4. CASE ContextEnds
  BY <1>0, <1>4 DEF ContextEnds, EndContexts, TypeOK, CallStages, NoReport, Free,
     Msg, Statuses, Runs, CallRow, ReportRow, MessageRow, runner, goroutines, world,
     status
<1>5. CASE CancelRun
  <2>1. report' \in [Reporters -> ReportRow]
    BY <1>0, <1>5, ReportTyped DEF CancelRun, TypeOK, Statuses
  <2>2. ctx' \in [Runs -> {"none", "server", "request", "done"}]
    BY <1>0, <1>5 DEF CancelRun, TypeOK
  <2>3. call' \in CallRow
    BY <1>0, <1>5 DEF CancelRun, Goto, CallRow, TypeOK
  <2>4. runCtx' = 0 /\ 0 \in 0..latest /\ socket' \in {socket, "down"}
    BY <1>0, <1>5 DEF CancelRun, TypeOK
  <2>5. QED
    BY <1>0, <1>5, <2>1, <2>2, <2>3, <2>4 DEF CancelRun, TypeOK, goroutines, status
<1>6. CASE DropClient
  <2>1. call' \in CallRow
    BY <1>0, <1>6 DEF DropClient, Goto, CallRow, TypeOK
  <2>2. client' = 0 /\ 0 \in 0..latest
    BY <1>0, <1>6 DEF DropClient, TypeOK
  <2>3. QED
    BY <1>0, <1>6, <2>1, <2>2 DEF DropClient, TypeOK, goroutines, world, status
<1>7. CASE Stopped
  <2>1. CASE call.op = "stop"
    <3>1. EndProcess("down") /\ failures' \in 0..MaxFailures
      BY <1>0, <1>7, <2>1 DEF Stopped, TypeOK
    <3>2. QED  BY <1>0, <3>1, EndTyped
  <2>2. CASE call.op # "stop"
    BY <1>0, <1>7, <2>2 DEF Stopped, Goto, CallRow, TypeOK, runner, goroutines, world, status
  <2>3. QED  BY <2>1, <2>2
<1>8. CASE Reset
  BY <1>0, <1>8 DEF Reset, At, Goto, TypeOK, CallStages, NoReport, Free, Msg,
     Statuses, Runs, CallRow, ReportRow, MessageRow, runner, goroutines, world,
     status
<1>9. CASE ResetFails
  <2>1. paired' \in BOOLEAN
    BY <1>0, <1>9 DEF ResetFails, TypeOK
  <2>2. failures' \in 0..MaxFailures
    BY <1>0, <1>9 DEF ResetFails, Fails, TypeOK
  <2>3. QED
    BY <1>0, <1>9, <2>1, <2>2 DEF ResetFails, ReturnError, Return, EndContexts, Free, CallRow,
       TypeOK, goroutines, status
<1>10. CASE ResetRow
  BY <1>0, <1>10 DEF ResetRow, At, Goto, CallIsLive, TypeOK, CallStages, NoReport,
     Free, Msg, Statuses, Runs, CallRow, ReportRow, MessageRow, runner, goroutines,
     world, status
<1>11. CASE ResetRowFails
  BY <1>0, <1>11 DEF ResetRowFails, At, Fails, ReturnError, Return, EndContexts,
     CallIsLive, TypeOK, CallStages, NoReport, Free, Msg, Statuses, Runs, CallRow,
     ReportRow, MessageRow, runner, goroutines, world, status
<1>12. CASE Launch
  <2>1. latest' = latest + 1 /\ latest' \in 0..MaxRuns /\ client' = latest' /\ runCtx' = latest'
    BY <1>0, <1>12 DEF Launch, At, CallStages, TypeOK
  <2>2. ctx' \in [Runs -> {"none", "server", "request", "done"}]
    BY <1>0, <1>12 DEF Launch, TypeOK
  <2>3. qr' \in [Runs -> {"none", "run", "closing", "done"}]
    BY <1>0, <1>12 DEF Launch, TypeOK
  <2>4. call' \in CallRow
    BY <1>0, <1>12 DEF Launch, Goto, CallRow, TypeOK
  <2>5. QED
    BY <1>0, <1>12, <2>1, <2>2, <2>3, <2>4 DEF Launch, TypeOK, world
<1>13. CASE LaunchFails
  BY <1>0, <1>13 DEF LaunchFails, At, Fails, ReturnError, Return, EndContexts,
     CallIsLive, TypeOK, CallStages, NoReport, Free, Msg, Statuses, Runs, CallRow,
     ReportRow, MessageRow, runner, goroutines, world, status
<1>14. CASE Connect
  BY <1>0, <1>14 DEF Connect, At, Goto, Report, TypeOK, CallStages, NoReport, Free,
     Msg, Statuses, Runs, CallRow, ReportRow, MessageRow, runner, goroutines, world,
     status
<1>15. CASE ConnectFails
  BY <1>0, <1>15 DEF ConnectFails, At, Goto, Report, TypeOK, CallStages, NoReport,
     Free, Msg, Statuses, Runs, CallRow, ReportRow, MessageRow, runner, goroutines,
     world, status
<1>16. CASE Started
  BY <1>0, <1>16 DEF Started, At, Return, EndContexts, LoopStarts, Quiet, TypeOK,
     CallStages, NoReport, Free, Msg, Statuses, Runs, CallRow, ReportRow,
     MessageRow, runner, goroutines, world, status
<1>17. CASE Pair
  BY <1>0, <1>17 DEF Pair, Changes, TypeOK, CallStages, NoReport, Free, Msg,
     Statuses, Runs, CallRow, ReportRow, MessageRow, runner, goroutines, world,
     status
<1>18. CASE Login
  <2>1. report' \in [Reporters -> ReportRow]
    BY <1>0, <1>18, EventTyped DEF Login, TypeOK, Statuses
  <2>2. QED
    BY <1>0, <1>18, <2>1 DEF Login, TypeOK, runner, goroutines, world, status, Runs
<1>19. CASE KeepAliveRestored
  <2>1. report' \in [Reporters -> ReportRow]
    BY <1>0, <1>19, EventTyped DEF KeepAliveRestored, TypeOK, Statuses
  <2>2. QED
    BY <1>0, <1>19, <2>1 DEF KeepAliveRestored, Changes, TypeOK, runner, goroutines, world,
       status, Runs
<1>20. CASE Disconnected
  <2>1. report' \in [Reporters -> ReportRow]
    BY <1>0, <1>20, EventTyped DEF Disconnected, TypeOK, Statuses
  <2>2. QED
    BY <1>0, <1>20, <2>1 DEF Disconnected, Changes, TypeOK, runner, goroutines, world, status, Runs
<1>21. CASE AutoReconnect
  BY <1>0, <1>21 DEF AutoReconnect, TypeOK, CallStages, NoReport, Free, Msg,
     Statuses, Runs, CallRow, ReportRow, MessageRow, runner, goroutines, world,
     status
<1>22. CASE Kicked
  <2>1. report' \in [Reporters -> ReportRow]
    BY <1>0, <1>22, EventTyped DEF Kicked, TypeOK, Statuses
  <2>2. QED
    BY <1>0, <1>22, <2>1 DEF Kicked, Changes, TypeOK, runner, goroutines, world, status, Runs
<1>23. CASE LoggedOut
  <2>1. report' \in [Reporters -> ReportRow]
    BY <1>0, <1>23, EventTyped DEF LoggedOut, TypeOK, Statuses
  <2>2. paired' \in BOOLEAN /\ socket' = "kicked"
    BY <1>0, <1>23 DEF LoggedOut
  <2>3. changes' \in 0..MaxChanges
    BY <1>0, <1>23 DEF LoggedOut, Changes, TypeOK
  <2>4. UNCHANGED <<runner, goroutines, status, msg, refreshes, failures>>
    BY <1>23 DEF LoggedOut
  <2>5. QED
    BY <1>0, <2>1, <2>2, <2>3, <2>4 DEF TypeOK, runner, goroutines, status
<1>24. CASE Crash
  <2>1. failures' \in 0..MaxFailures
    BY <1>0, <1>24 DEF Crash, Fails, TypeOK
  <2>2. QED  BY <1>0, <1>24, <2>1, EndTyped DEF Crash, Restart
<1>25. ASSUME NEW x \in Reporters, Write(x) PROVE TypeOK'
  BY <1>0, <1>25 DEF Write, TypeOK, CallStages, NoReport, Free, Msg, Statuses, Runs,
     CallRow, ReportRow, MessageRow, runner, goroutines, world, status
<1>26. ASSUME NEW x \in Reporters, Fetch(x) PROVE TypeOK'
  BY <1>0, <1>26 DEF Fetch, TypeOK, CallStages, NoReport, Free, Msg, Statuses, Runs,
     CallRow, ReportRow, MessageRow, runner, goroutines, world, status
<1>27. ASSUME NEW x \in Reporters, Keep(x) PROVE TypeOK'
  BY <1>0, <1>27 DEF Keep, NoReport, TypeOK, CallStages, Free, Msg, Statuses, Runs,
     CallRow, ReportRow, MessageRow, runner, goroutines, world, status
<1>28. ASSUME NEW x \in Reporters, Drop(x) PROVE TypeOK'
  BY <1>0, <1>28 DEF Drop, NoReport, Fails, TypeOK, CallStages, Free, Msg, Statuses,
     Runs, CallRow, ReportRow, MessageRow, runner, goroutines, world, status
<1>29. ASSUME NEW g \in Runs, QRCode(g) PROVE TypeOK'
  <2>1. report' \in [Reporters -> ReportRow]
    BY <1>0, <1>29, ReportTyped DEF QRCode, TypeOK, Statuses, Pending
  <2>2. QED
    BY <1>0, <1>29, <2>1 DEF QRCode, Changes, TypeOK, runner, goroutines, world, status, Runs
<1>30. ASSUME NEW g \in Runs, QRSuccess(g) PROVE TypeOK'
  <2>1. report' \in [Reporters -> ReportRow]
    BY <1>0, <1>30, ReportTyped DEF QRSuccess, TypeOK, Statuses, Pending
  <2>2. QED
    BY <1>0, <1>30, <2>1 DEF QRSuccess, TypeOK, runner, goroutines, world, status, Runs
<1>31. ASSUME NEW g \in Runs, QRTimeout(g) PROVE TypeOK'
  <2>1. report' \in [Reporters -> ReportRow]
    BY <1>0, <1>31, ReportTyped DEF QRTimeout, TypeOK, Statuses, Pending
  <2>2. QED
    BY <1>0, <1>31, <2>1 DEF QRTimeout, Changes, TypeOK, runner, goroutines, world, status, Runs
<1>32. ASSUME NEW g \in Runs, QREnds(g) PROVE TypeOK'
  BY <1>0, <1>32 DEF QREnds, TypeOK, CallStages, NoReport, Free, Msg, Statuses,
     Runs, CallRow, ReportRow, MessageRow, runner, goroutines, world, status
<1>33. ASSUME NEW g \in Runs, LoopBegins(g) PROVE TypeOK'
  <2>1. CASE /\ runCtx # 0
             /\ loop' = [loop EXCEPT ![g] = "wait"]
             /\ UNCHANGED <<runner, qr, health, world, status, report,
                            msg, refreshes, failures>>
    BY <1>0, <2>1 DEF TypeOK, runner, world, status
  <2>2. CASE Panic
    <3>1. failures' \in 0..MaxFailures
      BY <1>0, <2>2 DEF Panic, TypeOK
    <3>2. QED  BY <1>0, <2>2, <3>1, EndTyped DEF Panic, Restart
  <2>3. QED  BY <1>33, <2>1, <2>2 DEF LoopBegins
<1>34. ASSUME NEW g \in Runs, LoopConnects(g) PROVE TypeOK'
  BY ZenonT(60), <1>0, <1>34 DEF LoopConnects, Report, TypeOK, CallStages, NoReport, Free, Msg,
     Statuses, Runs, CallRow, ReportRow, MessageRow, runner, goroutines, world,
     status
<1>35. ASSUME NEW g \in Runs, LoopEnds(g) PROVE TypeOK'
  BY <1>0, <1>35 DEF LoopEnds, TypeOK, CallStages, NoReport, Free, Msg, Statuses,
     Runs, CallRow, ReportRow, MessageRow, runner, goroutines, world, status
<1>36. ASSUME NEW g \in Runs, HealthTick(g) PROVE TypeOK'
  BY <1>0, <1>36 DEF HealthTick, TypeOK, CallStages, NoReport, Free, Msg, Statuses,
     Runs, CallRow, ReportRow, MessageRow, runner, goroutines, world, status
<1>37. ASSUME NEW g \in Runs, HealthReports(g) PROVE TypeOK'
  <2>1. CASE client # 0
    <3>1. report' \in [Reporters -> ReportRow]
      <4>1. \A s \in Snapshot(health[g] = "up") : s \in Statuses
        BY DEF Snapshot, Pending, Statuses
      <4>2. QED  BY <1>0, <1>37, <2>1, <4>1, ReportTyped DEF HealthReports, TypeOK
    <3>2. QED
      BY <1>0, <1>37, <2>1, <3>1 DEF HealthReports, TypeOK, runner, world, status
  <2>2. CASE Panic
    <3>1. failures' \in 0..MaxFailures
      BY <1>0, <2>2 DEF Panic, TypeOK
    <3>2. QED  BY <1>0, <2>2, <3>1, EndTyped DEF Panic, Restart
  <2>3. QED  BY <1>37, <2>1, <2>2 DEF HealthReports
<1>38. ASSUME NEW g \in Runs, HealthEnds(g) PROVE TypeOK'
  BY <1>0, <1>38 DEF HealthEnds, TypeOK, CallStages, NoReport, Free, Msg, Statuses,
     Runs, CallRow, ReportRow, MessageRow, runner, goroutines, world, status
<1>39. ASSUME NEW m \in Messages, Receive(m) PROVE TypeOK'
  <2>1. msg[m] \in MessageRow
    BY <1>0 DEF TypeOK
  <2>2. [msg[m] EXCEPT !.st = IF ReadyForInbound THEN "ready" ELSE "dropped"] \in MessageRow
    BY <2>1 DEF MessageRow
  <2>3. QED
    BY <1>0, <1>39, <2>2 DEF Receive, TypeOK, runner, goroutines, world, status
<1>40. ASSUME NEW m \in Messages, BeginReply(m) PROVE TypeOK'
  BY <1>0, <1>40 DEF BeginReply, MayReply, At, Replying, TypeOK, CallStages,
     NoReport, Free, Msg, Statuses, Runs, CallRow, ReportRow, MessageRow, runner,
     goroutines, world, status
<1>41. ASSUME NEW m \in Messages, Route(m) PROVE TypeOK'
  BY <1>0, <1>41 DEF Route, Msg, Cancelled, TypeOK, CallStages, NoReport, Free,
     Statuses, Runs, CallRow, ReportRow, MessageRow, runner, goroutines, world,
     status
<1>42. ASSUME NEW m \in Messages, ReplyFails(m) PROVE TypeOK'
  BY <1>0, <1>42 DEF ReplyFails, Msg, Cancelled, Fails, TypeOK, CallStages,
     NoReport, Free, Statuses, Runs, CallRow, ReportRow, MessageRow, runner,
     goroutines, world, status
<1>43. CASE UNCHANGED vars
  BY <1>0, <1>43 DEF vars, TypeOK, CallStages, NoReport, Free, Msg, Statuses, Runs,
     CallRow, ReportRow, MessageRow, runner, goroutines, world, status
<1>44. QED
  BY <1>0, <1>1, <1>2, <1>3, <1>4, <1>5, <1>6, <1>7, <1>8, <1>9, <1>10, <1>11,
     <1>12, <1>13, <1>14, <1>15, <1>16, <1>17, <1>18, <1>19, <1>20, <1>21, <1>22,
     <1>23, <1>24, <1>25, <1>26, <1>27, <1>28, <1>29, <1>30, <1>31, <1>32, <1>33,
     <1>34, <1>35, <1>36, <1>37, <1>38, <1>39, <1>40, <1>41, <1>42, <1>43 DEF Next,
     Calls, Holder, Phone, ReportMoves, Goroutine, Message


(* The rest of IInv. *)
Rest == CallStages /\ CleanStart /\ OneRun /\ SessionUnused

(* What leaves the calls and the contexts alone, brings no goroutine to life and
   lets a reply begin only while r.mu is free, breaks nothing. *)
LEMMA CalmStep ==
  ASSUME Rest, UNCHANGED runner,
         \A g \in Runs : Alive(g)' => Alive(g),
         \A m \in Messages : Replying(m)' => Replying(m) \/ call.pc = "free"
  PROVE  Rest'
<1>1. UNCHANGED <<proc, call, client, runCtx, latest, ctx>>
  BY DEF runner
<1>2. CallStages'
  BY <1>1 DEF Rest, CallStages
<1>3. CleanStart' /\ OneRun'
  BY <1>1 DEF Rest, CleanStart, NothingRuns, OneRun
<1>4. SessionUnused'
  BY <1>1 DEF Rest, SessionUnused
<1>5. QED  BY <1>2, <1>3, <1>4 DEF Rest

(* Nothing is alive in a process that has ended. *)
LEMMA EndedStep ==
  ASSUME TypeOK, NEW next \in {"new", "down"}, EndProcess(next)
  PROVE  Rest'
<1>1. \A g \in Runs : ~Alive(g)'
  BY DEF EndProcess, Alive
<1>2. call' = Free /\ call'.op = "none" /\ call'.pc = "free"
  BY DEF EndProcess, Free
<1>3. QED
  BY <1>1, <1>2 DEF Rest, CallStages, CleanStart, NothingRuns, OneRun, SessionUnused

LEMMA PanicStep ==
  ASSUME TypeOK, Panic
  PROVE  Rest'
BY EndedStep DEF Panic, Restart

(* The calls that hold r.mu. *)
LEMMA CallStep ==
  ASSUME TypeOK, Rest, Calls \/ Holder
  PROVE  Rest'
<1> DEFINE Calm == UNCHANGED <<goroutines, msg>>
<1>0. /\ TypeOK /\ CallStages /\ CleanStart /\ OneRun /\ SessionUnused
      /\ MaxRuns \in Nat /\ latest \in 0..MaxRuns
  BY RunnerAssumption DEF Rest, TypeOK
<1>00. Calm => (\A g \in Runs : Alive(g)' <=> Alive(g))
              /\ (\A m \in Messages : Replying(m)' <=> Replying(m))
  BY DEF goroutines, Alive, Replying
<1>1. CASE Start
  <2>1. Calm
    BY <1>1 DEF Start
  <2>2. CallStages'
    BY <1>0, <1>1 DEF Start, At, Free, CallRow, TypeOK, CallStages
  <2>3. CleanStart' /\ OneRun'
    BY <1>0, <1>00, <1>1, <2>1 DEF Start, At, Free, CallRow, TypeOK, CallStages, CleanStart,
       NothingRuns, OneRun
  <2>4. SessionUnused'
    BY <1>0, <1>00, <1>1, <2>1 DEF Start, At, Free, CallRow, TypeOK, CallStages, SessionUnused
  <2>5. QED  BY <2>2, <2>3, <2>4 DEF Rest
<1>2. CASE RefreshPairing
  <2>1. Calm
    BY <1>2 DEF RefreshPairing
  <2>2. CallStages'
    BY <1>0, <1>2 DEF RefreshPairing, At, Free, CallRow, TypeOK, CallStages
  <2>3. CleanStart' /\ OneRun'
    BY <1>0, <1>00, <1>2, <2>1 DEF RefreshPairing, At, Free, CallRow, TypeOK, CallStages,
       CleanStart, NothingRuns, OneRun
  <2>4. SessionUnused'
    BY <1>0, <1>00, <1>2, <2>1 DEF RefreshPairing, At, Free, CallRow, TypeOK, CallStages,
       SessionUnused
  <2>5. QED  BY <2>2, <2>3, <2>4 DEF Rest
<1>3. CASE ContextEnds
  <2>1. Calm
    BY <1>3 DEF ContextEnds
  <2>2. CallStages'
    BY <1>0, <1>3 DEF ContextEnds, EndContexts, Free, CallRow, TypeOK, CallStages
  <2>3. CleanStart' /\ OneRun'
    BY <1>0, <1>00, <1>3, <2>1 DEF ContextEnds, EndContexts, Free, CallRow, TypeOK, CallStages,
       CleanStart, NothingRuns, OneRun
  <2>4. SessionUnused'
    BY <1>0, <1>00, <1>3, <2>1 DEF ContextEnds, EndContexts, Free, CallRow, TypeOK, CallStages,
       SessionUnused
  <2>5. QED  BY <2>2, <2>3, <2>4 DEF Rest
<1>4. CASE CancelRun
  <2>1. Calm
    BY <1>4 DEF CancelRun
  <2>2. CallStages'
    BY <1>0, <1>4 DEF CancelRun, At, Goto, Report, Caller, Free, CallRow, TypeOK, CallStages
  <2>3. CleanStart' /\ OneRun'
    BY <1>0, <1>00, <1>4, <2>1 DEF CancelRun, At, Goto, Report, Caller, Free, CallRow, TypeOK,
       CallStages, CleanStart, NothingRuns, OneRun
  <2>4. SessionUnused'
    BY <1>0, <1>00, <1>4, <2>1 DEF CancelRun, At, Goto, Report, Caller, Free, CallRow, TypeOK,
       CallStages, SessionUnused
  <2>5. QED  BY <2>2, <2>3, <2>4 DEF Rest
<1>5. CASE DropClient
  <2>1. Calm
    BY <1>5 DEF DropClient
  <2>2. CallStages'
    BY <1>0, <1>5 DEF DropClient, At, Goto, Quiet, Free, CallRow, TypeOK, CallStages
  <2>3. CleanStart' /\ OneRun'
    BY <1>0, <1>00, <1>5, <2>1 DEF DropClient, At, Goto, Quiet, Free, CallRow, TypeOK,
       CallStages, CleanStart, NothingRuns, OneRun
  <2>4. SessionUnused'
    BY <1>0, <1>00, <1>5, <2>1 DEF DropClient, At, Goto, Quiet, Free, CallRow, TypeOK,
       CallStages, SessionUnused
  <2>5. QED  BY <2>2, <2>3, <2>4 DEF Rest
<1>6. CASE Reset
  <2>1. Calm
    BY <1>6 DEF Reset
  <2>2. CallStages'
    BY <1>0, <1>6 DEF Reset, At, Goto, Free, CallRow, TypeOK, CallStages
  <2>3. CleanStart' /\ OneRun'
    BY <1>0, <1>00, <1>6, <2>1 DEF Reset, At, Goto, Free, CallRow, TypeOK, CallStages,
       CleanStart, NothingRuns, OneRun
  <2>4. SessionUnused'
    BY <1>0, <1>00, <1>6, <2>1 DEF Reset, At, Goto, Free, CallRow, TypeOK, CallStages, SessionUnused
  <2>5. QED  BY <2>2, <2>3, <2>4 DEF Rest
<1>7. CASE ResetFails
  <2>1. Calm
    BY <1>7 DEF ResetFails, ReturnError
  <2>2. CallStages'
    BY <1>0, <1>7 DEF ResetFails, At, Fails, ReturnError, Return, EndContexts, Free, CallRow,
       TypeOK, CallStages
  <2>3. CleanStart' /\ OneRun'
    BY <1>0, <1>00, <1>7, <2>1 DEF ResetFails, At, Fails, ReturnError, Return, EndContexts,
       Free, CallRow, TypeOK, CallStages, CleanStart, NothingRuns, OneRun
  <2>4. SessionUnused'
    BY <1>0, <1>00, <1>7, <2>1 DEF ResetFails, At, Fails, ReturnError, Return, EndContexts,
       Free, CallRow, TypeOK, CallStages, SessionUnused
  <2>5. QED  BY <2>2, <2>3, <2>4 DEF Rest
<1>8. CASE ResetRow
  <2>1. Calm
    BY <1>8 DEF ResetRow
  <2>2. CallStages'
    BY <1>0, <1>8 DEF ResetRow, At, Goto, CallIsLive, Free, CallRow, TypeOK, CallStages
  <2>3. CleanStart' /\ OneRun'
    BY <1>0, <1>00, <1>8, <2>1 DEF ResetRow, At, Goto, CallIsLive, Free, CallRow, TypeOK,
       CallStages, CleanStart, NothingRuns, OneRun
  <2>4. SessionUnused'
    BY <1>0, <1>00, <1>8, <2>1 DEF ResetRow, At, Goto, CallIsLive, Free, CallRow, TypeOK,
       CallStages, SessionUnused
  <2>5. QED  BY <2>2, <2>3, <2>4 DEF Rest
<1>9. CASE ResetRowFails
  <2>1. Calm
    BY <1>9 DEF ResetRowFails, ReturnError
  <2>2. CallStages'
    BY <1>0, <1>9 DEF ResetRowFails, At, Fails, ReturnError, Return, EndContexts, CallIsLive,
       Free, CallRow, TypeOK, CallStages
  <2>3. CleanStart' /\ OneRun'
    BY <1>0, <1>00, <1>9, <2>1 DEF ResetRowFails, At, Fails, ReturnError, Return, EndContexts,
       CallIsLive, Free, CallRow, TypeOK, CallStages, CleanStart, NothingRuns, OneRun
  <2>4. SessionUnused'
    BY <1>0, <1>00, <1>9, <2>1 DEF ResetRowFails, At, Fails, ReturnError, Return, EndContexts,
       CallIsLive, Free, CallRow, TypeOK, CallStages, SessionUnused
  <2>5. QED  BY <2>2, <2>3, <2>4 DEF Rest
<1>10. CASE LaunchFails
  <2>1. Calm
    BY <1>10 DEF LaunchFails, ReturnError
  <2>2. CallStages'
    BY <1>0, <1>10 DEF LaunchFails, At, Fails, ReturnError, Return, EndContexts, CallIsLive,
       Free, CallRow, TypeOK, CallStages
  <2>3. CleanStart' /\ OneRun'
    BY <1>0, <1>00, <1>10, <2>1 DEF LaunchFails, At, Fails, ReturnError, Return, EndContexts,
       CallIsLive, Free, CallRow, TypeOK, CallStages, CleanStart, NothingRuns, OneRun
  <2>4. SessionUnused'
    BY <1>0, <1>00, <1>10, <2>1 DEF LaunchFails, At, Fails, ReturnError, Return, EndContexts,
       CallIsLive, Free, CallRow, TypeOK, CallStages, SessionUnused
  <2>5. QED  BY <2>2, <2>3, <2>4 DEF Rest
<1>11. CASE Connect
  <2>1. Calm
    BY <1>11 DEF Connect
  <2>2. CallStages'
    BY <1>0, <1>11 DEF Connect, At, Goto, Report, Free, CallRow, TypeOK, CallStages
  <2>3. CleanStart' /\ OneRun'
    BY <1>0, <1>00, <1>11, <2>1 DEF Connect, At, Goto, Report, Free, CallRow, TypeOK,
       CallStages, CleanStart, NothingRuns, OneRun
  <2>4. SessionUnused'
    BY <1>0, <1>00, <1>11, <2>1 DEF Connect, At, Goto, Report, Free, CallRow, TypeOK,
       CallStages, SessionUnused
  <2>5. QED  BY <2>2, <2>3, <2>4 DEF Rest
<1>12. CASE ConnectFails
  <2>1. Calm
    BY <1>12 DEF ConnectFails
  <2>2. CallStages'
    BY <1>0, <1>12 DEF ConnectFails, At, Goto, Report, Free, CallRow, TypeOK, CallStages
  <2>3. CleanStart' /\ OneRun'
    BY <1>0, <1>00, <1>12, <2>1 DEF ConnectFails, At, Goto, Report, Free, CallRow, TypeOK,
       CallStages, CleanStart, NothingRuns, OneRun
  <2>4. SessionUnused'
    BY <1>0, <1>00, <1>12, <2>1 DEF ConnectFails, At, Goto, Report, Free, CallRow, TypeOK,
       CallStages, SessionUnused
  <2>5. QED  BY <2>2, <2>3, <2>4 DEF Rest
<1>13. CASE Stop
  <2>1. CASE client = 0 /\ runCtx = 0
    BY <1>0, <1>13, <2>1, EndedStep DEF Stop
  <2>2. CASE ~(client = 0 /\ runCtx = 0)
    <3>1. call' = [op |-> "stop", pc |-> "stop", live |-> TRUE]
      BY <1>13, <2>2 DEF Stop
    <3>2. UNCHANGED <<proc, latest, goroutines, msg>>
      BY <1>13, <2>2 DEF Stop
    <3>3. proc = "up"
      BY <1>13 DEF Stop
    <3>4. QED
      BY <1>0, <1>00, <3>1, <3>2, <3>3
      DEF Rest, CallStages, CleanStart, NothingRuns, OneRun, SessionUnused
  <2>3. QED  BY <2>1, <2>2
<1>14. CASE Stopped
  <2>1. CASE call.op = "stop"
    BY <1>0, <1>14, <2>1, EndedStep DEF Stopped
  <2>2. CASE call.op # "stop"
    <3>1. call' = [call EXCEPT !.pc = "reset"] /\ UNCHANGED <<proc, latest, goroutines, msg>>
      BY <1>14, <2>2 DEF Stopped, Goto
    <3>2. call'.op = call.op /\ call'.pc = "reset" /\ call'.live = call.live
      BY <1>0, <3>1 DEF TypeOK, CallRow
    <3>3. call.op = "refresh" /\ call.pc = "wait"
      BY <1>0, <1>14, <2>2 DEF Stopped, At, CallStages, TypeOK, CallRow
    <3>4. CallStages' /\ CleanStart' /\ OneRun'
      BY <1>0, <1>00, <3>1, <3>2, <3>3 DEF CallStages, CleanStart, NothingRuns, OneRun
    <3>5. SessionUnused'
      BY <1>0, <1>00, <1>14, <3>1, <3>2 DEF Stopped, WaitDone, Counted, SessionUnused
    <3>6. QED  BY <3>4, <3>5 DEF Rest
  <2>3. QED  BY <2>1, <2>2
<1>15. CASE Launch
  <2>1. call' = [call EXCEPT !.pc = "connect"] /\ call.pc = "launch" /\ call.live
    BY <1>15 DEF Launch, At, Goto, CallIsLive
  <2>2. call'.op = call.op /\ call'.pc = "connect"
    BY <1>0, <2>1 DEF TypeOK, CallRow
  <2>3. latest' = latest + 1 /\ latest' \in Runs /\ UNCHANGED <<proc, loop, health>>
    BY <1>0, <1>15, <2>1 DEF Launch, CallStages, Runs
  <2>4. call.op \in {"start", "refresh"}
    BY <1>0, <2>1 DEF TypeOK, CallRow, CallStages
  <2>5. \A g \in Runs : ~Alive(g)
    BY <1>0, <2>1, <2>4 DEF CallStages, CleanStart, NothingRuns, SessionUnused
  <2>6. \A g \in Runs : g # latest' => ~Alive(g)'
    BY <1>0, <1>15, <2>3, <2>5 DEF Launch, Alive, TypeOK
  <2>7. CallStages'
    BY <1>0, <2>1, <2>2, <2>3, <2>4 DEF CallStages
  <2>8. CleanStart' /\ OneRun' /\ SessionUnused'
    BY <1>0, <2>2, <2>3, <2>6 DEF CleanStart, OneRun, SessionUnused, Runs
  <2>9. QED  BY <2>7, <2>8 DEF Rest
<1>16. CASE Started
  <2>1. /\ call' = Free /\ call.pc \in {"connected", "failed"}
        /\ proc' = (IF proc = "new" THEN "up" ELSE proc) /\ UNCHANGED <<latest, qr>>
    BY <1>16 DEF Started, Return
  <2>2. call'.op = "none" /\ call'.pc = "free"
    BY <2>1 DEF Free
  <2>3. latest \in Runs /\ proc' # "new"
    BY <1>0, <2>1 DEF CallStages, TypeOK
  <2>4. \A g \in Runs : g # latest => (Alive(g)' <=> Alive(g))
    BY <1>0, <1>16, <2>1 DEF Started, Alive, TypeOK
  <2>5. QED
    BY <1>0, <2>1, <2>2, <2>3, <2>4
    DEF Rest, CallStages, CleanStart, NothingRuns, OneRun, SessionUnused, Runs
<1>17. QED
  BY <1>1, <1>2, <1>3, <1>4, <1>5, <1>6, <1>7, <1>8, <1>9, <1>10, <1>11, <1>12, <1>13,
     <1>14, <1>15, <1>16 DEF Calls, Holder

(* Everything else. *)
LEMMA RestStep ==
  ASSUME TypeOK, Rest, [Next]_vars
  PROVE  Rest'
<1>1. CASE Calls \/ Holder
  BY <1>1, CallStep
<1>2. CASE Phone
  <2>1. UNCHANGED <<runner, goroutines, msg>>
    BY <1>2 DEF Phone, Pair, Login, KeepAliveRestored, Disconnected, AutoReconnect, Kicked,
       LoggedOut
  <2>2. QED  BY <2>1, CalmStep DEF goroutines, Alive, Replying
<1>3. CASE Crash
  BY <1>3, EndedStep DEF Crash, Restart
<1>4. ASSUME NEW x \in Reporters, ReportMoves(x) PROVE Rest'
  <2>1. UNCHANGED <<runner, goroutines, msg>>
    BY <1>4 DEF ReportMoves, Write, Fetch, Keep, Drop
  <2>2. QED  BY <2>1, CalmStep DEF goroutines, Alive, Replying
<1>5. ASSUME NEW g \in Runs, Goroutine(g) PROVE Rest'
  <2>1. SUFFICES ASSUME ~Panic PROVE Rest'
    BY PanicStep
  <2>2. UNCHANGED <<runner, msg>>
    BY <1>5, <2>1 DEF Goroutine, QRCode, QRSuccess, QRTimeout, QREnds, LoopBegins, LoopConnects,
                      LoopEnds, HealthTick, HealthReports, HealthEnds
  <2>3. ASSUME NEW h \in Runs, Alive(h)' PROVE Alive(h)
    <3>1. CASE QRCode(g) \/ QRSuccess(g) \/ QRTimeout(g) \/ QREnds(g)
      BY <2>3, <3>1 DEF QRCode, QRSuccess, QRTimeout, QREnds, goroutines, Alive, TypeOK
    <3>2. CASE LoopBegins(g) \/ LoopConnects(g) \/ LoopEnds(g)
      BY <2>1, <2>3, <3>2 DEF LoopBegins, LoopConnects, LoopEnds, Alive, TypeOK
    <3>3. CASE HealthTick(g) \/ HealthReports(g) \/ HealthEnds(g)
      BY <2>1, <2>3, <3>3 DEF HealthTick, HealthReports, HealthEnds, Alive, TypeOK
    <3>4. QED  BY <1>5, <3>1, <3>2, <3>3 DEF Goroutine
  <2>4. QED  BY <2>2, <2>3, CalmStep DEF Replying
<1>6. ASSUME NEW m \in Messages, Message(m) PROVE Rest'
  <2>1. UNCHANGED <<runner, goroutines>>
    BY <1>6 DEF Message, Receive, BeginReply, Route, ReplyFails
  <2>2. ASSUME NEW n \in Messages, Replying(n)' PROVE Replying(n) \/ call.pc = "free"
    <3>1. CASE Receive(m)
      BY <2>2, <3>1 DEF Receive, Replying, TypeOK, MessageRow
    <3>2. CASE BeginReply(m)
      BY <3>2 DEF BeginReply, MayReply, At
    <3>3. CASE Route(m) \/ ReplyFails(m)
      BY <2>2, <3>3 DEF Route, ReplyFails, Replying, Msg, TypeOK
    <3>4. QED  BY <1>6, <3>1, <3>2, <3>3 DEF Message
  <2>3. QED  BY <2>1, <2>2, CalmStep DEF goroutines, Alive
<1>7. CASE UNCHANGED vars
  <2>1. UNCHANGED <<runner, goroutines, msg>>
    BY <1>7 DEF vars
  <2>2. QED  BY <2>1, CalmStep DEF goroutines, Alive, Replying
<1>8. QED  BY <1>1, <1>2, <1>3, <1>4, <1>5, <1>6, <1>7 DEF Next

(* Contexts: r.client, r.runCtx and the contexts of the runs. *)

\* What leaves the calls and the contexts alone, and gives a reply no run that
\* was not started yet.
LEMMA CalmContexts ==
  ASSUME Contexts, UNCHANGED runner,
         \A m \in Messages : Replying(m)' =>
           \/ Replying(m) /\ msg'[m].run = msg[m].run
           \/ msg'[m].run <= latest
  PROVE  Contexts'
<1>1. UNCHANGED <<proc, call, client, runCtx, latest, ctx>>
  BY DEF runner
<1>2. QED  BY <1>1 DEF Contexts, Starting

LEMMA EndedContexts ==
  ASSUME TypeOK, NEW next, EndProcess(next)
  PROVE  Contexts'
<1>1. \A m \in Messages : ~Replying(m)'
  BY DEF EndProcess, Msg, Replying
<1>2. /\ call'.pc = "free" /\ client' = 0 /\ runCtx' = 0 /\ latest' = latest
      /\ ctx' = [g \in Runs |-> IF g <= latest THEN "done" ELSE "none"]
  BY DEF EndProcess, Free
<1>3. QED  BY <1>1, <1>2 DEF Contexts, Starting

LEMMA CallContexts ==
  ASSUME TypeOK, CallStages, Contexts, Calls \/ Holder
  PROVE  Contexts'
<1>0. /\ TypeOK /\ CallStages /\ Contexts
      /\ call \in CallRow /\ ctx \in [Runs -> {"none", "server", "request", "done"}]
      /\ MaxRuns \in Nat /\ latest \in 0..MaxRuns
  BY RunnerAssumption DEF TypeOK
\* A step that only moves the call.
<1>00. ASSUME UNCHANGED <<client, runCtx, latest, ctx, msg>>, ~Starting',
              proc' = "new" /\ call'.pc = "free" => client = 0 /\ runCtx = 0,
              call'.pc \in {"stopped", "wait", "reset", "row", "launch"} => runCtx = 0,
              call'.pc \in {"wait", "reset", "row", "launch"} => client = 0
       PROVE  Contexts'
  BY <1>0, <1>00 DEF Contexts, Starting, Replying
\* A refresh that fails, with its run not yet there.
<1>01. ASSUME ReturnError, call.pc \in {"reset", "row", "launch"}
       PROVE  Contexts'
  <2>1. /\ call'.pc = "free" /\ client' = 0 /\ UNCHANGED <<runCtx, latest, msg>>
        /\ ctx' = [g \in Runs |-> IF ctx[g] \in {"request"} THEN "done" ELSE ctx[g]]
    BY <1>01 DEF ReturnError, Return, EndContexts, Free
  <2>2. runCtx = 0
    BY <1>0, <1>01 DEF Contexts
  <2>3. QED  BY <1>0, <2>1, <2>2 DEF Contexts, Starting, Replying
<1>1. CASE Start
  <2>1. /\ call' = [op |-> "start", pc |-> "launch", live |-> TRUE] /\ call.pc = "free" /\ proc = "new"
        /\ UNCHANGED <<proc, client, runCtx, latest, ctx, msg>>
    BY <1>1 DEF Start, At
  <2>2. QED  BY <1>0, <1>00, <2>1 DEF Contexts, Starting
<1>2. CASE RefreshPairing
  <2>1. /\ call' = [op |-> "refresh", pc |-> "stop", live |-> TRUE]
        /\ UNCHANGED <<proc, client, runCtx, latest, ctx, msg>>
    BY <1>2 DEF RefreshPairing
  <2>2. QED  BY <1>00, <2>1 DEF Starting
<1>3. CASE Stop
  <2>1. CASE client = 0 /\ runCtx = 0
    BY <1>0, <1>3, <2>1, EndedContexts DEF Stop
  <2>2. CASE ~(client = 0 /\ runCtx = 0)
    <3>1. /\ call' = [op |-> "stop", pc |-> "stop", live |-> TRUE]
          /\ UNCHANGED <<proc, client, runCtx, latest, ctx, msg>>
      BY <1>3, <2>2 DEF Stop
    <3>2. QED  BY <1>00, <3>1 DEF Starting
  <2>3. QED  BY <2>1, <2>2
<1>4. CASE ContextEnds
  <2>1. /\ call' = [call EXCEPT !.live = FALSE]
        /\ UNCHANGED <<proc, client, runCtx, latest, msg>>
        /\ ctx' = [g \in Runs |-> IF ctx[g] \in {"request"} THEN "done" ELSE ctx[g]]
    BY <1>4 DEF ContextEnds, EndContexts
  <2>2. call'.pc = call.pc
    BY <1>0, <2>1 DEF CallRow
  <2>3. QED  BY <1>0, <2>1, <2>2 DEF Contexts, Starting, Replying
<1>5. CASE CancelRun
  <2>1. /\ call.pc = "stop" /\ runCtx' = 0 /\ UNCHANGED <<proc, client, latest, msg>>
        /\ ctx' = [g \in Runs |-> IF g \in {runCtx} THEN "done" ELSE ctx[g]]
        /\ call' = [call EXCEPT !.pc = IF client = 0 THEN "wait" ELSE "stopped"]
    BY <1>5 DEF CancelRun, CancelledRuns, At, Goto
  <2>2. call'.pc = IF client = 0 THEN "wait" ELSE "stopped"
    BY <1>0, <2>1 DEF CallRow
  <2>3. \A g \in Runs : ctx'[g] \notin {"server", "request"}
    BY <1>0, <2>1 DEF Contexts
  <2>4. \A g \in Runs : g <= latest => ctx'[g] # "none"
    BY <1>0, <2>1 DEF Contexts
  <2>5. \A m \in Messages : Replying(m)' => msg'[m].run <= latest
    BY <1>0, <2>1 DEF Contexts, Replying
  <2>6. QED  BY <1>0, <2>1, <2>2, <2>3, <2>4, <2>5 DEF Contexts, Starting
<1>6. CASE DropClient
  <2>1. /\ call.pc = "stopped" /\ client' = 0 /\ call' = [call EXCEPT !.pc = "wait"]
        /\ UNCHANGED <<proc, runCtx, latest, ctx, msg>>
    BY <1>6 DEF DropClient, At, Goto
  <2>2. call'.pc = "wait"
    BY <1>0, <2>1 DEF CallRow
  <2>3. QED  BY <1>0, <2>1, <2>2 DEF Contexts, Starting, Replying
<1>7. CASE Stopped
  <2>1. CASE call.op = "stop"
    BY <1>0, <1>7, <2>1, EndedContexts DEF Stopped
  <2>2. CASE call.op # "stop"
    <3>1. /\ call.pc = "wait" /\ call' = [call EXCEPT !.pc = "reset"]
          /\ UNCHANGED <<proc, client, runCtx, latest, ctx, msg>>
      BY <1>7, <2>2 DEF Stopped, At, Goto
    <3>2. call'.pc = "reset"
      BY <1>0, <3>1 DEF CallRow
    <3>3. QED  BY <1>0, <1>00, <3>1, <3>2 DEF Contexts, Starting
  <2>3. QED  BY <2>1, <2>2
<1>8. CASE Reset
  <2>1. /\ call.pc = "reset" /\ call' = [call EXCEPT !.pc = "row"]
        /\ UNCHANGED <<proc, client, runCtx, latest, ctx, msg>>
    BY <1>8 DEF Reset, At, Goto
  <2>2. call'.pc = "row"
    BY <1>0, <2>1 DEF CallRow
  <2>3. QED  BY <1>0, <1>00, <2>1, <2>2 DEF Contexts, Starting
<1>9. CASE ResetFails
  BY <1>01, <1>9 DEF ResetFails, At
<1>10. CASE ResetRow
  <2>1. /\ call.pc = "row" /\ call' = [call EXCEPT !.pc = "launch"]
        /\ UNCHANGED <<proc, client, runCtx, latest, ctx, msg>>
    BY <1>10 DEF ResetRow, At, Goto
  <2>2. call'.pc = "launch"
    BY <1>0, <2>1 DEF CallRow
  <2>3. QED  BY <1>0, <1>00, <2>1, <2>2 DEF Contexts, Starting
<1>11. CASE ResetRowFails
  BY <1>01, <1>11 DEF ResetRowFails, At
<1>12. CASE Launch
  <2>1. /\ call.pc = "launch" /\ call' = [call EXCEPT !.pc = "connect"]
        /\ latest < MaxRuns /\ latest' = latest + 1
        /\ client' = latest + 1 /\ runCtx' = latest + 1 /\ UNCHANGED <<proc, msg>>
        /\ ctx' = [ctx EXCEPT ![latest + 1] = IF call.op = "refresh" THEN "request" ELSE "server"]
    BY <1>12 DEF Launch, At, Goto
  <2>2. call'.pc = "connect" /\ latest + 1 \in Runs
    BY <1>0, <2>1 DEF CallRow, Runs
  <2>3. runCtx = 0
    BY <1>0, <2>1 DEF Contexts
  <2>4. ASSUME NEW g \in Runs
        PROVE  /\ g <= latest' => ctx'[g] # "none"
               /\ ctx'[g] \in {"server", "request"} => g = runCtx'
    <3>1. CASE g = latest + 1
      BY <1>0, <2>1, <3>1
    <3>2. CASE g # latest + 1
      <4>1. ctx'[g] = ctx[g] /\ (g <= latest' => g <= latest)
        BY <1>0, <2>1, <3>2 DEF Runs
      <4>2. g # 0
        BY DEF Runs
      <4>3. QED  BY <1>0, <2>3, <4>1, <4>2 DEF Contexts
    <3>3. QED  BY <3>1, <3>2
  <2>5. ASSUME NEW m \in Messages, Replying(m)'
        PROVE  msg'[m].run <= latest'
    <3>1. msg[m].run <= latest /\ msg[m].run \in Int
      BY <1>0, <2>1, <2>5 DEF Contexts, Replying, TypeOK, MessageRow
    <3>2. QED  BY <1>0, <2>1, <3>1
  <2>6. QED  BY <2>1, <2>2, <2>4, <2>5 DEF Contexts, Starting
<1>13. CASE LaunchFails
  BY <1>01, <1>13 DEF LaunchFails, At
<1>14. CASE Connect
  <2>1. /\ call.pc = "connect" /\ call' = [call EXCEPT !.pc = "connected"]
        /\ UNCHANGED <<proc, client, runCtx, latest, ctx, msg>>
    BY <1>14 DEF Connect, At, Goto
  <2>2. call'.pc = "connected"
    BY <1>0, <2>1 DEF CallRow
  <2>3. QED  BY <1>0, <2>1, <2>2 DEF Contexts, Starting, Replying
<1>15. CASE ConnectFails
  <2>1. /\ call.pc = "connect" /\ call' = [call EXCEPT !.pc = "failed"]
        /\ UNCHANGED <<proc, client, runCtx, latest, ctx, msg>>
    BY <1>15 DEF ConnectFails, At, Goto
  <2>2. call'.pc = "failed"
    BY <1>0, <2>1 DEF CallRow
  <2>3. QED  BY <1>0, <2>1, <2>2 DEF Contexts, Starting, Replying
<1>16. CASE Started
  <2>1. /\ call'.pc = "free" /\ proc' # "new" /\ UNCHANGED <<client, runCtx, latest, msg>>
        /\ ctx' = ctx \/ ctx' = [g \in Runs |-> IF ctx[g] \in {"request"} THEN "done" ELSE ctx[g]]
    BY <1>16 DEF Started, Return, EndContexts, Free
  <2>2. QED  BY <1>0, <2>1 DEF Contexts, Starting, Replying
<1>17. QED
  BY <1>1, <1>2, <1>3, <1>4, <1>5, <1>6, <1>7, <1>8, <1>9, <1>10, <1>11, <1>12, <1>13,
     <1>14, <1>15, <1>16 DEF Calls, Holder

LEMMA ContextStep ==
  ASSUME TypeOK, CallStages, Contexts, [Next]_vars
  PROVE  Contexts'
<1>1. CASE Calls \/ Holder
  BY <1>1, CallContexts
<1>2. CASE Phone
  <2>1. UNCHANGED <<runner, msg>>
    BY <1>2 DEF Phone, Pair, Login, KeepAliveRestored, Disconnected, AutoReconnect, Kicked,
       LoggedOut
  <2>2. QED  BY <2>1, CalmContexts DEF Replying
<1>3. CASE Crash
  BY <1>3, EndedContexts DEF Crash, Restart
<1>4. ASSUME NEW x \in Reporters, ReportMoves(x) PROVE Contexts'
  <2>1. UNCHANGED <<runner, msg>>
    BY <1>4 DEF ReportMoves, Write, Fetch, Keep, Drop
  <2>2. QED  BY <2>1, CalmContexts DEF Replying
<1>5. ASSUME NEW g \in Runs, Goroutine(g) PROVE Contexts'
  <2>1. CASE Panic
    BY <2>1, EndedContexts DEF Panic, Restart
  <2>2. CASE ~Panic
    <3>1. UNCHANGED <<runner, msg>>
      BY <1>5, <2>2 DEF Goroutine, QRCode, QRSuccess, QRTimeout, QREnds, LoopBegins, LoopConnects,
                        LoopEnds, HealthTick, HealthReports, HealthEnds
    <3>2. QED  BY <3>1, CalmContexts DEF Replying
  <2>3. QED  BY <2>1, <2>2
<1>6. ASSUME NEW m \in Messages, Message(m) PROVE Contexts'
  <2>1. UNCHANGED runner
    BY <1>6 DEF Message, Receive, BeginReply, Route, ReplyFails
  <2>2. ASSUME NEW n \in Messages, Replying(n)'
        PROVE  \/ Replying(n) /\ msg'[n].run = msg[n].run
               \/ msg'[n].run <= latest
    <3>1. CASE n # m
      BY <1>6, <2>2, <3>1 DEF Message, Receive, BeginReply, Route, ReplyFails, Replying, TypeOK
    <3>2. CASE n = m
      <4>1. CASE BeginReply(m)
        <5>1. msg'[n].run = runCtx
          BY <3>2, <4>1 DEF BeginReply, TypeOK
        <5>2. QED  BY <5>1, RunnerAssumption DEF TypeOK
      <4>2. CASE Receive(m)
        BY <2>2, <3>2, <4>2 DEF Receive, Replying, TypeOK, MessageRow
      <4>3. CASE Route(m) \/ ReplyFails(m)
        BY <2>2, <3>2, <4>3 DEF Route, ReplyFails, Replying, Msg, TypeOK
      <4>4. QED  BY <1>6, <4>1, <4>2, <4>3 DEF Message
    <3>3. QED  BY <3>1, <3>2
  <2>3. QED  BY <2>1, <2>2, CalmContexts
<1>7. CASE UNCHANGED vars
  <2>1. UNCHANGED <<runner, msg>>
    BY <1>7 DEF vars
  <2>2. QED  BY <2>1, CalmContexts DEF Replying
<1>8. QED  BY <1>1, <1>2, <1>3, <1>4, <1>5, <1>6, <1>7 DEF Next

(* Tended: the health loop and the reconnect loop of the run that main started. *)

\* Nothing has to be tended without a client, or without a context of the server.
LEMMA Untended ==
  ASSUME client' = 0 \/ ctx'[client'] # "server", call'.pc # "connected"
  PROVE  Tended'
BY DEF Tended, RunsAreTended

\* Where the calls and the contexts are left alone, it is enough that the loops of a
\* run with its context go on, and that a session does not lose its connection.
LEMMA CalmTended ==
  ASSUME Tended, UNCHANGED runner,
         \A g \in Runs : ctx[g] = "server" /\ health[g] \in {"idle", "up", "down"} =>
           health'[g] \in {"idle", "up", "down"},
         \A g \in Runs : g = client /\ ctx[g] = "server" /\ loop[g] \in {"new", "wait"} =>
           loop'[g] \in {"new", "wait"} \/ socket' # "down",
         socket' = "down" /\ paired' => socket = "down" /\ paired,
         client \in 0..MaxRuns
  PROVE  Tended'
<1>1. UNCHANGED <<call, client, ctx>>
  BY DEF runner
<1>2. client # 0 => client \in Runs
  BY RunnerAssumption DEF Runs
<1>3. QED  BY <1>1, <1>2 DEF Tended, RunsAreTended, Starting

LEMMA CallTended ==
  ASSUME TypeOK, CallStages, Contexts, Tended, Calls \/ Holder
  PROVE  Tended'
<1>0. /\ TypeOK /\ CallStages /\ Contexts /\ Tended
      /\ call \in CallRow /\ ctx \in [Runs -> {"none", "server", "request", "done"}]
      /\ MaxRuns \in Nat /\ latest \in 0..MaxRuns
  BY RunnerAssumption DEF TypeOK
<1>1. CASE Start
  <2>1. client' = client /\ call' = [op |-> "start", pc |-> "launch", live |-> TRUE]
    BY <1>1 DEF Start
  <2>2. client = 0
    BY <1>0, <1>1 DEF Start, At, Contexts
  <2>3. QED  BY <2>1, <2>2, Untended
\* A step that only brings the call to stopLocked.
<1>00. ASSUME call.pc = "free", call'.pc = "stop",
              UNCHANGED <<client, ctx, health, loop, socket, paired>>
       PROVE  Tended'
  BY <1>0, <1>00 DEF Tended, RunsAreTended, Starting
<1>2. CASE RefreshPairing
  <2>1. /\ call' = [op |-> "refresh", pc |-> "stop", live |-> TRUE] /\ call.pc = "free"
        /\ UNCHANGED <<client, ctx, health, loop, socket, paired>>
    BY <1>2 DEF RefreshPairing, At, goroutines, world
  <2>2. call'.pc = "stop"
    BY <2>1
  <2>3. QED  BY <1>00, <2>1, <2>2
<1>3. CASE Stop
  <2>1. CASE client = 0 /\ runCtx = 0
    BY <1>3, <2>1, Untended DEF Stop, EndProcess, Free
  <2>2. CASE ~(client = 0 /\ runCtx = 0)
    <3>1. /\ call' = [op |-> "stop", pc |-> "stop", live |-> TRUE] /\ call.pc = "free"
          /\ UNCHANGED <<client, ctx, health, loop, socket, paired>>
      BY <1>3, <2>2 DEF Stop, At, goroutines, world
    <3>2. call'.pc = "stop"
      BY <3>1
    <3>3. QED  BY <1>00, <3>1, <3>2
  <2>3. QED  BY <2>1, <2>2
<1>4. CASE ContextEnds
  <2>1. /\ call' = [call EXCEPT !.live = FALSE]
        /\ UNCHANGED <<client, latest, health, loop, socket, paired>>
        /\ ctx' = [g \in Runs |-> IF ctx[g] \in {"request"} THEN "done" ELSE ctx[g]]
    BY <1>4 DEF ContextEnds, EndContexts, goroutines, world
  <2>2. call'.pc = call.pc
    BY <1>0, <2>1 DEF CallRow
  <2>3. client # 0 => client \in Runs
    BY <1>0 DEF TypeOK, Runs
  <2>4. client # 0 /\ ctx'[client] = "server" => ctx[client] = "server"
    BY <2>1, <2>3
  <2>5. QED  BY <1>0, <2>1, <2>2, <2>4 DEF Tended, RunsAreTended, Starting
<1>5. CASE CancelRun
  <2>1. /\ call.pc = "stop" /\ client' = client
        /\ ctx' = [g \in Runs |-> IF g \in {runCtx} THEN "done" ELSE ctx[g]]
        /\ call' = [call EXCEPT !.pc = IF client = 0 THEN "wait" ELSE "stopped"]
    BY <1>5 DEF CancelRun, CancelledRuns, At, Goto
  <2>2. call'.pc # "connected"
    BY <1>0, <2>1 DEF CallRow
  <2>3. client # 0 => client \in Runs
    BY <1>0 DEF TypeOK, Runs
  <2>4. client # 0 => ctx'[client] # "server"
    BY <1>0, <2>1, <2>3 DEF Contexts
  <2>5. QED  BY <2>1, <2>2, <2>4, Untended
<1>6. CASE DropClient
  <2>1. client' = 0 /\ call' = [call EXCEPT !.pc = "wait"]
    BY <1>6 DEF DropClient, Goto
  <2>2. call'.pc # "connected"
    BY <1>0, <2>1 DEF CallRow
  <2>3. QED  BY <2>1, <2>2, Untended
<1>7. CASE Stopped
  <2>1. CASE call.op = "stop"
    BY <1>7, <2>1, Untended DEF Stopped, EndProcess, Free
  <2>2. CASE call.op # "stop"
    <3>1. call' = [call EXCEPT !.pc = "reset"] /\ client' = client
      BY <1>7, <2>2 DEF Stopped, Goto
    <3>2. call'.pc # "connected" /\ client = 0
      BY <1>0, <1>7, <3>1 DEF CallRow, Stopped, At, Contexts
    <3>3. QED  BY <3>1, <3>2, Untended
  <2>3. QED  BY <2>1, <2>2
<1>8. CASE Reset
  <2>1. call' = [call EXCEPT !.pc = "row"] /\ client' = client
    BY <1>8 DEF Reset, Goto
  <2>2. call'.pc # "connected" /\ client = 0
    BY <1>0, <1>8, <2>1 DEF CallRow, Reset, At, Contexts
  <2>3. QED  BY <2>1, <2>2, Untended
<1>9. CASE ResetFails \/ ResetRowFails \/ LaunchFails
  <2>1. ReturnError
    BY <1>9 DEF ResetFails, ResetRowFails, LaunchFails
  <2>2. client' = 0 /\ call'.pc = "free"
    BY <2>1 DEF ReturnError, Return, Free
  <2>3. QED  BY <2>2, Untended
<1>10. CASE ResetRow
  <2>1. call' = [call EXCEPT !.pc = "launch"] /\ client' = client
    BY <1>10 DEF ResetRow, Goto
  <2>2. call'.pc # "connected" /\ client = 0
    BY <1>0, <1>10, <2>1 DEF CallRow, ResetRow, At, Contexts
  <2>3. QED  BY <2>1, <2>2, Untended
<1>12. CASE Launch
  <2>1. call' = [call EXCEPT !.pc = "connect"]
    BY <1>12 DEF Launch, Goto
  <2>2. call'.pc = "connect"
    BY <1>0, <2>1 DEF CallRow
  <2>3. QED  BY <2>2 DEF Tended, RunsAreTended, Starting
<1>14. CASE Connect
  <2>1. call' = [call EXCEPT !.pc = "connected"] /\ socket' = "up"
    BY <1>14 DEF Connect, Goto
  <2>2. call'.pc = "connected"
    BY <1>0, <2>1 DEF CallRow
  <2>3. QED  BY <2>1, <2>2 DEF Tended, RunsAreTended, Starting
<1>15. CASE ConnectFails
  <2>1. call' = [call EXCEPT !.pc = "failed"]
    BY <1>15 DEF ConnectFails, Goto
  <2>2. call'.pc = "failed"
    BY <1>0, <2>1 DEF CallRow
  <2>3. QED  BY <2>2 DEF Tended, RunsAreTended, Starting
<1>16. CASE Started
  <2>1. /\ call'.pc = "free" /\ UNCHANGED <<client, latest, socket, paired>>
        /\ health' = [health EXCEPT ![latest] = "idle"]
        /\ loop' = [loop EXCEPT ![latest] = IF call.pc = "failed" THEN "new" ELSE "none"]
        /\ call.pc \in {"connected", "failed"}
    BY <1>16 DEF Started, Return, Free, LoopStarts, At, world
  <2>2. client = latest /\ latest \in Runs
    BY <1>0, <2>1 DEF Contexts, Starting, CallStages
  <2>3. health'[latest] = "idle" /\ loop'[latest] = IF call.pc = "failed" THEN "new" ELSE "none"
    BY <2>1, <2>2 DEF TypeOK
  <2>4. QED  BY <1>0, <2>1, <2>2, <2>3 DEF Tended, RunsAreTended, Starting
<1>17. QED
  BY <1>1, <1>2, <1>3, <1>4, <1>5, <1>6, <1>7, <1>8, <1>9, <1>10, <1>12,
     <1>14, <1>15, <1>16 DEF Calls, Holder

\* The goroutines of a run.
LEMMA GoroutineTended ==
  ASSUME TypeOK, Contexts, Tended, NEW g \in Runs, Goroutine(g)
  PROVE  Tended'
<1>0. /\ client \in 0..MaxRuns /\ qr \in [Runs -> {"none", "run", "closing", "done"}]
      /\ loop \in [Runs -> {"none", "new", "wait", "closing", "done"}]
      /\ health \in [Runs -> {"none", "idle", "up", "down", "done"}]
  BY RunnerAssumption DEF TypeOK
<1>1. CASE Panic
  BY <1>1, Untended DEF Panic, Restart, EndProcess, Free
<1>2. CASE QRCode(g) \/ QRSuccess(g) \/ QREnds(g)
  <2>1. UNCHANGED <<runner, loop, health, socket, paired>>
    BY <1>2 DEF QRCode, QRSuccess, QREnds, goroutines, world
  <2>2. QED  BY <1>0, <2>1, CalmTended
<1>3. CASE QRTimeout(g)
  <2>1. UNCHANGED <<runner, loop, health, paired>> /\ ~paired
    BY <1>3 DEF QRTimeout
  <2>2. QED  BY <1>0, <2>1, CalmTended
<1>4. CASE LoopBegins(g) /\ ~Panic
  <2>1. UNCHANGED <<runner, health, socket, paired>> /\ loop' = [loop EXCEPT ![g] = "wait"]
    BY <1>4 DEF LoopBegins, world
  <2>2. \A h \in Runs : loop[h] \in {"new", "wait"} => loop'[h] \in {"new", "wait"}
    BY <1>0, <2>1
  <2>3. QED  BY <1>0, <2>1, <2>2, CalmTended
<1>5. CASE LoopConnects(g)
  <2>1. UNCHANGED <<runner, health, paired>> /\ socket' = "up"
    BY <1>5 DEF LoopConnects
  <2>2. QED  BY <1>0, <2>1, CalmTended
<1>6. CASE LoopEnds(g)
  <2>1. /\ UNCHANGED <<runner, health, socket, paired>> /\ loop' = [loop EXCEPT ![g] = "done"]
        /\ loop[g] = "closing" \/ (loop[g] = "wait" /\ (ctx[g] = "done" \/ client = 0))
    BY <1>6 DEF LoopEnds, world
  <2>2. ASSUME NEW h \in Runs, h = client, ctx[h] = "server", loop[h] \in {"new", "wait"}
        PROVE  loop'[h] \in {"new", "wait"}
    <3>1. h # g
      <4>1. h # 0
        BY DEF Runs
      <4>2. QED  BY <2>1, <2>2, <4>1
    <3>2. QED  BY <1>0, <2>1, <2>2, <3>1
  <2>3. QED  BY <1>0, <2>1, <2>2, CalmTended
<1>7. CASE HealthTick(g)
  <2>1. /\ UNCHANGED <<runner, loop, socket, paired>>
        /\ health' = [health EXCEPT ![g] = IF socket = "in" THEN "up" ELSE "down"]
    BY <1>7 DEF HealthTick, world
  <2>2. \A h \in Runs : health[h] \in {"idle", "up", "down"} => health'[h] \in {"idle", "up", "down"}
    BY <1>0, <2>1
  <2>3. QED  BY <1>0, <2>1, <2>2, CalmTended
<1>8. CASE HealthReports(g) /\ ~Panic
  <2>1. /\ UNCHANGED <<runner, loop, socket, paired>>
        /\ health' = [health EXCEPT ![g] = "idle"]
    BY <1>8 DEF HealthReports, world
  <2>2. \A h \in Runs : health[h] \in {"idle", "up", "down"} => health'[h] \in {"idle", "up", "down"}
    BY <1>0, <2>1
  <2>3. QED  BY <1>0, <2>1, <2>2, CalmTended
<1>9. CASE HealthEnds(g)
  <2>1. /\ UNCHANGED <<runner, loop, socket, paired>>
        /\ health' = [health EXCEPT ![g] = "done"] /\ ctx[g] = "done"
    BY <1>9 DEF HealthEnds, HealthCancelled, world
  <2>2. \A h \in Runs : ctx[h] = "server" /\ health[h] \in {"idle", "up", "down"} =>
          health'[h] \in {"idle", "up", "down"}
    BY <1>0, <2>1
  <2>3. QED  BY <1>0, <2>1, <2>2, CalmTended
<1>10. QED  BY <1>1, <1>2, <1>3, <1>4, <1>5, <1>6, <1>7, <1>8, <1>9 DEF Goroutine

LEMMA TendedStep ==
  ASSUME TypeOK, CallStages, Contexts, Tended, [Next]_vars
  PROVE  Tended'
<1>0. client \in 0..MaxRuns
  BY RunnerAssumption DEF TypeOK
<1>1. CASE Calls \/ Holder
  BY <1>1, CallTended
<1>2. CASE Phone
  <2>1. UNCHANGED <<runner, health, loop>>
    BY <1>2 DEF Phone, Pair, Login, KeepAliveRestored, Disconnected, AutoReconnect, Kicked,
       LoggedOut, goroutines
  <2>2. socket' = "down" /\ paired' => socket = "down" /\ paired
    BY <1>2 DEF Phone, Pair, Login, KeepAliveRestored, Disconnected, AutoReconnect, Kicked,
       LoggedOut, LoggedIn
  <2>3. QED  BY <1>0, <2>1, <2>2, CalmTended
<1>3. CASE Crash
  BY <1>3, Untended DEF Crash, Restart, EndProcess, Free
<1>4. ASSUME NEW x \in Reporters, ReportMoves(x) PROVE Tended'
  <2>1. UNCHANGED <<runner, goroutines, world>>
    BY <1>4 DEF ReportMoves, Write, Fetch, Keep, Drop
  <2>2. QED  BY <1>0, <2>1, CalmTended DEF goroutines, world
<1>5. ASSUME NEW g \in Runs, Goroutine(g) PROVE Tended'
  BY <1>5, GoroutineTended
<1>6. ASSUME NEW m \in Messages, Message(m) PROVE Tended'
  <2>1. UNCHANGED <<runner, goroutines, world>>
    BY <1>6 DEF Message, Receive, BeginReply, Route, ReplyFails
  <2>2. QED  BY <1>0, <2>1, CalmTended DEF goroutines, world
<1>7. CASE UNCHANGED vars
  <2>1. UNCHANGED <<runner, goroutines, world>>
    BY <1>7 DEF vars
  <2>2. QED  BY <1>0, <2>1, CalmTended DEF goroutines, world
<1>8. QED  BY <1>1, <1>2, <1>3, <1>4, <1>5, <1>6, <1>7 DEF Next

-----------------------------------------------------------------------------

LEMMA InitRunner == Init => IInv
<1> SUFFICES ASSUME Init PROVE IInv
  OBVIOUS
<1>1. TypeOK
  BY RunnerAssumption DEF Init, TypeOK, Free, CallRow, NoReport, ReportRow, Msg, MessageRow,
     Statuses, Runs
<1>2. \A g \in Runs : ~Alive(g)
  BY DEF Init, Alive
<1>3. CallStages /\ CleanStart /\ OneRun /\ SessionUnused
  BY <1>2 DEF Init, Free, CallStages, CleanStart, NothingRuns, OneRun, SessionUnused
<1>4. Contexts /\ Tended
  BY RunnerAssumption DEF Init, Free, Msg, Contexts, Starting, Replying, Tended, RunsAreTended, Runs
<1>5. QED  BY <1>1, <1>3, <1>4 DEF IInv

(* The inductive invariant: the state is well formed, a call is where its operation
   allows, no goroutine is alive that OneRun and SessionUnused rule out, at most the
   context of r.runCtx is alive, and the run main started is tended. *)
THEOREM RunnerInvariant == Spec => []IInv
<1>1. IInv /\ [Next]_vars => IInv'
  BY TypeStep, RestStep, ContextStep, TendedStep DEF IInv, Rest
<1>2. QED  BY InitRunner, <1>1, PTL DEF Spec

(* However often a refresh is hung up on while stopLocked waits, the goroutines of
   a run are gone before a later run starts. *)
THEOREM OneRunAtATime == Spec => []OneRun
BY RunnerInvariant, PTL DEF IInv

(* A refresh whose caller is still there resets a session that nothing uses. *)
THEOREM SessionIsUnused == Spec => []SessionUnused
BY RunnerInvariant, PTL DEF IInv

(* stopLocked holds r.mu while it waits only for goroutines and replies whose context
   has ended, or that never had one of a run. *)
THEOREM OnlyTheCancelledIsWaitedFor == Spec => []WaitsForTheCancelled
<1>1. IInv => WaitsForTheCancelled
  <2> SUFFICES ASSUME IInv, At("wait") PROVE WaitsForTheCancelled
    BY DEF WaitsForTheCancelled
  <2>0. /\ call.pc = "wait" /\ runCtx = 0
        /\ ctx \in [Runs -> {"none", "server", "request", "done"}]
        /\ \A g \in Runs : /\ g <= latest => ctx[g] # "none"
                           /\ ctx[g] \in {"server", "request"} => g = runCtx
    BY DEF IInv, TypeOK, Contexts, At
  <2>1. \A g \in Runs : g <= latest => ctx[g] = "done"
    BY <2>0 DEF Runs
  <2>2. \A g \in Runs : Alive(g) => ctx[g] = "done"
    <3>1. \A g \in Runs : Alive(g) => g <= latest
      BY RunnerAssumption DEF IInv, CleanStart, TypeOK, Runs
    <3>2. QED  BY <2>1, <3>1
  <2>3. ASSUME NEW m \in Messages, Replying(m), msg[m].run # 0
        PROVE  Cancelled(m)
    <3>1. msg[m].run \in Runs /\ msg[m].run <= latest
      BY <2>3 DEF IInv, Contexts, TypeOK, MessageRow, Runs
    <3>2. QED  BY <2>1, <2>3, <3>1 DEF Cancelled
  <2>4. QED  BY <2>2, <2>3 DEF WaitsForTheCancelled
<1>2. QED  BY <1>1, RunnerInvariant, PTL

(* For any number of runs, refreshes, disconnections and failures, the run that main
   started keeps the loop that corrects its status and, as long as its session is
   without a connection, the loop that connects it. *)
THEOREM MainsRunIsTended == Spec => []RunsAreTended
BY RunnerInvariant, PTL DEF IInv, Tended

=============================================================================
