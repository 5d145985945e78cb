---------------------------- MODULE ClientProcess ----------------------------
(***************************************************************************)
(* One client process: run() of cmd/client/main.go with the goroutines it  *)
(* starts (heartbeat loop, TUN data plane, status server, Xray supervisor) *)
(* and the Xray child process.  A step of a goroutine ends where another   *)
(* one can observe it: at a channel, at the shared context, at a tracker   *)
(* update or at an operating-system effect.  The channels are buffered     *)
(* with room for their only value, so a send never blocks; Empty is a      *)
(* channel nothing was sent to, OK is a nil error.                         *)
(***************************************************************************)
EXTENDS Integers, SequencesExt

maxHeartbeatFailures == 3

VARIABLES
    opt,            \* the services the flags (and the coordinator) enable
    main,           \* where run() is
    defers,         \* its deferred calls, the last one on top
    result,         \* the error run() returns
    cancelled,      \* ctx.Err() # nil
    signalled,      \* history: SIGINT or SIGTERM came before run() returned
    beat,           \* the heartbeat goroutine
    heartbeatWait,  \* and its channel
    xray,           \* Process: child, its wait goroutine and its context
    xrayWait,
    tun,            \* the TUN goroutine
    tunWait,
    status,         \* the status server
    statusWait,
    tracker,        \* health.Tracker: the states of mesh and Xray
    tempConfig      \* the generated Xray configuration is on disk

mainVars == <<opt, main, defers, result>>
ctxVars == <<cancelled, signalled>>
beatVars == <<beat, heartbeatWait>>
xrayVars == <<xray, xrayWait>>
tunVars == <<tun, tunWait>>
statusVars == <<status, statusWait>>
vars == <<mainVars, ctxVars, beatVars, xrayVars, tunVars, statusVars, tracker, tempConfig>>

OK == "nil"
Failure == "error"
Nothing == "empty"

\* initialService
InitialService(enabled) == IF enabled THEN "starting" ELSE "disabled"

\* -full-tunnel requires -xray-config; lease says that the coordinator
\* advertised a heartbeat interval.
Init ==
    /\ opt \in [tun : BOOLEAN, xray : BOOLEAN, full : BOOLEAN, status : BOOLEAN, lease : BOOLEAN]
    /\ opt.full => opt.xray
    /\ main = "register"
    /\ defers = <<"stop">>
    /\ result = Nothing
    /\ cancelled = FALSE
    /\ signalled = FALSE
    /\ beat = [pc |-> "off", failures |-> 0, recent |-> <<>>]
    /\ heartbeatWait = Nothing
    /\ xray = [child |-> "none", cancel |-> FALSE, waiter |-> "off", err |-> OK]
    /\ xrayWait = Nothing
    /\ tun = "off"
    /\ tunWait = Nothing
    /\ status = "off"
    /\ statusWait = Nothing
    /\ tracker = [mesh |-> InitialService(opt.tun), xray |-> InitialService(opt.xray)]
    /\ tempConfig = FALSE

------------------------------------------------------------------------------
(* run(): start-up *)

Goto(pc) == main' = pc /\ UNCHANGED <<opt, defers, result>>

\* Mutant of GotoDefer: the deferred calls are made in the order they were given.
GotoDeferInOrder(pc, call) ==
    /\ main' = pc
    /\ defers' = <<call>> \o defers
    /\ UNCHANGED <<opt, result>>

\* The next stage, with one more deferred call.
GotoDefer(pc, call) ==
    /\ main' = pc
    /\ defers' = Append(defers, call)
    /\ UNCHANGED <<opt, result>>

\* return err: the deferred calls follow.
Return(err) ==
    /\ main' = "return"
    /\ result' = err
    /\ UNCHANGED <<opt, defers>>

SetMesh(state) == tracker' = [tracker EXCEPT !.mesh = state]

SetXray(state) == tracker' = [tracker EXCEPT !.xray = state]

\* Mutant of Register: stop is deferred once more after the registration.
RegisterDefersStop ==
    /\ main = "register"
    /\ \/ /\ GotoDefer("listen", "stop")
          /\ beat' = [beat EXCEPT !.pc = IF opt.lease THEN "idle" ELSE "off"]
       \/ Return(Failure) /\ UNCHANGED beat
    /\ UNCHANGED <<ctxVars, heartbeatWait, xrayVars, tunVars, statusVars, tracker, tempConfig>>

\* register, then startHeartbeat.  The request does not look at ctx.
Register ==
    /\ main = "register"
    /\ \/ /\ Goto("listen")
          /\ beat' = [beat EXCEPT !.pc = IF opt.lease THEN "idle" ELSE "off"]
       \/ Return(Failure) /\ UNCHANGED beat
    /\ UNCHANGED <<ctxVars, heartbeatWait, xrayVars, tunVars, statusVars, tracker, tempConfig>>

\* startStatusServer
Listen ==
    /\ main = "listen"
    /\ \/ opt.status /\ GotoDefer("profile", "shutdown") /\ status' = "serving"
       \/ opt.status /\ Return(Failure) /\ UNCHANGED status
       \/ ~opt.status /\ Goto("profile") /\ UNCHANGED status
    /\ UNCHANGED <<ctxVars, beatVars, xrayVars, tunVars, statusWait, tracker, tempConfig>>

\* resolveProtectedPrefixes and WriteFullTunnelConfig, which removes the file
\* itself when it fails.
WriteProfile ==
    /\ main = "profile"
    /\ \/ opt.full /\ GotoDefer("validate", "cleanup") /\ tempConfig' = TRUE
       \/ opt.full /\ Return(Failure) /\ UNCHANGED tempConfig
       \/ ~opt.full /\ Goto("validate") /\ UNCHANGED tempConfig
    /\ UNCHANGED <<ctxVars, beatVars, xrayVars, tunVars, statusVars, tracker>>

\* Process.Validate: a child that a cancelled context kills.
Validate ==
    /\ main = "validate"
    /\ \/ opt.xray /\ ~cancelled /\ Goto("start") /\ UNCHANGED tracker
       \/ opt.xray /\ Return(Failure) /\ SetXray("failed")
       \/ ~opt.xray /\ Goto("spawn") /\ UNCHANGED tracker
    /\ UNCHANGED <<ctxVars, beatVars, xrayVars, tunVars, statusVars, tempConfig>>

\* Mutant of Start: the deferred Close is missing.
StartWithoutClose ==
    /\ main = "start"
    /\ \/ /\ ~cancelled
          /\ Goto("spawn")
          /\ xray' = [xray EXCEPT !.child = "running", !.waiter = "wait"]
          /\ SetXray("running")
       \/ /\ Return(Failure)
          /\ SetXray("failed")
          /\ UNCHANGED xray
    /\ UNCHANGED <<ctxVars, beatVars, xrayWait, tunVars, statusVars, tempConfig>>

\* Process.Start (exec refuses a cancelled context), the deferred Close and the
\* goroutine that forwards Wait.
Start ==
    /\ main = "start"
    /\ \/ /\ ~cancelled
          /\ GotoDefer("spawn", "close")
          /\ xray' = [xray EXCEPT !.child = "running", !.waiter = "wait"]
          /\ SetXray("running")
       \/ /\ Return(Failure)
          /\ SetXray("failed")
          /\ UNCHANGED xray
    /\ UNCHANGED <<ctxVars, beatVars, xrayWait, tunVars, statusVars, tempConfig>>

\* The TUN goroutine is started; with nothing to supervise run() is done.
Spawn ==
    /\ main = "spawn"
    /\ tun' = IF opt.tun THEN "configure" ELSE "off"
    /\ IF opt.tun \/ opt.xray THEN Goto("select") ELSE Return(OK)
    /\ UNCHANGED <<ctxVars, beatVars, xrayVars, tunWait, statusVars, tracker, tempConfig>>

------------------------------------------------------------------------------
(* run(): the select, any ready case of which may be taken *)

\* What run() makes of a service that ended with err.
Ended(err) == IF err = OK /\ cancelled THEN OK ELSE Failure

SelectUnchanged ==
    UNCHANGED <<ctxVars, beatVars, xrayVars, tunVars, statusVars, tempConfig>>

SelectDone ==
    /\ main = "select"
    /\ cancelled
    /\ tracker' = [mesh |-> IF opt.tun THEN "stopped" ELSE tracker.mesh,
                   xray |-> IF opt.xray THEN "stopped" ELSE tracker.xray]
    /\ Return(OK)
    /\ SelectUnchanged

\* Mutant of SelectHeartbeat: the channel is looked at only during a shutdown.
SelectHeartbeatLate ==
    /\ main = "select"
    /\ cancelled
    /\ heartbeatWait # Nothing
    /\ Return(Ended(heartbeatWait))
    /\ UNCHANGED tracker
    /\ SelectUnchanged

\* Only errors are ever sent on this channel, and it is not closed.
SelectHeartbeat ==
    /\ main = "select"
    /\ heartbeatWait # Nothing
    /\ Return(Ended(heartbeatWait))
    /\ UNCHANGED tracker
    /\ SelectUnchanged

SelectTun ==
    /\ main = "select"
    /\ tunWait # Nothing
    /\ Return(Ended(tunWait))
    /\ SetMesh(IF tunWait = OK THEN "stopped" ELSE "failed")
    /\ SelectUnchanged

\* Mutant of SelectXray: a child that exits with status 0 is taken for a
\* shutdown.
SelectXrayTrusts ==
    /\ main = "select"
    /\ xrayWait # Nothing
    /\ Return(xrayWait)
    /\ SetXray(IF xrayWait = OK THEN "stopped" ELSE "failed")
    /\ SelectUnchanged

SelectXray ==
    /\ main = "select"
    /\ xrayWait # Nothing
    /\ Return(Ended(xrayWait))
    /\ SetXray(IF xrayWait = OK THEN "stopped" ELSE "failed")
    /\ SelectUnchanged

SelectStatus ==
    /\ main = "select"
    /\ statusWait # Nothing
    /\ Return(Ended(statusWait))
    /\ UNCHANGED tracker
    /\ SelectUnchanged

------------------------------------------------------------------------------
(* run(): the deferred calls, last in first out *)

Deferred(call) == main = "return" /\ defers # <<>> /\ Last(defers) = call

\* The call on top is done; after the last one the process exits.
Pop ==
    /\ defers' = Front(defers)
    /\ main' = IF Len(defers) = 1 THEN "returned" ELSE "return"
    /\ UNCHANGED <<opt, result>>

\* Process.Close cancels the child's context and then waits for done.
CloseCancel ==
    /\ Deferred("close")
    /\ xray' = [xray EXCEPT !.cancel = TRUE]
    /\ Goto("closing")
    /\ UNCHANGED <<ctxVars, beatVars, xrayWait, tunVars, statusVars, tracker, tempConfig>>

CloseWait ==
    /\ main = "closing"
    /\ xray.waiter = "done"
    /\ Pop
    /\ UNCHANGED <<ctxVars, beatVars, xrayVars, tunVars, statusVars, tracker, tempConfig>>

RemoveConfig ==
    /\ Deferred("cleanup")
    /\ tempConfig' = FALSE
    /\ Pop
    /\ UNCHANGED <<ctxVars, beatVars, xrayVars, tunVars, statusVars, tracker>>

\* statusServer.Shutdown gives up after two seconds; the listener is closed at
\* once and Serve returns ErrServerClosed, which becomes nil.
Shutdown ==
    /\ Deferred("shutdown")
    /\ status' = "closed"
    /\ statusWait' = IF status = "serving" THEN OK ELSE statusWait
    /\ Pop
    /\ UNCHANGED <<ctxVars, beatVars, xrayVars, tunVars, tracker, tempConfig>>

Stop ==
    /\ Deferred("stop")
    /\ cancelled' = TRUE
    /\ Pop
    /\ UNCHANGED <<signalled, beatVars, xrayVars, tunVars, statusVars, tracker, tempConfig>>

Startup == Register \/ Listen \/ WriteProfile \/ Validate \/ Start \/ Spawn

Select == SelectDone \/ SelectHeartbeat \/ SelectTun \/ SelectXray \/ SelectStatus

Leave == CloseCancel \/ CloseWait \/ RemoveConfig \/ Shutdown \/ Stop

------------------------------------------------------------------------------
(* The other goroutines, the child and the outside; all end with the process *)

Alive == main # "returned"

Signal ==
    /\ Alive
    /\ ~cancelled
    /\ cancelled' = TRUE
    /\ signalled' = TRUE
    /\ UNCHANGED <<mainVars, beatVars, xrayVars, tunVars, statusVars, tracker, tempConfig>>

BeatUnchanged ==
    UNCHANGED <<mainVars, ctxVars, xrayVars, tunVars, statusVars, tracker, tempConfig>>

\* The last outcomes of sendHeartbeat, as far back as they can matter.
Remember(outcome) ==
    LET all == Append(beat.recent, outcome) IN
    IF Len(all) > maxHeartbeatFailures THEN Tail(all) ELSE all

\* The loop's select: a tick, also when ctx is done as well.
BeatTick ==
    /\ Alive
    /\ beat.pc = "idle"
    /\ beat' = [beat EXCEPT !.pc = "sending"]
    /\ UNCHANGED heartbeatWait
    /\ BeatUnchanged

BeatStops ==
    /\ Alive
    /\ beat.pc = "idle"
    /\ cancelled
    /\ beat' = [beat EXCEPT !.pc = "done"]
    /\ UNCHANGED heartbeatWait
    /\ BeatUnchanged

\* Mutant of BeatOK: the failures are not reset.
BeatOKKeepsCount ==
    /\ Alive
    /\ beat.pc = "sending"
    /\ ~cancelled
    /\ beat' = [beat EXCEPT !.pc = "idle", !.recent = Remember("ok")]
    /\ UNCHANGED heartbeatWait
    /\ BeatUnchanged

BeatOK ==
    /\ Alive
    /\ beat.pc = "sending"
    /\ ~cancelled
    /\ beat' = [pc |-> "idle", failures |-> 0, recent |-> Remember("ok")]
    /\ UNCHANGED heartbeatWait
    /\ BeatUnchanged

\* 401 or 403
BeatRejected ==
    /\ Alive
    /\ beat.pc = "sending"
    /\ ~cancelled
    /\ beat' = [beat EXCEPT !.pc = "done", !.recent = Remember("rejected")]
    /\ heartbeatWait' = Failure
    /\ BeatUnchanged

\* Any other error: no answer, a timeout, another status, a cancelled request.
BeatFails ==
    /\ Alive
    /\ beat.pc = "sending"
    /\ LET failures == beat.failures + 1
           over == failures >= maxHeartbeatFailures IN
        /\ beat' = [pc |-> IF over THEN "done" ELSE "idle", failures |-> failures,
                    recent |-> Remember("failed")]
        /\ heartbeatWait' = IF over THEN Failure ELSE heartbeatWait
    /\ BeatUnchanged

Heartbeat == BeatTick \/ BeatStops \/ BeatOK \/ BeatRejected \/ BeatFails

childCancelled == cancelled \/ xray.cancel

XrayUnchanged ==
    UNCHANGED <<mainVars, ctxVars, beatVars, tunVars, statusVars, tracker, tempConfig>>

\* The child ends on its own, with a status.
ChildExits ==
    /\ Alive
    /\ xray.child = "running"
    /\ \E err \in {OK, Failure} : xray' = [xray EXCEPT !.child = "gone", !.err = err]
    /\ UNCHANGED xrayWait
    /\ XrayUnchanged

\* os/exec kills the child when its context is done.
ChildKilled ==
    /\ Alive
    /\ xray.child = "running"
    /\ childCancelled
    /\ xray' = [xray EXCEPT !.child = "gone", !.err = Failure]
    /\ UNCHANGED xrayWait
    /\ XrayUnchanged

\* The goroutine of Start: cmd.Wait has returned; the error of a child whose
\* context is done is dropped, even if it ended on its own.
Publish ==
    /\ Alive
    /\ xray.waiter = "wait"
    /\ xray.child = "gone"
    /\ xray' = [xray EXCEPT !.waiter = "done", !.err = IF childCancelled THEN OK ELSE xray.err]
    /\ UNCHANGED xrayWait
    /\ XrayUnchanged

\* Process.Wait returns and its result is sent on.
ForwardWait ==
    /\ Alive
    /\ xray.waiter = "done"
    /\ xrayWait = Nothing
    /\ xrayWait' = xray.err
    /\ UNCHANGED xray
    /\ XrayUnchanged

Supervisor == Publish \/ ForwardWait

TunEnds(err) == tun' = "ended" /\ tunWait' = err /\ UNCHANGED tracker

TunUnchanged ==
    UNCHANGED <<mainVars, ctxVars, beatVars, xrayVars, statusVars, tempConfig>>

\* runTUN up to the device's configuration by commands that ctx kills.
TunConfigure ==
    /\ Alive
    /\ tun = "configure"
    /\ \/ ~cancelled /\ tun' = "connect" /\ UNCHANGED <<tunWait, tracker>>
       \/ TunEnds(Failure)
    /\ TunUnchanged

\* Socket and hello, which do not look at ctx, and onReady.
TunReady ==
    /\ Alive
    /\ tun = "connect"
    /\ \/ tun' = "pump" /\ SetMesh("running") /\ UNCHANGED tunWait
       \/ TunEnds(Failure)
    /\ TunUnchanged

\* pump: the context is done, whatever its readers report.
PumpStops ==
    /\ Alive
    /\ tun = "pump"
    /\ cancelled
    /\ TunEnds(OK)
    /\ TunUnchanged

\* pump: a reader failed; that its socket was closed counts as no error.
PumpFails ==
    /\ Alive
    /\ tun = "pump"
    /\ ~cancelled
    /\ \E err \in {OK, Failure} : TunEnds(err)
    /\ TunUnchanged

\* Serve returns on its own.
StatusFails ==
    /\ Alive
    /\ status = "serving"
    /\ status' = "failed"
    /\ statusWait' = Failure
    /\ UNCHANGED <<mainVars, ctxVars, beatVars, xrayVars, tunVars, tracker, tempConfig>>

\* The process is gone.
Exited == main = "returned" /\ UNCHANGED vars

Next ==
    \/ Startup \/ Select \/ Leave
    \/ Signal
    \/ Heartbeat
    \/ ChildExits \/ ChildKilled \/ Supervisor
    \/ TunConfigure \/ TunReady \/ PumpStops \/ PumpFails
    \/ StatusFails
    \/ Exited

Spec == Init /\ [][Next]_vars

\* Goroutines and the kill are scheduled.  Start-up waits for requests that
\* time out and for name resolution; the configuration test alone may take for
\* ever, unless the context is done.
Fairness ==
    /\ WF_vars(Startup /\ (main = "validate" /\ opt.xray => cancelled))
    /\ WF_vars(Select)
    /\ WF_vars(Leave)
    /\ WF_vars(ChildKilled)
    /\ WF_vars(Supervisor)

FairSpec == Spec /\ Fairness

------------------------------------------------------------------------------
(* Properties *)

Wait == {Nothing, OK, Failure}

\* Every variable has its type; a deferred call is deferred once.
ClientTypeOK ==
    /\ main \in {"register", "listen", "profile", "validate", "start", "spawn", "select",
                 "return", "closing", "returned"}
    /\ IsInjective(defers)
    /\ ToSet(defers) \subseteq {"stop", "shutdown", "cleanup", "close"}
    /\ result \in Wait
    /\ beat.pc \in {"off", "idle", "sending", "done"}
    /\ beat.failures \in 0..maxHeartbeatFailures
    /\ xray.child \in {"none", "running", "gone"}
    /\ xray.waiter \in {"off", "wait", "done"}
    /\ tun \in {"off", "configure", "connect", "pump", "ended"}
    /\ status \in {"off", "serving", "failed", "closed"}
    /\ {heartbeatWait, xrayWait, tunWait, statusWait} \subseteq Wait
    /\ {tracker.mesh, tracker.xray}
        \subseteq {"disabled", "starting", "running", "stopped", "failed"}

\* Whatever made run() return, at whatever point of its start-up, it leaves
\* neither the Xray child nor the generated configuration nor the status
\* listener behind ("removes the temporary file on exit", README.md).
NothingLeftBehind ==
    main = "returned" => xray.child # "running" /\ ~tempConfig /\ status # "serving"

\* The generated configuration is there as long as the child that runs on it:
\* Close waits for the child before the file is removed.
ConfigOutlivesChild == opt.full /\ xray.child = "running" => tempConfig

\* run() returns nil only if a signal asked for it or there was nothing to
\* supervise: a child or data plane that ends by itself, even without an error,
\* even while the context is being cancelled, is not silently taken for a
\* shutdown ("the client reports the failure instead of silently continuing",
\* README.md).
CleanExitWasAskedFor ==
    result = OK => signalled \/ ~(opt.tun \/ opt.xray)

\* The heartbeat loop gives up when the coordinator has rejected the session or
\* the last three heartbeats have failed, and not before.
GivesUpWhenLeaseIsLost ==
    heartbeatWait = Failure <=>
        \/ beat.recent # <<>> /\ Last(beat.recent) = "rejected"
        \/ beat.recent = [i \in 1..maxHeartbeatFailures |-> "failed"]

\* Nobody waits for ever: after a signal, and after the end of any service, the
\* process exits, although Close waits for the goroutine that reaps the child.
ShutdownTerminates ==
    /\ signalled ~> main = "returned"
    /\ (main = "select" /\ (xray.child = "gone" \/ tun = "ended" \/ status = "failed"
                                \/ heartbeatWait = Failure)) ~> main = "returned"
==============================================================================
