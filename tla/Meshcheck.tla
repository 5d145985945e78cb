------------------------------ MODULE Meshcheck ------------------------------
(***************************************************************************)
(* The deployment check of cmd/meshcheck: its phases, the temporary        *)
(* firewall chain it installs to force relay fallback, and what it         *)
(* concludes from the client's direct_tx counter and from pings.  A step   *)
(* is an HTTP request, a ping or an iptables command, with all its         *)
(* outcomes.  Deadlines may pass at any time; iptables, the client and the *)
(* network are modelled from how the check uses them.  Measured times are  *)
(* left out.                                                               *)
(***************************************************************************)
EXTENDS Integers, SequencesExt

CONSTANTS
    RelayIPs,       \* the IPv4 addresses of the relay, in the order resolved
    Samples,        \* ping samples per phase
    MaxTX           \* bound on direct payloads sent by the client

Drop == "drop"

\* An address is never taken for the rule that drops packets.
ASSUME MeshcheckAssumption ==
    /\ RelayIPs \in Seq(STRING \ {Drop}) /\ RelayIPs # <<>>
    /\ Samples \in Nat \ {0}
    /\ MaxTX \in Nat

VARIABLES
    forceFallback,  \* flag
    pc,
    phase,          \* the phase waitForDirect works on
    err,            \* run() is going to return an error
    cancelled,      \* SIGINT or SIGTERM
    base,           \* direct_tx as a phase has last taken it for reference
    quiet,          \* fallbackQuiet has passed since that value was seen to change
    got,            \* successful pings
    cmds,           \* iptables commands still to run
    created,        \* the firewall chain exists
    chain,          \* its rules
    active,         \* OUTPUT jumps to it
    tx,             \* the client's direct_tx
    healthy,        \* its selector sends to the peer directly
    failed,         \* history: clean-up commands that did not do their work
    leaked,         \* history: -N took effect and failed
    removedAt,      \* history: direct_tx when the firewall was removed
    routes          \* history: how the pings of a confirmation went

control == <<forceFallback, phase, cancelled>>
counters == <<base, quiet, got>>
firewall == <<cmds, created, chain, active>>
client == <<tx, healthy>>
history == <<failed, leaked, removedAt, routes>>
vars == <<control, pc, err, counters, firewall, client, history>>

\* UDP to other addresses than the relay's is dropped; so is UDP to the relay
\* if no earlier rule returns it.
Blocking == active /\ Contains(chain, Drop)

RelayBlocked ==
    /\ Blocking
    /\ \E r \in ToSet(RelayIPs) :
        ~\E i \in 1..Len(chain) : chain[i] = r /\ \A j \in 1..i : chain[j] # Drop

Init ==
    /\ forceFallback \in BOOLEAN
    /\ pc = "status"
    /\ phase = "direct-path"
    /\ err = FALSE
    /\ cancelled = FALSE
    /\ base = 0 /\ quiet = FALSE /\ got = 0
    /\ cmds = <<>> /\ created = FALSE /\ chain = <<>> /\ active = FALSE
    /\ tx = 0
    /\ healthy \in BOOLEAN
    /\ failed = {} /\ leaked = FALSE /\ removedAt = 0 /\ routes = {}

------------------------------------------------------------------------------
(* The client and the network (external) *)

\* The selector changes its mind, or traffic of others is sent directly.
Background ==
    /\ \/ healthy' = ~healthy /\ UNCHANGED tx
       \/ healthy /\ tx < MaxTX /\ tx' = tx + 1 /\ UNCHANGED healthy
    /\ UNCHANGED <<control, pc, err, counters, firewall, history>>

\* pingOnce.  A direct send is counted; one that the firewall drops is lost
\* silently, or is refused and goes to the relay at once.
PingDirect ==
    /\ healthy /\ ~Blocking
    /\ tx < MaxTX
    /\ tx' = tx + 1
    /\ UNCHANGED healthy

PingRelay ==
    /\ ~RelayBlocked
    /\ ~healthy \/ Blocking
    /\ healthy' = FALSE
    /\ UNCHANGED tx

PingFails ==
    /\ tx' \in {tx} \cup (IF healthy /\ tx < MaxTX THEN {tx + 1} ELSE {})
    /\ UNCHANGED healthy

PingOK == ~cancelled /\ (PingDirect \/ PingRelay)

------------------------------------------------------------------------------
(* iptables (external): what a command needs and what it does *)

Applicable(cmd) ==
    CASE cmd[1] = "N" -> ~created
      [] cmd[1] \in {"A", "I", "F"} -> created
      [] cmd[1] = "D" -> active
      [] cmd[1] = "X" -> created /\ chain = <<>> /\ ~active

Effect(cmd) ==
    /\ created' = CASE cmd[1] = "N" -> TRUE [] cmd[1] = "X" -> FALSE [] OTHER -> created
    /\ chain' = CASE cmd[1] = "A" -> Append(chain, cmd[2]) [] cmd[1] = "F" -> <<>> [] OTHER -> chain
    /\ active' = CASE cmd[1] = "I" -> TRUE [] cmd[1] = "D" -> FALSE [] OTHER -> active

------------------------------------------------------------------------------
(* The check: control *)

Goto(label) == pc' = label /\ UNCHANGED err

\* The function returns an error, after its deferred fw.Close if there is one.
Fail ==
    /\ err' = TRUE
    /\ pc' = "finish"

Stay == UNCHANGED <<control, counters, firewall, client, history>>

\* readStatus and the state of the mesh service, then the baseline phase.
ReadStatus ==
    /\ pc = "status"
    /\ \/ ~cancelled /\ Goto("baseline")
       \/ Fail
    /\ Stay

\* measurePhase: reads, pings that all succeed, reads.
Baseline ==
    /\ pc = "baseline"
    /\ \/ ~cancelled /\ Goto("direct")
       \/ Fail
    /\ Stay

\* Mutant of DirectBefore: the counter is read once for all phases.
DirectBeforeOnce ==
    /\ pc = "direct"
    /\ \/ ~cancelled /\ Goto("ping") /\ got' = 0
          /\ base' = IF phase = "direct-path" THEN tx ELSE base
       \/ Fail /\ UNCHANGED <<base, got>>
    /\ UNCHANGED <<control, quiet, firewall, client, history>>

\* waitForDirect, for the direct path and again for its recovery.
DirectBefore ==
    /\ pc = "direct"
    /\ \/ ~cancelled /\ Goto("ping") /\ base' = tx /\ got' = 0
       \/ Fail /\ UNCHANGED <<base, got>>
    /\ UNCHANGED <<control, quiet, firewall, client, history>>

DirectPing ==
    /\ pc = "ping"
    /\ \/ PingOK /\ got' = IF got < Samples THEN got + 1 ELSE got
       \/ PingFails /\ UNCHANGED got
    /\ Goto("read")
    /\ UNCHANGED <<control, base, quiet, firewall, history>>

\* The phase is over when direct_tx has grown and a ping has succeeded and the
\* pings that are missing can be collected; otherwise sleep and try again.
DirectRead ==
    /\ pc = "read"
    /\ ~cancelled
    /\ \/ /\ tx > base /\ got > 0
          /\ \/ /\ phase = "direct-path" /\ forceFallback
                /\ Goto("fallback")
             \/ /\ phase = "direct-recovery" \/ ~forceFallback
                /\ Goto("finish")
             \/ got < Samples /\ Fail
       \/ ~(tx > base /\ got > 0) /\ Goto("ping")
    /\ Stay

\* A status request that fails, a phase that times out, a signal.
DirectFails ==
    /\ pc \in {"ping", "read"}
    /\ Fail
    /\ Stay

------------------------------------------------------------------------------
(* The check: forced fallback *)

\* Mutant of InstallCommands: the chain is activated first.
InstallCommandsActiveFirst ==
    <<<<"N">>, <<"I">>, <<"A", Drop>>>> \o [i \in DOMAIN RelayIPs |-> <<"A", RelayIPs[i]>>]

InstallCommands ==
    <<<<"N">>>> \o [i \in DOMAIN RelayIPs |-> <<"A", RelayIPs[i]>>]
        \o <<<<"A", Drop>>, <<"I">>>>

CleanupCommands == <<<<"D">>, <<"F">>, <<"X">>>>

\* verifyFallback: the counter, the relay's addresses.
FallbackBefore ==
    /\ pc = "fallback"
    /\ \/ /\ ~cancelled
          /\ Goto("install")
          /\ base' = tx
          /\ quiet' = FALSE
          /\ cmds' = InstallCommands
       \/ Fail /\ UNCHANGED <<base, quiet, cmds>>
    /\ UNCHANGED <<control, got, created, chain, active, client, history>>

\* installRelayOnlyFirewall: the next command succeeds.
Install ==
    /\ pc = "install"
    /\ ~cancelled
    /\ Applicable(Head(cmds))
    /\ Effect(Head(cmds))
    /\ cmds' = Tail(cmds)
    /\ Goto(IF Len(cmds) = 1 THEN "fping" ELSE "install")
    /\ UNCHANGED <<control, counters, client, history>>

\* It fails, which a command that the signal kills may do after it has taken
\* effect.  Once the chain is there, everything is rolled back.
InstallFails ==
    /\ pc = "install"
    /\ LET cmd == Head(cmds) IN
        /\ \/ /\ cancelled
              /\ Applicable(cmd)
              /\ Effect(cmd)
              /\ leaked' = (cmd[1] = "N")
           \/ UNCHANGED <<created, chain, active, leaked>>
        /\ IF cmd[1] = "N"
           THEN Fail /\ cmds' = <<>>
           ELSE err' = TRUE /\ pc' = "cleanup" /\ cmds' = CleanupCommands
    /\ UNCHANGED <<control, counters, client, failed, removedAt, routes>>

\* The loop: a ping, whose result matters only if the path is quiet by then.
FallbackPing ==
    /\ pc = "fping"
    /\ \/ PingOK /\ got' = 1
       \/ PingFails /\ got' = 0
    /\ Goto("fread")
    /\ UNCHANGED <<control, base, quiet, firewall, history>>

\* fallbackQuiet passes.
QuietPasses ==
    /\ pc \in {"fping", "fread"}
    /\ quiet' = TRUE
    /\ UNCHANGED <<control, pc, err, base, got, firewall, client, history>>

\* The counter is compared with its last value.
FallbackRead ==
    /\ pc = "fread"
    /\ ~cancelled
    /\ base' = tx
    /\ quiet' = (quiet /\ tx = base)
    /\ Goto(IF got = 1 /\ quiet' THEN "cping" ELSE "fping")
    /\ got' = 0
    /\ routes' = {}
    /\ UNCHANGED <<control, firewall, client, failed, leaked, removedAt>>

\* collectPings: as many attempts as samples; confirmBefore is base.
ConfirmPing ==
    /\ pc = "cping"
    /\ \/ /\ PingOK
          /\ got' = got + 1
          /\ routes' = routes \cup {IF tx' = tx THEN "relay" ELSE "direct"}
          /\ Goto(IF got + 1 = Samples THEN "cread" ELSE "cping")
       \/ PingFails /\ Goto("fping") /\ UNCHANGED <<got, routes>>
    /\ UNCHANGED <<control, base, quiet, firewall, failed, leaked, removedAt>>

\* Mutant of ConfirmRead: fallback is accepted although direct_tx has grown.
ConfirmReadAny ==
    /\ pc = "cread"
    /\ ~cancelled
    /\ Goto("cleanup") /\ cmds' = CleanupCommands
    /\ UNCHANGED <<control, counters, created, chain, active, client, history>>

\* Confirmed if direct_tx has not moved; then the firewall is closed.
ConfirmRead ==
    /\ pc = "cread"
    /\ ~cancelled
    /\ \/ tx = base /\ Goto("cleanup") /\ cmds' = CleanupCommands
       \/ tx # base /\ Goto("fping") /\ UNCHANGED cmds
    /\ UNCHANGED <<control, counters, created, chain, active, client, history>>

\* Mutant of FallbackFails: the loop looks at the signals and not at the deadline.
FallbackFailsOnSignal ==
    /\ pc \in {"fping", "fread", "cping", "cread"}
    /\ cancelled
    /\ err' = TRUE
    /\ pc' = "cleanup"
    /\ cmds' = CleanupCommands
    /\ UNCHANGED <<control, counters, created, chain, active, client, history>>

\* A status request that fails, the deadline, a signal: the deferred Close.
FallbackFails ==
    /\ pc \in {"fping", "fread", "cping", "cread"}
    /\ err' = TRUE
    /\ pc' = "cleanup"
    /\ cmds' = CleanupCommands
    /\ UNCHANGED <<control, counters, created, chain, active, client, history>>

\* After the last command of cleanup: on to the recovery phase, unless a command
\* reported an error or run() is returning one anyway.
CleanupNext(failure) ==
    /\ err' = (err \/ failure)
    /\ pc' = IF Len(cmds) > 1 THEN "cleanup" ELSE IF err' THEN "finish" ELSE "direct"
    /\ phase' = IF pc' = "direct" THEN "direct-recovery" ELSE phase
    /\ UNCHANGED <<forceFallback, cancelled, counters, client, leaked, routes>>

\* cleanup runs under a context of its own.
Cleanup ==
    /\ pc = "cleanup"
    /\ Applicable(Head(cmds))
    /\ Effect(Head(cmds))
    /\ cmds' = Tail(cmds)
    /\ removedAt' = IF Head(cmds) = <<"D">> THEN tx ELSE removedAt
    /\ CleanupNext(FALSE)
    /\ UNCHANGED failed

\* Mutant of CleanupFails: the first error ends the clean-up.
CleanupFailsStops ==
    /\ pc = "cleanup"
    /\ failed' = failed \cup {Head(cmds)[1]}
    /\ Fail
    /\ cmds' = <<>>
    /\ UNCHANGED <<control, counters, created, chain, active, client, leaked, removedAt, routes>>

\* A command fails, for want of what it removes, for want of the lock or killed
\* by the deadline (then possibly after it has taken effect); the others are
\* tried all the same.
CleanupFails ==
    /\ pc = "cleanup"
    /\ \/ /\ Applicable(Head(cmds))
          /\ Effect(Head(cmds))
          /\ UNCHANGED failed
       \/ /\ UNCHANGED <<created, chain, active>>
          /\ failed' = failed \cup {Head(cmds)[1]}
    /\ cmds' = Tail(cmds)
    /\ CleanupNext(TRUE)
    /\ UNCHANGED removedAt

\* finish; the process exits.
Finish ==
    /\ pc = "finish"
    /\ Goto("exited")
    /\ Stay

Signal ==
    /\ pc # "exited"
    /\ ~cancelled
    /\ cancelled' = TRUE
    /\ UNCHANGED <<forceFallback, phase, pc, err, counters, firewall, client, history>>

Checker ==
    \/ ReadStatus \/ Baseline
    \/ DirectBefore \/ DirectPing \/ DirectRead
    \/ FallbackBefore \/ Install \/ InstallFails
    \/ FallbackPing \/ FallbackRead \/ ConfirmPing \/ ConfirmRead
    \/ Cleanup \/ CleanupFails
    \/ Finish

Next == Checker \/ DirectFails \/ FallbackFails \/ QuietPasses \/ Background \/ Signal

Spec == Init /\ [][Next]_vars

\* The check runs, and the deadlines of its phases pass.
FairSpec ==
    Spec /\ WF_vars(Checker) /\ WF_vars(DirectFails) /\ WF_vars(FallbackFails)

------------------------------------------------------------------------------
(* Properties *)

\* At no point of installation, rollback or clean-up, and whichever command fails
\* with or without effect, is UDP to the relay blocked: the forced fallback never
\* cuts off what it tests.
RelayStaysReachable == ~RelayBlocked

\* The check accepts fallback only if every confirming ping went over the relay
\* while direct UDP was blocked and while nobody's traffic went direct.
FallbackIsReal ==
    [][pc = "cread" /\ pc' = "cleanup" /\ ~err' =>
        Blocking /\ routes = {"relay"} /\ tx = base]_vars

\* A passed check with forced fallback has removed its firewall, and has seen
\* direct_tx grow after that ("requires direct_tx to increase again",
\* docs/deployment-validation.md).
PassedMeansRecovered ==
    pc = "exited" /\ ~err /\ forceFallback =>
        ~created /\ ~active /\ tx > removedAt

\* What stays behind is explained by commands that failed without doing their
\* work, on every path through rollback, deferred Close and Close: the jump by a
\* failed -D, the chain by a failed -X or by a -N that was killed too late, and
\* dropped packets only by -D and -F having failed both.
LeftoversExplained ==
    pc = "exited" =>
        /\ active => "D" \in failed
        /\ created => "X" \in failed \/ leaked
        /\ Blocking => {"D", "F"} \subseteq failed

\* The check comes to an end, also when it is interrupted, and with it the
\* blocking of direct UDP ("Normal exit, errors, SIGINT, and SIGTERM attempt
\* automatic cleanup", docs/deployment-validation.md).
BlockingEnds ==
    /\ <>(pc = "exited")
    /\ Blocking ~> (~Blocking \/ {"D", "F"} \subseteq failed)
==============================================================================
