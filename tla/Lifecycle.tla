------------------------------ MODULE Lifecycle ------------------------------
(***************************************************************************)
(* Clients and coordinator over the life of leases: registration, the      *)
(* heartbeat loop with its timeouts and its three attempts, the lease      *)
(* sweeper, relay endpoints and hello frames, clients and a coordinator    *)
(* that are restarted.  Time is explicit, because what keeps an address    *)
(* from being used twice is that a client gives up before its lease is     *)
(* reclaimed.  Timers fire on time and a request ends with an answer or    *)
(* with the HTTP client's timeout; any request, answer or frame may be     *)
(* lost.  The races inside the coordinator are the subject of Coordinator: *)
(* here a request or a frame is handled in one step, and only the sweeper  *)
(* keeps its two (ExpireBefore, ForgetPeer).  There is one clock: leases   *)
(* are judged by the coordinator's alone, and of a client only how long    *)
(* its ticker and its timeouts take matters.                               *)
(***************************************************************************)
EXTENDS Registry, Sequences

CONSTANTS
    LeaseTTL,
    HeartbeatInterval,
    Timeout,        \* of an HTTP request
    Tunnelled,      \* the clients that run with -tun,
    Probing,        \*   and those of them with -p2p-probe
    MaxTime,        \* bounds: the clock,
    MaxLife,        \*   starts of each client,
    MaxBoots        \*   starts of the coordinator

maxHeartbeatFailures == 3

\* What main asks of the flags: a heartbeat interval that is positive and shorter
\* than the lease, -tun for -p2p-probe.
ASSUME LifecycleAssumption ==
    /\ HeartbeatInterval \in Nat \ {0} /\ Timeout \in Nat /\ LeaseTTL \in Nat
    /\ HeartbeatInterval < LeaseTTL
    /\ Probing \subseteq Tunnelled /\ Tunnelled \subseteq Node
    /\ MaxTime \in Nat /\ 0..MaxTime \subseteq Time
    /\ MaxLife \in [Node -> Nat] /\ MaxBoots \in Nat

\* The longest time from one heartbeat to the next.
Pace == IF Timeout > HeartbeatInterval THEN Timeout ELSE HeartbeatInterval

\* The flags do not ask for this, though the defaults (60 s, 15 s, 5 s) satisfy it:
\* a lease is longer than a registration whose answer is slow, the first heartbeat
\* and those up to the last failure, and the timeout of that one.
LeaseCoversRetries ==
    Timeout + HeartbeatInterval + (maxHeartbeatFailures - 1) * Pace + Timeout < LeaseTTL

VARIABLES
    clock,
    clients,        \* node -> the current process of that node
    endpoints,      \* relay: node -> UDP address, the process that sent the frame
    frames,         \* hello frames of processes that are gone, still under way
    todo,           \* sweeper: expired peers it has yet to forget
    boots           \* when each coordinator process started

clientVars == <<clients, frames>>
serverVars == <<registryVars, endpoints, todo, boots>>
vars == <<clock, clientVars, serverVars>>

Down(life) == [pc |-> "down", life |-> life]

Init ==
    /\ RegistryInit
    /\ clock = 0
    /\ clients = [n \in Node |-> Down(0)]
    /\ endpoints = Empty
    /\ frames = {}
    /\ todo = {}
    /\ boots = <<0>>

Epoch == Len(boots)

Running(n) == clients[n].pc = "up"

\* The coordinator this client registered with has been restarted.
Orphan(n) == Running(n) /\ clients[n].epoch # Epoch

------------------------------------------------------------------------------
(* Clients *)

Become(n, state) == clients' = [clients EXCEPT ![n] = state]

\* A hello frame carries the session token and comes from the client's socket.
Hello(c, n) == [token |-> c.token, node |-> n, life |-> c.life]

\* A client starts and its registration reaches the coordinator; the answer
\* takes a while, and then the heartbeat ticker starts.
ClientStarts(n) ==
    /\ clients[n].pc = "down"
    /\ clients[n].life < MaxLife[n]
    /\ RegisterAgain(n, clock) \/ RegisterNew(n, clock)
    /\ \E delay \in 0..Timeout :
        LET due == clock + delay + HeartbeatInterval IN
        Become(n, [pc |-> "up", life |-> clients[n].life + 1, epoch |-> Epoch,
                   token |-> peers'[n].SessionToken, ip |-> peers'[n].VirtualIP,
                   due |-> due, tick |-> due + HeartbeatInterval, heard |-> FALSE,
                   failures |-> 0])
    /\ UNCHANGED <<clock, frames, endpoints, todo, boots>>

\* Mutant of HandleHello: an address once bound is kept.
HandleHelloKeeps(f) ==
    endpoints' = IF Known(f.token) /\ byToken[f.token] \notin DOMAIN endpoints
                 THEN Put(endpoints, byToken[f.token], [node |-> f.node, life |-> f.life])
                 ELSE endpoints

\* handleDatagram of a hello: authenticate and bind.
HandleHello(f) ==
    endpoints' = IF Known(f.token)
                 THEN Put(endpoints, byToken[f.token], [node |-> f.node, life |-> f.life])
                 ELSE endpoints

\* A lost answer, an operator, a crash: the process is gone, but a frame of it
\* may still be under way.
ClientExits(n) ==
    /\ Running(n)
    /\ Become(n, Down(clients[n].life))
    /\ \/ UNCHANGED frames
       \/ n \in Tunnelled /\ frames' = frames \cup {Hello(clients[n], n)}
    /\ UNCHANGED <<clock, serverVars>>

\* A frame of a client arrives: the one hello of runTUN, a packet of its TUN or, if
\* it probes, a hello of relayHelloLoop.  The relay binds its source in any case.
SayHello(n) ==
    /\ n \in Tunnelled /\ Running(n)
    /\ HandleHello(Hello(clients[n], n))
    /\ UNCHANGED <<clock, clientVars, registryVars, todo, boots>>

\* A heartbeat is under way from the moment it is due, for no longer than the
\* timeout.
Beat(n) == Running(n) /\ clients[n].due <= clock

\* The coordinator handles the request; its answer may get lost.
BeatHeard(n) ==
    /\ Beat(n) /\ ~clients[n].heard
    /\ TouchByToken(clients[n].token, clock)
    /\ Become(n, [clients[n] EXCEPT !.heard = TRUE])
    /\ UNCHANGED <<clock, frames, endpoints, todo, boots>>

\* The loop waits for the ticker again.  A tick that fired during the request is in
\* the ticker's channel and starts the next heartbeat at once; ticks after it
\* were dropped.
AwaitTick(n, failures) ==
    LET c == clients[n]
        start == IF c.tick > clock THEN c.tick ELSE clock
    IN \E t \in (start + 1)..(start + HeartbeatInterval) :
        /\ (t - c.tick) % HeartbeatInterval = 0
        /\ Become(n, [c EXCEPT !.due = start, !.tick = t, !.heard = FALSE, !.failures = failures])

\* sendHeartbeat returns without an error.
BeatOK(n) ==
    /\ Beat(n) /\ clients[n].heard
    /\ AwaitTick(n, 0)
    /\ UNCHANGED <<clock, frames, serverVars>>

\* Mutant of FailureCounts: the fourth failure is the last.
FailureCountsMore(n) ==
    LET failures == clients[n].failures + 1 IN
    IF failures > maxHeartbeatFailures
    THEN Become(n, Down(clients[n].life))
    ELSE AwaitTick(n, failures)

\* heartbeatLoop after an error; when it gives up, run() returns.
FailureCounts(n) ==
    LET failures == clients[n].failures + 1 IN
    IF failures >= maxHeartbeatFailures
    THEN Become(n, Down(clients[n].life))
    ELSE AwaitTick(n, failures)

\* The request or its answer is lost, or the coordinator fails.
BeatFails(n) ==
    /\ Beat(n)
    /\ FailureCounts(n)
    /\ UNCHANGED <<clock, frames, serverVars>>

\* Mutant of BeatRejected: a 401 is an error like any other and, as an answer,
\* shows that the coordinator is there.
BeatRejectedResets(n) ==
    /\ Beat(n) /\ ~clients[n].heard
    /\ ~Known(clients[n].token)
    /\ AwaitTick(n, 0)
    /\ UNCHANGED <<clock, frames, serverVars>>

\* 401: the client exits.
BeatRejected(n) ==
    /\ Beat(n) /\ ~clients[n].heard
    /\ ~Known(clients[n].token)
    /\ Become(n, Down(clients[n].life))
    /\ UNCHANGED <<clock, frames, serverVars>>

Client(n) ==
    \/ ClientStarts(n) \/ ClientExits(n) \/ SayHello(n)
    \/ BeatHeard(n) \/ BeatOK(n) \/ BeatFails(n) \/ BeatRejected(n)

------------------------------------------------------------------------------
(* Coordinator *)

\* A late frame arrives.
LateHello(f) ==
    /\ frames' = frames \ {f}
    /\ HandleHello(f)
    /\ UNCHANGED <<clock, clients, registryVars, todo, boots>>

\* runLeaseSweeper: ExpireBefore at a tick,
SweepExpire ==
    /\ todo = {}
    /\ todo' = Expired(clock - LeaseTTL)
    /\ ExpireBefore(clock - LeaseTTL)
    /\ UNCHANGED <<clock, clientVars, endpoints, boots>>

\* then ForgetPeer by node ID, whoever holds a lease under that ID by then.
SweepForget(n) ==
    /\ n \in todo
    /\ todo' = todo \ {n}
    /\ endpoints' = Drop(endpoints, {n})
    /\ UNCHANGED <<clock, clientVars, registryVars, boots>>

\* A restarted coordinator has empty maps; tokens are random, so none returns.
CoordinatorRestarts ==
    /\ Epoch < MaxBoots
    /\ boots' = Append(boots, clock)
    /\ peers' = Empty /\ byIP' = Empty /\ byToken' = Empty
    /\ byNode' = Empty /\ used' = Empty /\ next' = 2
    /\ endpoints' = Empty
    /\ todo' = {}
    /\ UNCHANGED <<clock, clientVars, minted>>

\* Time does not pass the end of a request.
Tick ==
    /\ clock < MaxTime
    /\ \A n \in Node : Running(n) => clock < clients[n].due + Timeout
    /\ clock' = clock + 1
    /\ UNCHANGED <<clientVars, serverVars>>

Next ==
    \/ \E n \in Node : Client(n) \/ SweepForget(n)
    \/ \E f \in frames : LateHello(f)
    \/ SweepExpire
    \/ CoordinatorRestarts
    \/ Tick

Spec == Init /\ [][Next]_vars

\* Of the frames that relayHelloLoop keeps sending one arrives as long as it is
\* needed.  Only a client that probes has this loop; of the frames of others, of
\* heartbeats, sweeps and starts nothing is assumed.
Fairness ==
    \A n \in Probing : WF_vars(SayHello(n))

FairSpec == Spec /\ Fairness

------------------------------------------------------------------------------
(* Properties *)

\* A client is gone before its lease is reclaimed, provided that the lease covers
\* the retries (LeaseCoversRetries): whichever heartbeats and answers are lost, a
\* client whose coordinator lives has a live session ("the client exits after three
\* consecutive failures rather than silently continuing with a lease that the
\* coordinator may soon reclaim", docs/peer-leases.md).
ClientLeavesFirst ==
    \A n \in Node : Running(n) => Orphan(n) \/ Known(clients[n].token)

\* Provided that the lease covers the retries, two running clients share a virtual
\* IP only if one of them is an orphan of a coordinator that was restarted, and for
\* less than the lease of the restarted one: by then 401 or three failed heartbeats
\* have made the orphan exit.
NoLastingConflict ==
    \A m, n \in Node :
        m # n /\ Running(m) /\ Running(n) /\ clients[m].ip = clients[n].ip =>
            \E o \in {m, n} :
                Orphan(o) /\ clock < boots[clients[o].epoch + 1] + LeaseTTL

Bound(n) == n \in DOMAIN endpoints /\ endpoints[n] = [node |-> n, life |-> clients[n].life]

\* With -p2p-probe a client that keeps its session ends up with its relay endpoint
\* and then keeps it.  What can take the endpoint away is left over from the process
\* before: a sweep of its lease that gets to ForgetPeer after the new process has
\* registered, or a late frame.  Either comes to an end, the sweeper lists no client
\* that renews its lease, and the hello loop repairs what they did.  Without the
\* loop (client main.go writes one hello) nothing of the kind holds.
EndpointSettles ==
    \A n \in Probing :
        <>[](Running(n) /\ Known(clients[n].token)) => <>[]Bound(n)
==============================================================================
