----------------------------- MODULE Coordinator -----------------------------
(***************************************************************************)
(* The coordinator process of cmd/server/main.go: the UDP relay goroutine, *)
(* the lease sweeper and any number of concurrent HTTP handlers, over the  *)
(* registry, the relay's maps and the ticket manager.  Each component has  *)
(* its own lock and no handler holds one across two calls, so every call   *)
(* into a component is a step of its own and what a handler read before it *)
(* may be stale.                                                           *)
(*                                                                         *)
(* Clients appear as inputs: a datagram or a request may carry any session *)
(* token handed out so far, at any time, any number of times.              *)
(***************************************************************************)
EXTENDS Relay, Tickets

CONSTANTS
    Handler,            \* HTTP requests that can be in progress at once
    Requests,           \* the kinds of requests clients make
    Bodies,             \* the kinds of relay frames clients send
    LeaseTTL,           \* -peer-lease
    HeartbeatInterval,  \* -heartbeat-interval
    MaxTime             \* bound on the clock

\* The checks of main on its flags; both durations are at least one second.
ASSUME CoordinatorAssumption ==
    /\ HeartbeatInterval \in Nat \ {0}
    /\ LeaseTTL \in Nat
    /\ HeartbeatInterval < LeaseTTL
    /\ MaxTime \in Nat
    /\ Time = 0..MaxTime
    /\ Requests \subseteq {"register", "heartbeat", "issue", "tickets"}
    /\ Bodies \subseteq {"hello", "malformed", "unicast", "discovery"}

VARIABLES
    clock,
    ticks,      \* the channel of the sweeper's ticker: the pending tick, if any
    sweep,      \* the sweeper: its step and the expired peers still to forget
    http,       \* handler -> the request it serves and what it has read
    lateTickets \* history: tickets stored after the lease of a member had ended

procVars == <<ticks, sweep, http>>
vars == <<registryVars, relayVars, ticketVars, clock, procVars, lateTickets>>

HttpIdle == [pc |-> "idle"]
NoTick == 0

CoordinatorInit ==
    /\ RegistryInit
    /\ RelayInit
    /\ TicketsInit
    /\ clock = 0
    /\ ticks = NoTick
    /\ sweep = [pc |-> "idle", todo |-> {}]
    /\ http = [h \in Handler |-> HttpIdle]
    /\ lateTickets = {}

------------------------------------------------------------------------------
(* Time *)

SweepInterval ==
    LET third == LeaseTTL \div 3 IN
    IF third > 0 /\ third < HeartbeatInterval THEN third ELSE HeartbeatInterval

\* The ticker fires every SweepInterval; its channel holds one tick and a tick
\* that finds it full is dropped.
Tick ==
    /\ clock < MaxTime
    /\ clock' = clock + 1
    /\ ticks' = IF (clock + 1) % SweepInterval = 0 /\ ticks = NoTick
                THEN clock + 1
                ELSE ticks
    /\ UNCHANGED <<registryVars, relayVars, ticketVars, sweep, http, lateTickets>>

------------------------------------------------------------------------------
(* The lease sweeper *)

\* Mutant of SweepExpire: leases end after one heartbeat interval.
SweepExpireEarly ==
    /\ sweep.pc = "idle"
    /\ ticks # NoTick
    /\ ticks' = NoTick
    /\ LET E == Expired(ticks - HeartbeatInterval) IN
       sweep' = [pc |-> IF E = {} THEN "prune" ELSE "endpoint", todo |-> E]
    /\ ExpireBefore(ticks - HeartbeatInterval)
    /\ UNCHANGED <<relayVars, ticketVars, clock, http, lateTickets>>

\* A tick is received: the expired leases leave the registry.
SweepExpire ==
    /\ sweep.pc = "idle"
    /\ ticks # NoTick
    /\ ticks' = NoTick
    /\ LET E == Expired(ticks - LeaseTTL) IN
       sweep' = [pc |-> IF E = {} THEN "prune" ELSE "endpoint", todo |-> E]
    /\ ExpireBefore(ticks - LeaseTTL)
    /\ UNCHANGED <<relayVars, ticketVars, clock, http, lateTickets>>

\* relay.ForgetPeer, first lock.
SweepEndpoint ==
    /\ sweep.pc = "endpoint"
    /\ ForgetEndpoint(FirstOf(sweep.todo))
    /\ sweep' = [sweep EXCEPT !.pc = "discovery"]
    /\ UNCHANGED <<registryVars, ticketVars, clock, ticks, http, lateTickets>>

\* relay.ForgetPeer, second lock.
SweepDiscovery ==
    /\ sweep.pc = "discovery"
    /\ ForgetDiscovery(FirstOf(sweep.todo))
    /\ sweep' = [sweep EXCEPT !.pc = "tickets"]
    /\ UNCHANGED <<registryVars, ticketVars, clock, ticks, http, lateTickets>>

\* Mutant of SweepTickets: the loop ends after the first expired peer.
SweepTicketsBreaks ==
    /\ sweep.pc = "tickets"
    /\ ForgetNode(FirstOf(sweep.todo))
    /\ sweep' = [pc |-> "prune", todo |-> {}]
    /\ UNCHANGED <<registryVars, relayVars, clock, ticks, http, lateTickets>>

\* tickets.ForgetNode, then the next expired peer.
SweepTickets ==
    /\ sweep.pc = "tickets"
    /\ LET n == FirstOf(sweep.todo) IN
        /\ ForgetNode(n)
        /\ sweep' = [pc |-> IF sweep.todo = {n} THEN "prune" ELSE "endpoint",
                     todo |-> sweep.todo \ {n}]
    /\ UNCHANGED <<registryVars, relayVars, clock, ticks, http, lateTickets>>

SweepPrune ==
    /\ sweep.pc = "prune"
    /\ Prune(clock)
    /\ sweep' = [sweep EXCEPT !.pc = "idle"]
    /\ UNCHANGED <<registryVars, relayVars, clock, ticks, http, lateTickets>>

Sweeper == SweepExpire \/ SweepEndpoint \/ SweepDiscovery \/ SweepTickets \/ SweepPrune

------------------------------------------------------------------------------
(* HTTP handlers *)

Become(h, state) == http' = [http EXCEPT ![h] = state]

\* A step that only reads.
ReadOnly(h, state) ==
    /\ Become(h, state)
    /\ UNCHANGED <<registryVars, relayVars, ticketVars, clock, ticks, sweep, lateTickets>>

\* POST /v1/peers: the timestamp is read before the registry is locked.
RegisterRequest(h, n) ==
    /\ http[h].pc = "idle"
    /\ "register" \in Requests
    /\ ReadOnly(h, [pc |-> "register", node |-> n, at |-> clock])

\* registry.Register: renewed, granted, or refused for want of an address or
\* of random bytes.
RegisterReply(h) ==
    /\ http[h].pc = "register"
    /\ LET n == http[h].node IN
        \/ RegisterAgain(n, http[h].at)
        \/ RegisterNew(n, http[h].at)
        \/ RegisterTokenFails(n)
        \/ PoolExhausted(n) /\ UNCHANGED registryVars
    /\ Become(h, HttpIdle)
    /\ UNCHANGED <<relayVars, ticketVars, clock, ticks, sweep, lateTickets>>

\* POST /v1/heartbeat: the session is checked, then the time is read.
HeartbeatRequest(h, t) ==
    /\ http[h].pc = "idle"
    /\ "heartbeat" \in Requests
    /\ Known(t)
    /\ ReadOnly(h, [pc |-> "touch", session |-> t, at |-> clock])

\* registry.TouchByToken: 204, or 401 when the lease expired meanwhile.
HeartbeatReply(h) ==
    /\ http[h].pc = "touch"
    /\ LET t == http[h].session IN
        \/ TouchByToken(t, http[h].at)
        \/ ~Known(t) /\ UNCHANGED registryVars
    /\ Become(h, HttpIdle)
    /\ UNCHANGED <<relayVars, ticketVars, clock, ticks, sweep, lateTickets>>

Issuing == {h \in Handler : http[h].pc \in {"target", "stamp", "issue"}}

\* POST /v1/p2p/tickets: the source is the authenticated peer.
IssueRequest(h, t, target) ==
    /\ http[h].pc = "idle"
    /\ "issue" \in Requests
    /\ issued + Cardinality(Issuing) < MaxTickets
    /\ Known(t)
    /\ target # GetByToken(t).NodeID
    /\ ReadOnly(h, [pc |-> "target", node |-> GetByToken(t).NodeID, target |-> target])

\* registry.Get(target): 404 when it is not registered.
IssueTarget(h) ==
    /\ http[h].pc = "target"
    /\ ReadOnly(h, IF http[h].target \in DOMAIN peers
                   THEN [http[h] EXCEPT !.pc = "stamp"]
                   ELSE HttpIdle)

\* tickets.Issue reads random bytes, which may fail, and then the time, before
\* it takes its lock.
IssueStamp(h) ==
    /\ http[h].pc = "stamp"
    /\ \/ ReadOnly(h, HttpIdle)
       \/ ReadOnly(h, [pc |-> "issue", node |-> http[h].node,
                       target |-> http[h].target, at |-> clock])

IssueStore(h) ==
    /\ http[h].pc = "issue"
    /\ LET pair == {http[h].node, http[h].target} IN
       lateTickets' = IF pair \subseteq DOMAIN peers
                      THEN lateTickets
                      ELSE lateTickets \cup {issued + 1}
    /\ Issue(http[h].node, http[h].target, http[h].at)
    /\ Become(h, HttpIdle)
    /\ UNCHANGED <<registryVars, relayVars, clock, ticks, sweep>>

\* GET /v1/p2p/tickets
TicketsRequest(h, t) ==
    /\ http[h].pc = "idle"
    /\ "tickets" \in Requests
    /\ Known(t)
    /\ ReadOnly(h, [pc |-> "tickets", at |-> clock])

\* tickets.ListForNode prunes as it reads.
TicketsReply(h) ==
    /\ http[h].pc = "tickets"
    /\ Prune(http[h].at)
    /\ Become(h, HttpIdle)
    /\ UNCHANGED <<registryVars, relayVars, clock, ticks, sweep, lateTickets>>

HttpRequest(h) ==
    \/ \E n \in Node : RegisterRequest(h, n)
    \/ \E t \in 1..minted :
        \/ HeartbeatRequest(h, t)
        \/ TicketsRequest(h, t)
        \/ \E target \in Node : IssueRequest(h, t, target)

HttpWork(h) ==
    \/ RegisterReply(h) \/ HeartbeatReply(h) \/ TicketsReply(h)
    \/ IssueTarget(h) \/ IssueStamp(h) \/ IssueStore(h)

------------------------------------------------------------------------------
\* A relay frame of one of the kinds clients send arrives.
Datagram(t, body) ==
    /\ body.kind \in Bodies
    /\ RelayReceive(t, body)
    /\ UNCHANGED <<registryVars, ticketVars, clock, procVars, lateTickets>>

RelayStep ==
    /\ RelayWork(clock)
    /\ UNCHANGED <<registryVars, ticketVars, clock, procVars, lateTickets>>

CoordinatorNext ==
    \/ Tick
    \/ Sweeper
    \/ RelayStep
    \/ \E t \in 1..minted, body \in Body : Datagram(t, body)
    \/ \E h \in Handler : HttpRequest(h) \/ HttpWork(h)

CoordinatorSpec == CoordinatorInit /\ [][CoordinatorNext]_vars

\* The goroutines are scheduled fairly: the sweeper, the relay once it holds a
\* datagram and a handler once it holds a request never block for ever.
Fairness ==
    /\ WF_vars(Sweeper)
    /\ WF_vars(RelayStep)
    /\ \A h \in Handler : WF_vars(HttpWork(h))

FairCoordinatorSpec == CoordinatorSpec /\ Fairness

------------------------------------------------------------------------------
(* Properties *)

\* Every variable of the coordinator has its type.
CoordinatorTypeOK ==
    /\ RegistryTypeOK
    /\ IsMap(endpoints, Node, Token)
    /\ \A n \in DOMAIN discovery :
        /\ n \in Node
        /\ discovery[n].tokens \in 0..Full
        /\ IsMap(discovery[n].seen, Fingerprint, Time)
    /\ IsMap(tickets, 1..MaxTickets,
             [SourceNode : Node, TargetNode : Node, ExpiresAt : Nat])
    /\ clock \in Time
    /\ ticks \in 0..clock
    /\ sweep \in [pc : {"idle", "endpoint", "discovery", "tickets", "prune"},
                   todo : SUBSET Node]
    /\ relay.pc \in {"idle", "bind", "guard", "list", "fan", "send", "lookup", "deliver"}
    /\ \A h \in Handler :
        http[h].pc \in {"idle", "register", "touch", "target", "stamp", "issue", "tickets"}

\* The expired peers whose state of one kind the sweeper has yet to forget; it
\* forgets endpoint, discovery state and tickets of one peer after the other.
ToForget(passed) ==
    sweep.todo \ (IF sweep.pc \in passed THEN {FirstOf(sweep.todo)} ELSE {})

\* An endpoint whose session has ended is either about to be forgotten by the
\* sweeper, or was bound by the one race the relay has: its frame was
\* authenticated before the lease expired and bound after.
EndpointsExplained ==
    \A n \in DOMAIN endpoints :
        \/ Known(endpoints[n])
        \/ n \in ToForget({"discovery", "tickets"})
        \/ <<"endpoint", n>> \in late

\* The same for the discovery state of a node without a lease.
DiscoveryExplained ==
    \A n \in DOMAIN discovery :
        \/ n \in DOMAIN peers
        \/ n \in ToForget({"tickets"})
        \/ <<"discovery", n>> \in late

\* Whatever relay, sweeper and handlers do to each other, the relay's state of an
\* ended lease has one of these explanations; there is no third way to leak it.
RelayStateExplained == EndpointsExplained /\ DiscoveryExplained

\* A ticket that names a node without a lease is either about to be deleted by
\* the sweeper, or was stored by a handler that had found both members
\* registered before one of them expired.
TicketsExplained ==
    \A k \in DOMAIN tickets, n \in Node :
        Names(tickets[k], n) =>
            \/ n \in DOMAIN peers
            \/ n \in sweep.todo
            \/ k \in lateTickets

\* A broadcast that returns without an error has reached every listed peer that
\* has an endpoint, although peers expire and are forgotten while it runs.
FanoutComplete ==
    [][relay.pc = "fan" /\ relay'.pc = "idle" =>
        relay.listed \cap DOMAIN endpoints \subseteq relay.reached]_vars

\* The sweeper never takes a lease that was renewed less than LeaseTTL ago, even
\* when it works on a tick that waited in the ticker's channel.
NoEarlyExpiry ==
    [][\A n \in DOMAIN peers \ DOMAIN peers' :
        peers[n].LastSeen + LeaseTTL <= clock]_vars

\* The sweeper gets round to it: state of an ended lease that did not come from
\* a race does not stay, whatever the relay and the handlers do meanwhile.
ExpiredStateForgotten ==
    /\ \A n \in Node :
        (n \in DOMAIN endpoints /\ ~Known(endpoints[n]) /\ <<"endpoint", n>> \notin late)
            ~> (n \in DOMAIN endpoints => Known(endpoints[n]) \/ <<"endpoint", n>> \in late)
    /\ \A k \in 1..MaxTickets, n \in Node :
        (k \in DOMAIN tickets /\ Names(tickets[k], n) /\ n \notin DOMAIN peers
            /\ k \notin lateTickets) ~> (k \notin DOMAIN tickets \/ n \in DOMAIN peers)

\* "When a peer exceeds the lease TTL, the coordinator removes all state tied to
\* the lease: [...] relay UDP endpoint" (docs/peer-leases.md): once sweeper and
\* relay are at rest, only registered nodes have an endpoint.
NoEndpointOutlivesItsLease ==
    sweep.pc = "idle" /\ relay.pc = "idle" => DOMAIN endpoints \subseteq DOMAIN peers
==============================================================================
