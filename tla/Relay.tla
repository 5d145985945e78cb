-------------------------------- MODULE Relay --------------------------------
(***************************************************************************)
(* The UDP relay of internal/transport/relay.go.  One goroutine serves     *)
(* datagrams one at a time; a datagram is handled in the steps between     *)
(* which the locks of the registry and of the relay are free, so that the  *)
(* lease sweeper and the HTTP handlers run in between.  What the goroutine *)
(* has read so far is in the variable relay.                               *)
(*                                                                         *)
(* A UDP source address is identified with the session whose frame carried *)
(* it.  Frames that the relay drops without touching its state (malformed, *)
(* of type deliver, or with a token that does not resolve) are not steps.  *)
(***************************************************************************)
EXTENDS Registry, Discovery

VARIABLES
    endpoints,      \* node -> the session whose frame bound its UDP address
    discovery,      \* node -> discoveryPeerState
    relay,          \* the datagram being handled and what is known of it
    late            \* history: relay state written for a session that had ended

relayStateVars == <<endpoints, discovery, late>>
relayVars == <<relayStateVars, relay>>

RelayIdle == [pc |-> "idle"]

\* What is left to do after binding: a hello frame, a payload that is not
\* IPv4 or too long, and a packet with a source address other than the
\* sender's lease are done; a discovery packet goes to the fan-out, any other
\* to the holder of its destination address.  To the relay an address that can
\* never be leased is like one that nobody holds.
Body ==
    [kind : {"hello", "malformed"}]
        \cup [kind : {"unicast"}, from : Usable, to : Usable]
        \cup [kind : {"discovery"}, from : Usable, print : Fingerprint]

Job(body, peer) ==
    IF body.kind \in {"unicast", "discovery"} /\ body.from = peer.VirtualIP
    THEN body
    ELSE [kind |-> "none"]

RelayInit ==
    /\ endpoints = Empty
    /\ discovery = Empty
    /\ relay = RelayIdle
    /\ late = {}

\* GetByToken succeeds: the peer is now a copy in the goroutine's hands.
RelayReceive(t, body) ==
    /\ relay.pc = "idle"
    /\ Known(t)
    /\ relay' = [pc |-> "bind", node |-> GetByToken(t).NodeID, session |-> t,
                 job |-> Job(body, GetByToken(t))]
    /\ UNCHANGED relayStateVars

AfterBind(job) ==
    CASE job.kind = "none"      -> RelayIdle
      [] job.kind = "unicast"   -> [relay EXCEPT !.pc = "lookup"]
      [] job.kind = "discovery" -> [relay EXCEPT !.pc = "guard"]

MarkLate(what) ==
    late' = IF Known(relay.session)
            THEN late \ {<<what, relay.node>>}
            ELSE late \cup {<<what, relay.node>>}

\* bind: the endpoint of a node is the address of its latest valid frame.
RelayBind ==
    /\ relay.pc = "bind"
    /\ endpoints' = Put(endpoints, relay.node, relay.session)
    /\ MarkLate("endpoint")
    /\ relay' = AfterBind(relay.job)
    /\ UNCHANGED discovery

\* guardDiscovery
RelayGuard(now) ==
    /\ relay.pc = "guard"
    /\ LET n == relay.node
           f == relay.job.print
           l == IF n \in DOMAIN discovery THEN discovery[n] ELSE NewLimiter(now)
       IN /\ discovery' = Put(discovery, n, After(l, f, now))
          /\ relay' = IF Verdict(l, f, now) = "pass"
                      THEN [relay EXCEPT !.pc = "list"]
                      ELSE RelayIdle
    /\ MarkLate("discovery")
    /\ UNCHANGED endpoints

\* broadcast: registry.List() without the sender.
RelayList ==
    /\ relay.pc = "list"
    /\ LET others == DOMAIN peers \ {relay.node} IN
       relay' = [pc |-> "fan", listed |-> others, todo |-> others, reached |-> {}]
    /\ UNCHANGED relayStateVars

FirstOf(S) == CHOOSE n \in S : \A m \in S : n <= m

\* Mutant of RelayFan: a peer is skipped when it has an endpoint.
RelayFanInverted ==
    /\ relay.pc = "fan"
    /\ relay.todo # {}
    /\ LET n == FirstOf(relay.todo) IN
       relay' = IF n \in DOMAIN endpoints
                THEN [relay EXCEPT !.todo = @ \ {n}]
                ELSE [relay EXCEPT !.pc = "send"]
    /\ UNCHANGED relayStateVars

\* broadcast, one peer of the list: it is skipped when it has no endpoint.
RelayFan ==
    /\ relay.pc = "fan"
    /\ relay.todo # {}
    /\ LET n == FirstOf(relay.todo) IN
       relay' = IF n \in DOMAIN endpoints
                THEN [relay EXCEPT !.pc = "send"]
                ELSE [relay EXCEPT !.todo = @ \ {n}]
    /\ UNCHANGED relayStateVars

\* broadcast calls deliver, which looks the endpoint up again.
RelayFanSend ==
    /\ relay.pc = "send"
    /\ FirstOf(relay.todo) \in DOMAIN endpoints
    /\ relay' = [relay EXCEPT !.pc = "fan", !.todo = @ \ {FirstOf(@)},
                              !.reached = @ \cup {FirstOf(relay.todo)}]
    /\ UNCHANGED relayStateVars

\* deliver returns an error, because the endpoint is gone or WriteToUDP fails:
\* broadcast returns it and the rest of the list gets nothing.
RelayFanAbort ==
    /\ relay.pc = "send"
    /\ relay' = RelayIdle
    /\ UNCHANGED relayStateVars

RelayFanDone ==
    /\ relay.pc = "fan"
    /\ relay.todo = {}
    /\ relay' = RelayIdle
    /\ UNCHANGED relayStateVars

\* GetByVirtualIP(destination)
RelayLookup ==
    /\ relay.pc = "lookup"
    /\ relay' = IF Reachable(relay.job.to)
                THEN [pc |-> "deliver"]
                ELSE RelayIdle
    /\ UNCHANGED relayStateVars

\* deliver: a datagram to the endpoint, or an error that is logged.
RelayDeliver ==
    /\ relay.pc = "deliver"
    /\ relay' = RelayIdle
    /\ UNCHANGED relayStateVars

\* The steps of the goroutine once it holds a datagram.
RelayWork(now) ==
    \/ RelayBind \/ RelayGuard(now) \/ RelayList
    \/ RelayFan \/ RelayFanSend \/ RelayFanAbort \/ RelayFanDone
    \/ RelayLookup \/ RelayDeliver

\* Mutant of ForgetDiscovery: ForgetPeer deletes the endpoint only.
ForgetDiscoveryNot(n) == UNCHANGED relayVars

\* ForgetPeer takes its two locks one after the other.
ForgetEndpoint(n) ==
    /\ endpoints' = Drop(endpoints, {n})
    /\ late' = late \ {<<"endpoint", n>>}
    /\ UNCHANGED <<discovery, relay>>

ForgetDiscovery(n) ==
    /\ discovery' = Drop(discovery, {n})
    /\ late' = late \ {<<"discovery", n>>}
    /\ UNCHANGED <<endpoints, relay>>
==============================================================================
