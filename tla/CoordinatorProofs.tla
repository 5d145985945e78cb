-------------------------- MODULE CoordinatorProofs --------------------------
(***************************************************************************)
(* Proofs about the composed coordinator of Coordinator.                   *)
(*                                                                         *)
(* The fan-out of a discovery packet runs over a list the relay read once, *)
(* while the sweeper forgets endpoints under it.  The inductive invariant  *)
(* is a loop invariant of broadcast: of the listed peers it is through     *)
(* with, those that have an endpoint now have been sent the packet.  It    *)
(* survives the other processes because they only ever remove endpoints;   *)
(* the one step that adds an endpoint is the relay's own bind, which it    *)
(* cannot take during a fan-out.                                           *)
(*                                                                         *)
(* The rest goes through one invariant of the whole process, which says    *)
(* besides the types that a session the relay has read, however long ago,  *)
(* is no other node's (SessionsTrue): an endpoint that loses its session   *)
(* to a sweep is then one the sweep has put on the sweeper's list.         *)
(*                                                                         *)
(* Last, every step is a step of Registry or leaves it alone, so that what *)
(* RegistryProofs shows holds of the whole process.                        *)
(***************************************************************************)
EXTENDS Coordinator, RegistryProofs

\* The fields the relay's record has where they are read.
RelayShape ==
    /\ "pc" \in DOMAIN relay
    /\ relay.pc = "bind" =>
        /\ "job" \in DOMAIN relay
        /\ relay.job.kind \in {"none", "unicast", "discovery"}
    /\ relay.pc \in {"fan", "send"} => {"listed", "todo", "reached"} \subseteq DOMAIN relay

\* The loop invariant of broadcast.
FanoutLoop ==
    relay.pc \in {"fan", "send"} =>
        (relay.listed \ relay.todo) \cap DOMAIN endpoints \subseteq relay.reached

FanoutInv == RelayShape /\ FanoutLoop

------------------------------------------------------------------------------
\* Drop only removes keys.
LEMMA DropShrinks ==
    ASSUME NEW m, NEW K
    PROVE  DOMAIN Drop(m, K) \subseteq DOMAIN m
BY DEF Drop, Restrict

\* A body that is not for this sender, and one that needs no more work, is "none".
LEMMA JobKinds ==
    ASSUME NEW body, NEW peer
    PROVE  Job(body, peer).kind \in {"none", "unicast", "discovery"}
<1>1. CASE body.kind \in {"unicast", "discovery"} /\ body.from = peer.VirtualIP
    BY <1>1 DEF Job
<1>2. CASE ~(body.kind \in {"unicast", "discovery"} /\ body.from = peer.VirtualIP)
    BY <1>2 DEF Job
<1> QED BY <1>1, <1>2

\* The steps of the other processes: none touches the relay's record or gives
\* a node an endpoint.
LEMMA OthersOnlyForget ==
    ASSUME FanoutInv, relay' = relay, DOMAIN endpoints' \subseteq DOMAIN endpoints
    PROVE  FanoutInv'
BY DEF FanoutInv, RelayShape, FanoutLoop

\* The relay starts idle.
LEMMA FanoutInit == CoordinatorInit => FanoutInv
BY DEF CoordinatorInit, RelayInit, RelayIdle, FanoutInv, RelayShape, FanoutLoop

\* Each step of the relay's own goroutine keeps the invariant.
LEMMA RelayKeepsFanoutInv ==
    ASSUME FanoutInv, RelayWork(clock)
    PROVE  FanoutInv'
<1> USE DEF FanoutInv, RelayShape, FanoutLoop, relayStateVars
<1>1. CASE RelayBind
  <2>1. CASE relay.job.kind = "none"
    BY <1>1, <2>1 DEF RelayBind, AfterBind, RelayIdle
  <2>2. CASE relay.job.kind = "unicast"
    BY <1>1, <2>2 DEF RelayBind, AfterBind
  <2>3. CASE relay.job.kind = "discovery"
    BY <1>1, <2>3 DEF RelayBind, AfterBind
  <2> QED BY <1>1, <2>1, <2>2, <2>3 DEF RelayBind
<1>2. CASE RelayGuard(clock)
  <2>1. CASE relay' = RelayIdle
    BY <1>2, <2>1 DEF RelayIdle
  <2>2. CASE relay' = [relay EXCEPT !.pc = "list"]
    BY <1>2, <2>2
  <2> QED BY <1>2, <2>1, <2>2 DEF RelayGuard
<1>3. CASE RelayList
    BY <1>3 DEF RelayList
<1>4. CASE RelayFan
    BY <1>4 DEF RelayFan
<1>5. CASE RelayFanSend
    BY <1>5 DEF RelayFanSend
<1>6. CASE RelayFanAbort
    BY <1>6 DEF RelayFanAbort, RelayIdle
<1>7. CASE RelayFanDone
    BY <1>7 DEF RelayFanDone, RelayIdle
<1>8. CASE RelayLookup
    BY <1>8 DEF RelayLookup, RelayIdle
<1>9. CASE RelayDeliver
    BY <1>9 DEF RelayDeliver, RelayIdle
<1> QED
    BY <1>1, <1>2, <1>3, <1>4, <1>5, <1>6, <1>7, <1>8, <1>9 DEF RelayWork

\* Each step of the coordinator keeps the invariant.
LEMMA FanoutStep ==
    FanoutInv /\ [CoordinatorNext]_vars => FanoutInv'
<1> SUFFICES ASSUME FanoutInv, [CoordinatorNext]_vars
             PROVE  FanoutInv'
    OBVIOUS
<1> USE DEF relayVars, relayStateVars
<1>1. CASE Tick
    BY <1>1, OthersOnlyForget DEF Tick
<1>2. CASE Sweeper
  <2>1. CASE SweepEndpoint
    BY <1>2, <2>1, OthersOnlyForget, DropShrinks DEF SweepEndpoint, ForgetEndpoint
  <2>2. CASE SweepDiscovery
    BY <2>2, OthersOnlyForget DEF SweepDiscovery, ForgetDiscovery
  <2>3. CASE SweepExpire \/ SweepTickets \/ SweepPrune
    BY <2>3, OthersOnlyForget DEF SweepExpire, SweepTickets, SweepPrune
  <2> QED BY <1>2, <2>1, <2>2, <2>3 DEF Sweeper
<1>3. CASE RelayStep
    BY <1>3, RelayKeepsFanoutInv DEF RelayStep
<1>4. ASSUME NEW t \in 1..minted, NEW body \in Body, Datagram(t, body)
      PROVE  FanoutInv'
    BY <1>4, JobKinds DEF Datagram, RelayReceive, FanoutInv, RelayShape, FanoutLoop
<1>5. ASSUME NEW h \in Handler, HttpRequest(h)
      PROVE  FanoutInv'
    BY <1>5, OthersOnlyForget
    DEF HttpRequest, RegisterRequest, HeartbeatRequest, TicketsRequest, IssueRequest, ReadOnly
<1>6. ASSUME NEW h \in Handler, HttpWork(h)
      PROVE  FanoutInv'
    BY <1>6, OthersOnlyForget
    DEF HttpWork, RegisterReply, HeartbeatReply, TicketsReply, IssueTarget,
        IssueStamp, IssueStore, ReadOnly
<1>7. CASE UNCHANGED vars
    BY <1>7, OthersOnlyForget DEF vars
<1> QED BY <1>1, <1>2, <1>3, <1>4, <1>5, <1>6, <1>7 DEF CoordinatorNext

\* A fan-out ends without an error only when its list is used up.
LEMMA FanoutEnds ==
    ASSUME FanoutInv, [CoordinatorNext]_vars, relay.pc = "fan", relay'.pc = "idle"
    PROVE  relay.listed \cap DOMAIN endpoints \subseteq relay.reached
<1> USE DEF relayVars, relayStateVars
<1>1. relay' # relay
    OBVIOUS
<1>2. ~Tick /\ ~Sweeper /\ ~UNCHANGED vars
    BY <1>1 DEF Tick, Sweeper, SweepExpire, SweepEndpoint, SweepDiscovery, SweepTickets,
                SweepPrune, ForgetEndpoint, ForgetDiscovery, vars
<1>3. ASSUME NEW h \in Handler
      PROVE  ~HttpRequest(h) /\ ~HttpWork(h)
    BY <1>1 DEF HttpRequest, RegisterRequest, HeartbeatRequest, TicketsRequest, IssueRequest,
                HttpWork, RegisterReply, HeartbeatReply, TicketsReply, IssueTarget,
                IssueStamp, IssueStore, ReadOnly
<1>4. ASSUME NEW t \in 1..minted, NEW body \in Body
      PROVE  ~Datagram(t, body)
    BY DEF Datagram, RelayReceive
<1>5. RelayWork(clock)
    BY <1>2, <1>3, <1>4 DEF CoordinatorNext, RelayStep
<1>6. ~RelayFan
    BY DEF RelayFan, FanoutInv, RelayShape
<1>7. RelayFanDone
    BY <1>5, <1>6 DEF RelayWork, RelayBind, RelayGuard, RelayList, RelayFanSend,
                      RelayFanAbort, RelayLookup, RelayDeliver
<1> QED BY <1>7 DEF RelayFanDone, FanoutInv, FanoutLoop

\* A broadcast of internal/transport/relay.go that returns without an error has
\* reached every listed peer that has an endpoint, for any number of nodes,
\* handlers and datagrams.
THEOREM FanoutAlwaysComplete == CoordinatorSpec => FanoutComplete
<1>1. CoordinatorSpec => []FanoutInv
    BY FanoutInit, FanoutStep, PTL DEF CoordinatorSpec
<1>2. FanoutInv /\ [CoordinatorNext]_vars
        => [relay.pc = "fan" /\ relay'.pc = "idle" =>
              relay.listed \cap DOMAIN endpoints \subseteq relay.reached]_vars
    BY FanoutEnds
<1> QED BY <1>1, <1>2, PTL DEF CoordinatorSpec, FanoutComplete

------------------------------------------------------------------------------
(* The discovery states of the peers.  LimiterProofs says what a packet does *)
(* to one; here it matters only that it leaves one. *)

\* A discoveryPeerState as guardDiscovery leaves it at time now.
IsLimiter(l, now) ==
    /\ l = [tokens |-> l.tokens, lastRefill |-> l.lastRefill, seen |-> l.seen]
    /\ l.tokens \in 0..Full
    /\ l.lastRefill \in 0..now
    /\ IsMap(l.seen, Fingerprint, 0..now)

\* What a full bucket holds.
LEMMA FullType == Full \in Nat
<1>1. Unit \in Nat /\ Burst \in Nat
    BY DiscoveryAssumption
<1> QED BY <1>1, Z3 DEF Full

\* The first packet of a peer finds a full bucket and no fingerprints.
LEMMA NewLimiterType ==
    ASSUME NEW now \in Nat
    PROVE  IsLimiter(NewLimiter(now), now)
BY FullType DEF IsLimiter, NewLimiter, IsMap, Empty

\* Pruning only removes fingerprints.
LEMMA PruneType ==
    ASSUME NEW now \in Nat, NEW l, IsLimiter(l, now)
    PROVE  IsLimiter(PruneSeen(l, now), now)
<1> DEFINE s == Drop(l.seen, {f \in DOMAIN l.seen : now - l.seen[f] >= Window})
<1>1. CASE Window > 0
  <2>1. PruneSeen(l, now) = [tokens |-> l.tokens, lastRefill |-> l.lastRefill, seen |-> s]
    BY <1>1 DEF IsLimiter, PruneSeen
  <2>2. IsMap(s, Fingerprint, 0..now)
    BY DEF IsLimiter, IsMap, Drop, Restrict
  <2> HIDE DEF s
  <2> QED BY <2>1, <2>2 DEF IsLimiter
<1>2. CASE ~(Window > 0)
    BY <1>2 DEF PruneSeen
<1> QED BY <1>1, <1>2

\* A refill leaves the bucket within its limits.
LEMMA RefillType ==
    ASSUME NEW now \in Nat, NEW l, IsLimiter(l, now)
    PROVE  IsLimiter(Refill(l, now), now)
<1> DEFINE filled == l.tokens + (now - l.lastRefill) * Rate
<1>1. Rate \in Nat /\ now - l.lastRefill \in Nat /\ l.tokens \in 0..Full
    BY DiscoveryAssumption DEF IsLimiter
<1>2. (now - l.lastRefill) * Rate \in Nat
    BY <1>1, Z3
<1>3. CASE now > l.lastRefill
  <2>1. Refill(l, now) = [tokens |-> IF filled > Full THEN Full ELSE filled,
                          lastRefill |-> now, seen |-> l.seen]
    BY <1>3 DEF IsLimiter, Refill
  <2>2. (IF filled > Full THEN Full ELSE filled) \in 0..Full
    BY <1>1, <1>2, FullType
  <2> HIDE DEF filled
  <2> QED BY <2>1, <2>2 DEF IsLimiter
<1>4. CASE ~(now > l.lastRefill)
    BY <1>4 DEF Refill
<1> QED BY <1>3, <1>4

\* So does a packet, whatever the verdict.
LEMMA GuardType ==
    ASSUME NEW now \in Nat, NEW l, IsLimiter(l, now), NEW f \in Fingerprint
    PROVE  IsLimiter(After(l, f, now), now)
<1> DEFINE p == PruneSeen(l, now)
           r == Refill(p, now)
<1>1. IsLimiter(p, now)
    BY PruneType
<1>2. IsLimiter(r, now)
  <2> HIDE DEF p
  <2> QED BY <1>1, RefillType
<1>3. CASE Duplicate(l, f, now)
    BY <1>1, <1>3 DEF After, Verdict
<1>4. CASE ~Duplicate(l, f, now) /\ RateLimited(l, now)
    BY <1>2, <1>4 DEF After, Verdict, Replenish
<1>5. CASE ~Duplicate(l, f, now) /\ ~RateLimited(l, now)
  <2> DEFINE seen == IF Window > 0 THEN Put(r.seen, f, now) ELSE r.seen
  <2>1. After(l, f, now) = Spend(l, f, now)
    BY <1>5 DEF After, Verdict
  <2>2. Spend(l, f, now) = [r EXCEPT !.tokens = @ - Unit,
                                     !.seen = IF Window > 0 THEN Put(@, f, now) ELSE @]
    BY DEF Spend, Replenish
  <2>3. Unit \in Nat /\ r.tokens \in 0..Full
    BY <1>2, DiscoveryAssumption DEF IsLimiter
  <2>4. ~(r.tokens < Unit)
    BY <1>5 DEF RateLimited, Replenish
  <2> HIDE DEF r, p
  <2>5. Spend(l, f, now) = [tokens |-> r.tokens - Unit, lastRefill |-> r.lastRefill, seen |-> seen]
    BY <1>2, <2>2 DEF IsLimiter
  <2>6. r.tokens - Unit \in 0..Full
    BY <2>3, <2>4, FullType
  <2>7. IsMap(seen, Fingerprint, 0..now)
    BY <1>2 DEF IsLimiter, IsMap, Put
  <2> HIDE DEF seen
  <2> QED BY <1>2, <2>1, <2>5, <2>6, <2>7 DEF IsLimiter
<1> QED BY <1>3, <1>4, <1>5

\* A state stays one when time passes without a packet.
LEMMA LimiterAges ==
    ASSUME NEW now \in Nat, NEW later \in Nat, now <= later, NEW l, IsLimiter(l, now)
    PROVE  IsLimiter(l, later)
<1>1. 0..now \subseteq 0..later
    OBVIOUS
<1> QED BY <1>1 DEF IsLimiter, IsMap

------------------------------------------------------------------------------
(* The invariant of the composed coordinator *)

\* What a handler has read, at each of its steps.
HttpState ==
    [pc : {"idle"}]
        \cup [pc : {"register"}, node : Node, at : Time]
        \cup [pc : {"touch"}, session : Token, at : Time]
        \cup [pc : {"target", "stamp"}, node : Node, target : Node]
        \cup [pc : {"issue"}, node : Node, target : Node, at : Time]
        \cup [pc : {"tickets"}, at : Time]

Unicast == [kind : {"unicast"}, from : Usable, to : Usable]
Announcement == [kind : {"discovery"}, from : Usable, print : Fingerprint]

\* What the relay has read, at each of its steps.
RelayState ==
    [pc : {"idle", "deliver"}]
        \cup [pc : {"bind"}, node : Node, session : Token,
              job : [kind : {"none"}] \cup Unicast \cup Announcement]
        \cup [pc : {"lookup"}, node : Node, session : Token, job : Unicast]
        \cup [pc : {"guard", "list"}, node : Node, session : Token, job : Announcement]
        \cup [pc : {"fan", "send"}, listed : SUBSET Node, todo : SUBSET Node,
              reached : SUBSET Node]

SweepState ==
    [pc : {"idle", "endpoint", "discovery", "tickets", "prune"}, todo : SUBSET Node]

TicketState == [SourceNode : Node, TargetNode : Node, ExpiresAt : Nat]

ClockOK == clock \in Time /\ ticks \in 0..clock

SweepOK == sweep \in SweepState /\ (sweep.pc \in {"idle", "prune"} => sweep.todo = {})

RelayOK == relay \in RelayState /\ IsMap(endpoints, Node, Token)

DiscoveryOK == DOMAIN discovery \subseteq Node
               /\ \A n \in DOMAIN discovery : IsLimiter(discovery[n], clock)

TicketsOK == issued \in 0..MaxTickets /\ IsMap(tickets, 1..issued, TicketState)

HttpOK == http \in [Handler -> HttpState]

\* Session t was handed out, and if it is alive it is node n's.
SessionOf(t, n) == t \in 1..minted /\ (t \in DOMAIN byToken => byToken[t] = n)

\* The relay never takes a session for another node's, however stale what it has
\* read is.
SessionsTrue ==
    /\ \A n \in DOMAIN endpoints : SessionOf(endpoints[n], n)
    /\ relay.pc \in {"bind", "lookup", "guard", "list"} => SessionOf(relay.session, relay.node)

CoordinatorInv ==
    /\ RegistryInv
    /\ ClockOK /\ SweepOK /\ RelayOK /\ DiscoveryOK /\ TicketsOK /\ HttpOK
    /\ SessionsTrue
    /\ EndpointsExplained /\ DiscoveryExplained /\ TicketsExplained

\* It holds of the coordinator before its first request.
LEMMA CoordinatorInvInit == CoordinatorInit => CoordinatorInv
<1> SUFFICES ASSUME CoordinatorInit PROVE CoordinatorInv
    OBVIOUS
<1>1. RegistryInv
    BY InitInv DEF CoordinatorInit
<1>2. ClockOK /\ TicketsOK
    BY CoordinatorAssumption, TicketAssumption
    DEF CoordinatorInit, TicketsInit, ClockOK, TicketsOK, NoTick, IsMap, Empty
<1>3. SweepOK /\ RelayOK /\ DiscoveryOK
    BY DEF CoordinatorInit, RelayInit, RelayIdle, SweepOK, SweepState, RelayOK, RelayState, DiscoveryOK,
           IsMap, Empty
<1>4. HttpOK
    BY DEF CoordinatorInit, HttpOK, HttpState, HttpIdle
<1>5. SessionsTrue /\ EndpointsExplained /\ DiscoveryExplained /\ TicketsExplained
    BY DEF CoordinatorInit, RelayInit, RelayIdle, TicketsInit, SessionsTrue, EndpointsExplained,
           DiscoveryExplained, TicketsExplained, Empty
<1> QED BY <1>1, <1>2, <1>3, <1>4, <1>5 DEF CoordinatorInv

------------------------------------------------------------------------------
(* While no lease ends *)

\* While no lease ends, live sessions stay alive and belong to the same nodes.
LEMMA KeptSessions ==
    ASSUME RegistryInv, LeasesKept
    PROVE  /\ \A t : Known(t) => Known(t)'
           /\ \A t, n : SessionOf(t, n) => SessionOf(t, n)'
<1>1. DOMAIN byToken \subseteq 1..minted /\ minted \in Nat
    BY SessionsAssumption DEF RegistryInv, RegistryTypeOK, LeasesBounded
<1>2. ASSUME NEW t, Known(t) PROVE Known(t)'
    BY <1>1, <1>2 DEF LeasesKept, Known
<1>3. ASSUME NEW t, NEW n, SessionOf(t, n) PROVE SessionOf(t, n)'
    BY <1>1, <1>3 DEF LeasesKept, SessionOf
<1> QED BY <1>2, <1>3

\* While no lease ends, what the relay holds stays explained.
LEMMA KeptRelay ==
    ASSUME CoordinatorInv, LeasesKept, UNCHANGED <<relayVars, sweep>>
    PROVE  SessionsTrue' /\ EndpointsExplained' /\ DiscoveryExplained'
<1>1. /\ \A t : Known(t) => Known(t)'
      /\ \A t, n : SessionOf(t, n) => SessionOf(t, n)'
    BY KeptSessions DEF CoordinatorInv
<1>2. UNCHANGED <<endpoints, discovery, late, relay, sweep>>
    BY DEF relayVars, relayStateVars
<1>3. \A S : ToForget(S)' = ToForget(S)
    BY <1>2 DEF ToForget
<1>4. SessionsTrue'
    BY <1>1, <1>2 DEF CoordinatorInv, SessionsTrue
<1>5. EndpointsExplained'
    BY <1>1, <1>2, <1>3 DEF CoordinatorInv, EndpointsExplained
<1>6. DiscoveryExplained'
    BY <1>2, <1>3 DEF CoordinatorInv, DiscoveryExplained, LeasesKept
<1> QED BY <1>4, <1>5, <1>6

------------------------------------------------------------------------------
(* The clock and the sweeper *)

\* Time passes; the ticker's channel holds at most one tick.
LEMMA TickKeepsInv ==
    ASSUME CoordinatorInv, Tick
    PROVE  CoordinatorInv'
<1> USE DEF CoordinatorInv
<1>1. /\ clock \in Nat /\ MaxTime \in Nat /\ clock' = clock + 1 /\ clock' \in Time
      /\ ticks' \in {ticks, clock + 1} /\ ticks \in 0..clock
      /\ UNCHANGED <<registryVars, relayVars, ticketVars, sweep, http, lateTickets>>
    BY CoordinatorAssumption DEF Tick, ClockOK
<1>2. RegistryInv' /\ LeasesKept
    BY <1>1, RegistryRests
<1>3. ClockOK'
    BY <1>1 DEF ClockOK
<1>4. DiscoveryOK'
    BY <1>1, LimiterAges DEF DiscoveryOK, relayVars, relayStateVars
<1>5. SessionsTrue' /\ EndpointsExplained' /\ DiscoveryExplained'
    BY <1>1, <1>2, KeptRelay
<1>6. SweepOK' /\ RelayOK' /\ TicketsOK' /\ HttpOK'
    BY <1>1 DEF SweepOK, RelayOK, TicketsOK, HttpOK, relayVars, relayStateVars, ticketVars
<1>7. TicketsExplained'
    BY <1>1, <1>2 DEF TicketsExplained, LeasesKept, ticketVars
<1> QED BY <1>2, <1>3, <1>4, <1>5, <1>6, <1>7

\* A sweep takes the leases of E out of the registry and puts E on the
\* sweeper's list.
LEMMA SweepExpireKeepsInv ==
    ASSUME CoordinatorInv, SweepExpire
    PROVE  CoordinatorInv'
<1> USE DEF CoordinatorInv
<1> DEFINE E == Expired(ticks - LeaseTTL)
<1>1. /\ sweep.pc = "idle" /\ sweep.todo = {} /\ ticks' = NoTick
      /\ sweep' = [pc |-> IF E = {} THEN "prune" ELSE "endpoint", todo |-> E]
      /\ ExpireBefore(ticks - LeaseTTL)
      /\ UNCHANGED <<relayVars, ticketVars, clock, http, lateTickets>>
    BY DEF SweepExpire, SweepOK
<1>2. RegistryInv'
    BY <1>1, ExpireInv
<1>3. /\ E \subseteq Node
      /\ DOMAIN peers' = DOMAIN peers \ E
      /\ DOMAIN byToken' \subseteq DOMAIN byToken
      /\ \A t \in DOMAIN byToken' : byToken'[t] = byToken[t]
      /\ \A t \in DOMAIN byToken \ DOMAIN byToken' : byToken[t] \in E
      /\ minted' = minted
  <2>1. E \subseteq DOMAIN peers /\ DOMAIN peers \subseteq Node
    BY DEF Expired, RegistryInv, RegistryTypeOK, IsMap
  <2>2. /\ peers' = Drop(peers, E)
        /\ byToken' = Drop(byToken, {peers[n].SessionToken : n \in E})
        /\ minted' = minted
    BY <1>1 DEF ExpireBefore
  <2> HIDE DEF E
  <2> QED BY <2>1, <2>2 DEF Drop, Restrict, RegistryInv, IndexesAgree
<1> HIDE DEF E
<1>4. UNCHANGED <<endpoints, discovery, late, relay, tickets, issued>>
    BY <1>1 DEF relayVars, relayStateVars, ticketVars
<1>5. ClockOK'
    BY <1>1, CoordinatorAssumption DEF ClockOK, NoTick
<1>6. sweep'.todo = E /\ SweepOK'
    BY <1>1, <1>3 DEF SweepOK, SweepState
<1>7. RelayOK' /\ DiscoveryOK' /\ TicketsOK' /\ HttpOK'
    BY <1>1, <1>4 DEF RelayOK, DiscoveryOK, TicketsOK, HttpOK
<1>8. SessionsTrue'
  <2>1. \A t, n : SessionOf(t, n) => SessionOf(t, n)'
    BY <1>3 DEF SessionOf
  <2> QED BY <1>4, <2>1 DEF SessionsTrue
<1>9. /\ ToForget({"discovery", "tickets"}) = {} /\ ToForget({"tickets"}) = {}
      /\ ToForget({"discovery", "tickets"})' = E /\ ToForget({"tickets"})' = E
    BY <1>1 DEF ToForget
<1>10. EndpointsExplained'
  <2> SUFFICES ASSUME NEW n \in DOMAIN endpoints
               PROVE  Known(endpoints[n])' \/ n \in E \/ <<"endpoint", n>> \in late
    BY <1>4, <1>9 DEF EndpointsExplained
  <2>1. Known(endpoints[n]) \/ <<"endpoint", n>> \in late
    BY <1>9 DEF EndpointsExplained
  <2>2. ASSUME Known(endpoints[n]) PROVE Known(endpoints[n])' \/ n \in E
    <3>1. byToken[endpoints[n]] = n /\ n \in DOMAIN peers
      BY <2>2 DEF SessionsTrue, SessionOf, Known
    <3> QED BY <1>3, <1>4, <2>2, <3>1 DEF Known
  <2> QED BY <2>1, <2>2
<1>11. DiscoveryExplained'
    BY <1>3, <1>4, <1>9 DEF DiscoveryExplained
<1>12. TicketsExplained'
    BY <1>1, <1>3, <1>4, <1>6 DEF TicketsExplained
<1> QED BY <1>2, <1>5, <1>6, <1>7, <1>8, <1>10, <1>11, <1>12

\* The sweeper works through its list: what is about to be forgotten of a peer is
\* gone when the peer leaves the list.
LEMMA SweepForgetsKeepsInv ==
    ASSUME CoordinatorInv, SweepEndpoint \/ SweepDiscovery \/ SweepTickets \/ SweepPrune
    PROVE  CoordinatorInv'
<1> USE DEF CoordinatorInv
<1> DEFINE f == FirstOf(sweep.todo)
<1>1. /\ sweep \in SweepState /\ UNCHANGED <<registryVars, clock, ticks, http, lateTickets, relay>>
    BY DEF SweepEndpoint, SweepDiscovery, SweepTickets, SweepPrune, ForgetEndpoint, ForgetDiscovery,
           SweepOK, relayVars
<1>2. RegistryInv' /\ LeasesKept /\ UNCHANGED <<peers, byToken, minted>>
    BY <1>1, RegistryRests DEF registryVars, indexVars
<1>3. ClockOK' /\ HttpOK' /\ \A t : Known(t)' = Known(t)
    BY <1>1, <1>2 DEF ClockOK, HttpOK, Known
<1>4. CASE SweepEndpoint
  <2>1. /\ sweep.pc = "endpoint" /\ sweep' = [sweep EXCEPT !.pc = "discovery"]
        /\ endpoints' = Drop(endpoints, {f}) /\ late' = late \ {<<"endpoint", f>>}
        /\ UNCHANGED <<discovery, tickets, issued>>
    BY <1>4 DEF SweepEndpoint, ForgetEndpoint, ticketVars
  <2>2. sweep' \in SweepState /\ sweep'.pc = "discovery" /\ sweep'.todo = sweep.todo
    BY <1>1, <2>1 DEF SweepState
  <2>3. /\ DOMAIN endpoints' = DOMAIN endpoints \ {f}
        /\ \A n \in DOMAIN endpoints' : endpoints'[n] = endpoints[n]
    BY <2>1 DEF Drop, Restrict
  <2>4. /\ ToForget({"discovery", "tickets"}) = sweep.todo
        /\ ToForget({"discovery", "tickets"})' = sweep.todo \ {f}
        /\ ToForget({"tickets"})' = ToForget({"tickets"})
    BY <2>1, <2>2 DEF ToForget
  <2>5. SweepOK' /\ RelayOK' /\ DiscoveryOK' /\ TicketsOK'
    BY <1>1, <2>1, <2>2, DropType DEF SweepOK, RelayOK, DiscoveryOK, TicketsOK
  <2>6. SessionsTrue'
    BY <1>1, <1>2, <2>3 DEF SessionsTrue, SessionOf
  <2> HIDE DEF f
  <2>7. EndpointsExplained'
    BY <1>3, <2>1, <2>3, <2>4 DEF EndpointsExplained
  <2>8. DiscoveryExplained'
    BY <1>2, <2>1, <2>4 DEF DiscoveryExplained
  <2>9. TicketsExplained'
    BY <1>1, <1>2, <2>1, <2>2 DEF TicketsExplained
  <2> QED BY <1>2, <1>3, <2>5, <2>6, <2>7, <2>8, <2>9
<1>5. CASE SweepDiscovery
  <2>1. /\ sweep.pc = "discovery" /\ sweep' = [sweep EXCEPT !.pc = "tickets"]
        /\ discovery' = Drop(discovery, {f}) /\ late' = late \ {<<"discovery", f>>}
        /\ UNCHANGED <<endpoints, tickets, issued>>
    BY <1>5 DEF SweepDiscovery, ForgetDiscovery, ticketVars
  <2>2. sweep' \in SweepState /\ sweep'.pc = "tickets" /\ sweep'.todo = sweep.todo
    BY <1>1, <2>1 DEF SweepState
  <2>3. /\ DOMAIN discovery' = DOMAIN discovery \ {f}
        /\ \A n \in DOMAIN discovery' : discovery'[n] = discovery[n]
    BY <2>1 DEF Drop, Restrict
  <2>4. /\ ToForget({"discovery", "tickets"})' = ToForget({"discovery", "tickets"})
        /\ ToForget({"tickets"}) = sweep.todo
        /\ ToForget({"tickets"})' = sweep.todo \ {f}
    BY <2>1, <2>2 DEF ToForget
  <2>5. SweepOK' /\ RelayOK' /\ DiscoveryOK' /\ TicketsOK'
    BY <1>1, <2>1, <2>2, <2>3 DEF SweepOK, RelayOK, DiscoveryOK, TicketsOK
  <2>6. SessionsTrue'
    BY <1>1, <1>2, <2>1 DEF SessionsTrue, SessionOf
  <2> HIDE DEF f
  <2>7. EndpointsExplained'
    BY <1>3, <2>1, <2>4 DEF EndpointsExplained
  <2>8. DiscoveryExplained'
    BY <1>2, <2>1, <2>3, <2>4 DEF DiscoveryExplained
  <2>9. TicketsExplained'
    BY <1>1, <1>2, <2>1, <2>2 DEF TicketsExplained
  <2> QED BY <1>2, <1>3, <2>5, <2>6, <2>7, <2>8, <2>9
<1>6. CASE SweepTickets
  <2>1. /\ sweep.pc = "tickets"
        /\ sweep' = [pc |-> IF sweep.todo = {f} THEN "prune" ELSE "endpoint", todo |-> sweep.todo \ {f}]
        /\ tickets' = Drop(tickets, {k \in DOMAIN tickets : Names(tickets[k], f)})
        /\ issued' = issued
        /\ UNCHANGED <<endpoints, discovery, late>>
    BY <1>6 DEF SweepTickets, ForgetNode, relayVars, relayStateVars
  <2>2. /\ sweep' \in SweepState /\ sweep'.todo = sweep.todo \ {f}
        /\ sweep'.pc \in {"prune", "endpoint"} /\ (sweep'.pc = "prune" => sweep.todo = {f})
    BY <1>1, <2>1 DEF SweepState
  <2>3. /\ DOMAIN tickets' = {k \in DOMAIN tickets : ~Names(tickets[k], f)}
        /\ \A k \in DOMAIN tickets' : tickets'[k] = tickets[k]
    BY <2>1 DEF Drop, Restrict
  <2>4. /\ ToForget({"discovery", "tickets"})' = ToForget({"discovery", "tickets"})
        /\ ToForget({"tickets"})' = ToForget({"tickets"})
    BY <2>1, <2>2 DEF ToForget
  <2>5. SweepOK' /\ RelayOK' /\ DiscoveryOK' /\ TicketsOK'
    BY <1>1, <2>1, <2>2, DropType DEF SweepOK, RelayOK, DiscoveryOK, TicketsOK
  <2>6. SessionsTrue'
    BY <1>1, <1>2, <2>1 DEF SessionsTrue, SessionOf
  <2> HIDE DEF f
  <2>7. EndpointsExplained'
    BY <1>3, <2>1, <2>4 DEF EndpointsExplained
  <2>8. DiscoveryExplained'
    BY <1>2, <2>1, <2>4 DEF DiscoveryExplained
  <2>9. TicketsExplained'
    BY <1>1, <1>2, <2>2, <2>3 DEF TicketsExplained
  <2> QED BY <1>2, <1>3, <2>5, <2>6, <2>7, <2>8, <2>9
<1>7. CASE SweepPrune
  <2>1. /\ sweep.pc = "prune" /\ sweep' = [sweep EXCEPT !.pc = "idle"]
        /\ tickets' = Unexpired(clock) /\ issued' = issued
        /\ UNCHANGED <<endpoints, discovery, late>>
    BY <1>7 DEF SweepPrune, Prune, relayVars, relayStateVars
  <2>2. sweep' \in SweepState /\ sweep'.pc = "idle" /\ sweep'.todo = sweep.todo
    BY <1>1, <2>1 DEF SweepState
  <2>3. /\ DOMAIN tickets' \subseteq DOMAIN tickets
        /\ \A k \in DOMAIN tickets' : tickets'[k] = tickets[k]
    BY <2>1 DEF Unexpired, Drop, Restrict
  <2>4. /\ ToForget({"discovery", "tickets"})' = ToForget({"discovery", "tickets"})
        /\ ToForget({"tickets"})' = ToForget({"tickets"})
    BY <2>1, <2>2 DEF ToForget
  <2>5. SweepOK' /\ RelayOK' /\ DiscoveryOK' /\ TicketsOK'
    BY <1>1, <2>1, <2>2, DropType DEF SweepOK, RelayOK, DiscoveryOK, TicketsOK, Unexpired
  <2>6. SessionsTrue'
    BY <1>1, <1>2, <2>1 DEF SessionsTrue, SessionOf
  <2>7. EndpointsExplained'
    BY <1>3, <2>1, <2>4 DEF EndpointsExplained
  <2>8. DiscoveryExplained'
    BY <1>2, <2>1, <2>4 DEF DiscoveryExplained
  <2>9. TicketsExplained'
    BY <1>1, <1>2, <2>2, <2>3 DEF TicketsExplained
  <2> QED BY <1>2, <1>3, <2>5, <2>6, <2>7, <2>8, <2>9
<1> QED BY <1>4, <1>5, <1>6, <1>7

------------------------------------------------------------------------------
(* The relay *)

\* What the steps of the relay leave alone stays as it is.
LEMMA RelayFrame ==
    ASSUME CoordinatorInv, UNCHANGED <<registryVars, ticketVars, clock, procVars, lateTickets>>
    PROVE  /\ RegistryInv' /\ ClockOK' /\ SweepOK' /\ TicketsOK' /\ HttpOK' /\ TicketsExplained'
           /\ \A t : Known(t)' = Known(t)
           /\ \A t, n : SessionOf(t, n)' = SessionOf(t, n)
           /\ \A S : ToForget(S)' = ToForget(S)
           /\ UNCHANGED <<peers, byToken, minted, clock>>
<1> USE DEF CoordinatorInv
<1>1. UNCHANGED <<peers, byToken, minted, clock, ticks, sweep, http, tickets, issued, lateTickets>>
    BY DEF registryVars, indexVars, ticketVars, procVars
<1>2. RegistryInv'
    BY RegistryRests
<1>3. ClockOK' /\ SweepOK' /\ TicketsOK' /\ HttpOK'
    BY <1>1 DEF ClockOK, SweepOK, TicketsOK, HttpOK
<1>4. TicketsExplained'
    BY <1>1 DEF TicketsExplained
<1>5. \A t : Known(t)' = Known(t)
    BY <1>1 DEF Known
<1>6. \A t, n : SessionOf(t, n)' = SessionOf(t, n)
    BY <1>1 DEF SessionOf
<1>7. \A S : ToForget(S)' = ToForget(S)
    BY <1>1 DEF ToForget
<1> QED BY <1>1, <1>2, <1>3, <1>4, <1>5, <1>6, <1>7

\* A session that resolves is its peer's.
LEMMA SessionFound ==
    ASSUME RegistryInv, NEW t, Known(t)
    PROVE  /\ t \in Token /\ GetByToken(t) \in Peer
           /\ GetByToken(t).NodeID = byToken[t] /\ GetByToken(t).NodeID \in Node
           /\ SessionOf(t, GetByToken(t).NodeID)
<1>1. t \in DOMAIN byToken /\ byToken[t] \in DOMAIN peers /\ GetByToken(t) = peers[byToken[t]]
    BY DEF Known, GetByToken
<1>2. GetByToken(t) \in Peer /\ GetByToken(t).NodeID = byToken[t]
    BY <1>1 DEF RegistryInv, RegistryTypeOK, IsMap, IndexesAgree
<1>3. t \in Token /\ t \in 1..minted
    BY <1>1 DEF RegistryInv, RegistryTypeOK, IsMap, LeasesBounded
<1> QED BY <1>1, <1>2, <1>3 DEF SessionOf, Peer

\* A datagram is authenticated.
LEMMA DatagramKeepsInv ==
    ASSUME CoordinatorInv, NEW t \in 1..minted, NEW body \in Body, Datagram(t, body)
    PROVE  CoordinatorInv'
<1> USE DEF CoordinatorInv
<1> DEFINE job == Job(body, GetByToken(t))
           n == GetByToken(t).NodeID
<1>1. /\ Known(t) /\ relay' = [pc |-> "bind", node |-> n, session |-> t, job |-> job]
      /\ UNCHANGED <<registryVars, ticketVars, clock, procVars, lateTickets>>
      /\ UNCHANGED <<endpoints, discovery, late>>
    BY DEF Datagram, RelayReceive, relayStateVars
<1>2. t \in Token /\ n \in Node /\ SessionOf(t, n)
    BY <1>1, SessionFound
<1>3. job \in [kind : {"none"}] \cup Unicast \cup Announcement
  <2>1. CASE body.kind \in {"unicast", "discovery"}
    BY <2>1 DEF Job, Body, Unicast, Announcement
  <2>2. CASE body.kind \notin {"unicast", "discovery"}
    BY <2>2 DEF Job
  <2> QED BY <2>1, <2>2
<1> HIDE DEF job, n
<1>4. relay' \in RelayState
    BY <1>1, <1>2, <1>3 DEF RelayState
<1>5. RelayOK' /\ DiscoveryOK'
    BY <1>1, <1>4 DEF RelayOK, DiscoveryOK
<1>6. SessionsTrue'
    BY <1>1, <1>2, RelayFrame DEF SessionsTrue
<1>7. EndpointsExplained' /\ DiscoveryExplained'
    BY <1>1, RelayFrame DEF EndpointsExplained, DiscoveryExplained
<1> QED BY <1>1, <1>5, <1>6, <1>7, RelayFrame

\* bind: the session may have ended since it was authenticated, and then the
\* endpoint is late.
LEMMA RelayBindKeepsInv ==
    ASSUME CoordinatorInv, RelayBind, UNCHANGED <<registryVars, ticketVars, clock, procVars, lateTickets>>
    PROVE  CoordinatorInv'
<1> USE DEF CoordinatorInv
<1> DEFINE n == relay.node
           t == relay.session
<1>1. /\ relay \in [pc : {"bind"}, node : Node, session : Token,
                    job : [kind : {"none"}] \cup Unicast \cup Announcement]
      /\ SessionOf(t, n)
    BY DEF RelayBind, RelayOK, RelayState, SessionsTrue
<1>2. /\ endpoints' = Put(endpoints, n, t) /\ relay' = AfterBind(relay.job) /\ discovery' = discovery
      /\ late' = IF Known(t) THEN late \ {<<"endpoint", n>>} ELSE late \cup {<<"endpoint", n>>}
    BY DEF RelayBind, MarkLate
<1>3. /\ relay' \in RelayState
      /\ relay'.pc \in {"bind", "lookup", "guard", "list"} => relay'.session = t /\ relay'.node = n
  <2>1. CASE relay.job.kind = "none"
    BY <1>2, <2>1 DEF AfterBind, RelayIdle, RelayState
  <2>2. CASE relay.job.kind = "unicast"
    <3>1. relay.job \in Unicast
      BY <1>1, <2>2 DEF Unicast, Announcement
    <3>2. relay' = [relay EXCEPT !.pc = "lookup"]
      BY <1>2, <2>2 DEF AfterBind
    <3> QED BY <1>1, <3>1, <3>2 DEF RelayState
  <2>3. CASE relay.job.kind = "discovery"
    <3>1. relay.job \in Announcement
      BY <1>1, <2>3 DEF Unicast, Announcement
    <3>2. relay' = [relay EXCEPT !.pc = "guard"]
      BY <1>2, <2>3 DEF AfterBind
    <3> QED BY <1>1, <3>1, <3>2 DEF RelayState
  <2>4. relay.job.kind \in {"none", "unicast", "discovery"}
    BY <1>1 DEF Unicast, Announcement
  <2> QED BY <2>1, <2>2, <2>3, <2>4
<1>4. IsMap(endpoints', Node, Token)
    BY <1>1, <1>2, PutType DEF RelayOK
<1> HIDE DEF n, t
<1>5. /\ DOMAIN endpoints' = DOMAIN endpoints \cup {n}
      /\ \A m \in DOMAIN endpoints' : endpoints'[m] = IF m = n THEN t ELSE endpoints[m]
    BY <1>2 DEF Put
<1>6. RelayOK' /\ DiscoveryOK'
    BY <1>2, <1>3, <1>4, RelayFrame DEF RelayOK, DiscoveryOK
<1>7. SessionsTrue'
    BY <1>1, <1>3, <1>5, RelayFrame DEF SessionsTrue
<1>8. EndpointsExplained'
    BY <1>2, <1>5, RelayFrame DEF EndpointsExplained
<1>9. DiscoveryExplained'
    BY <1>2, RelayFrame DEF DiscoveryExplained
<1> QED BY <1>6, <1>7, <1>8, <1>9, RelayFrame

\* guardDiscovery: the same for the discovery state.
LEMMA RelayGuardKeepsInv ==
    ASSUME CoordinatorInv, RelayGuard(clock),
           UNCHANGED <<registryVars, ticketVars, clock, procVars, lateTickets>>
    PROVE  CoordinatorInv'
<1> USE DEF CoordinatorInv
<1> DEFINE n == relay.node
           t == relay.session
           f == relay.job.print
           l == IF n \in DOMAIN discovery THEN discovery[n] ELSE NewLimiter(clock)
           a == After(l, f, clock)
<1>1. /\ relay \in [pc : {"guard", "list"}, node : Node, session : Token, job : Announcement]
      /\ SessionOf(t, n) /\ f \in Fingerprint
    BY DEF RelayGuard, RelayOK, RelayState, SessionsTrue, Announcement
<1>2. /\ discovery' = Put(discovery, n, a) /\ endpoints' = endpoints
      /\ relay' \in {[relay EXCEPT !.pc = "list"], RelayIdle}
      /\ late' = IF Known(t) THEN late \ {<<"discovery", n>>} ELSE late \cup {<<"discovery", n>>}
    BY DEF RelayGuard, MarkLate
<1>3. /\ relay' \in RelayState
      /\ relay'.pc \in {"bind", "lookup", "guard", "list"} => relay'.session = t /\ relay'.node = n
    BY <1>1, <1>2 DEF RelayState, RelayIdle
<1>4. clock \in Nat
    BY CoordinatorAssumption DEF ClockOK
<1>5. IsLimiter(l, clock)
    BY <1>4, NewLimiterType DEF DiscoveryOK
<1>6. IsLimiter(a, clock)
  <2> HIDE DEF l, f
  <2> QED BY <1>1, <1>4, <1>5, GuardType
<1> HIDE DEF n, t, f, l, a
<1>7. /\ DOMAIN discovery' = DOMAIN discovery \cup {n}
      /\ \A m \in DOMAIN discovery' : discovery'[m] = IF m = n THEN a ELSE discovery[m]
    BY <1>2 DEF Put
<1>8. n \in Node
    BY <1>1 DEF n
<1>9. RelayOK' /\ DiscoveryOK'
    BY <1>2, <1>3, <1>6, <1>7, <1>8, RelayFrame DEF RelayOK, DiscoveryOK
<1>10. SessionsTrue'
    BY <1>1, <1>2, <1>3, RelayFrame DEF SessionsTrue
<1>11. EndpointsExplained'
    BY <1>2, RelayFrame DEF EndpointsExplained
<1>12. DiscoveryExplained'
  <2>1. Known(t) => n \in DOMAIN peers
    BY <1>1 DEF Known, SessionOf
  <2> QED BY <1>2, <1>7, <2>1, RelayFrame DEF DiscoveryExplained
<1> QED BY <1>9, <1>10, <1>11, <1>12, RelayFrame

\* The other steps of the relay only change what it has read.
LEMMA RelayStepKeepsInv ==
    ASSUME CoordinatorInv, RelayStep
    PROVE  CoordinatorInv'
<1> USE DEF CoordinatorInv
<1>1. RelayWork(clock) /\ UNCHANGED <<registryVars, ticketVars, clock, procVars, lateTickets>>
    BY DEF RelayStep
<1>2. CASE RelayBind
    BY <1>1, <1>2, RelayBindKeepsInv
<1>3. CASE RelayGuard(clock)
    BY <1>1, <1>3, RelayGuardKeepsInv
<1>4. CASE \/ RelayList \/ RelayFan \/ RelayFanSend \/ RelayFanAbort \/ RelayFanDone
           \/ RelayLookup \/ RelayDeliver
  <2>1. UNCHANGED <<endpoints, discovery, late>> /\ relay \in RelayState
        /\ DOMAIN peers \subseteq Node /\ DOMAIN endpoints \subseteq Node
    BY <1>4 DEF RelayList, RelayFan, RelayFanSend, RelayFanAbort, RelayFanDone, RelayLookup,
                RelayDeliver, relayStateVars, RelayOK, RegistryInv, RegistryTypeOK, IsMap
  <2>2. relay' \in RelayState /\ relay'.pc \notin {"bind", "lookup", "guard", "list"}
    <3>1. CASE RelayList
      BY <2>1, <3>1 DEF RelayList, RelayState
    <3>2. CASE RelayFan \/ RelayFanSend
      <4>1. relay \in [pc : {"fan", "send"}, listed : SUBSET Node, todo : SUBSET Node,
                       reached : SUBSET Node]
        BY <2>1, <3>2 DEF RelayFan, RelayFanSend, RelayState
      <4>2. CASE RelayFan
        BY <4>1, <4>2 DEF RelayFan, RelayState
      <4>3. CASE RelayFanSend
        BY <2>1, <4>1, <4>3 DEF RelayFanSend, RelayState
      <4> QED BY <3>2, <4>2, <4>3
    <3>3. CASE RelayFanAbort \/ RelayFanDone \/ RelayLookup \/ RelayDeliver
      BY <3>3 DEF RelayFanAbort, RelayFanDone, RelayLookup, RelayDeliver, RelayState, RelayIdle
    <3> QED BY <1>4, <3>1, <3>2, <3>3
  <2>3. RelayOK' /\ DiscoveryOK'
    BY <1>1, <2>1, <2>2, RelayFrame DEF RelayOK, DiscoveryOK
  <2>4. SessionsTrue'
    BY <1>1, <2>1, <2>2, RelayFrame DEF SessionsTrue
  <2>5. EndpointsExplained' /\ DiscoveryExplained'
    BY <1>1, <2>1, RelayFrame DEF EndpointsExplained, DiscoveryExplained
  <2> QED BY <1>1, <2>3, <2>4, <2>5, RelayFrame
<1> QED BY <1>1, <1>2, <1>3, <1>4 DEF RelayWork

------------------------------------------------------------------------------
(* The handlers *)

\* A step of a handler that leaves registry and tickets as explained as they were.
LEMMA HandlerFrame ==
    ASSUME CoordinatorInv, NEW h \in Handler, NEW state \in HttpState, Become(h, state),
           RegistryInv', LeasesKept, TicketsOK', TicketsExplained',
           UNCHANGED <<relayVars, clock, ticks, sweep>>
    PROVE  CoordinatorInv'
<1> USE DEF CoordinatorInv
<1>1. HttpOK'
    BY DEF HttpOK, Become
<1>2. UNCHANGED <<endpoints, discovery, late, relay>>
    BY DEF relayVars, relayStateVars
<1>3. ClockOK' /\ SweepOK' /\ RelayOK' /\ DiscoveryOK'
    BY <1>2 DEF ClockOK, SweepOK, RelayOK, DiscoveryOK
<1> QED BY <1>1, <1>3, KeptRelay

\* A step that only reads.
LEMMA ReadOnlyKeepsInv ==
    ASSUME CoordinatorInv, NEW h \in Handler, NEW state \in HttpState, ReadOnly(h, state)
    PROVE  CoordinatorInv'
<1> USE DEF CoordinatorInv
<1>1. /\ Become(h, state)
      /\ UNCHANGED <<registryVars, relayVars, ticketVars, clock, ticks, sweep, lateTickets>>
    BY DEF ReadOnly
<1>2. RegistryInv' /\ LeasesKept
    BY <1>1, RegistryRests
<1>3. UNCHANGED <<tickets, issued, lateTickets, sweep, peers>>
    BY <1>1 DEF ticketVars, registryVars
<1>4. TicketsOK' /\ TicketsExplained'
    BY <1>3 DEF TicketsOK, TicketsExplained
<1> QED BY <1>1, <1>2, <1>4, HandlerFrame

\* A request is authenticated where it has to be, and stamped.
LEMMA RequestKeepsInv ==
    ASSUME CoordinatorInv, NEW h \in Handler, HttpRequest(h)
    PROVE  CoordinatorInv'
<1> USE DEF CoordinatorInv
<1>1. clock \in Time
    BY DEF ClockOK
<1>2. ASSUME NEW n \in Node, RegisterRequest(h, n) PROVE CoordinatorInv'
  <2>1. [pc |-> "register", node |-> n, at |-> clock] \in HttpState
    BY <1>1 DEF HttpState
  <2> QED BY <1>2, <2>1, ReadOnlyKeepsInv DEF RegisterRequest
<1>3. ASSUME NEW t \in 1..minted, HeartbeatRequest(h, t) PROVE CoordinatorInv'
  <2>1. t \in Token
    BY <1>3, SessionFound DEF HeartbeatRequest
  <2>2. [pc |-> "touch", session |-> t, at |-> clock] \in HttpState
    BY <1>1, <2>1 DEF HttpState
  <2> QED BY <1>3, <2>2, ReadOnlyKeepsInv DEF HeartbeatRequest
<1>4. ASSUME NEW t \in 1..minted, TicketsRequest(h, t) PROVE CoordinatorInv'
  <2>1. [pc |-> "tickets", at |-> clock] \in HttpState
    BY <1>1 DEF HttpState
  <2> QED BY <1>4, <2>1, ReadOnlyKeepsInv DEF TicketsRequest
<1>5. ASSUME NEW t \in 1..minted, NEW target \in Node, IssueRequest(h, t, target) PROVE CoordinatorInv'
  <2>1. GetByToken(t).NodeID \in Node
    BY <1>5, SessionFound DEF IssueRequest
  <2>2. [pc |-> "target", node |-> GetByToken(t).NodeID, target |-> target] \in HttpState
    BY <2>1 DEF HttpState
  <2> QED BY <1>5, <2>2, ReadOnlyKeepsInv DEF IssueRequest
<1> QED BY <1>2, <1>3, <1>4, <1>5 DEF HttpRequest

\* A registration or a renewal with the time the handler read before.
LEMMA LeaseReplyKeepsInv ==
    ASSUME CoordinatorInv, NEW h \in Handler, RegisterReply(h) \/ HeartbeatReply(h)
    PROVE  CoordinatorInv'
<1> USE DEF CoordinatorInv
<1>1. http[h] \in HttpState
    BY DEF HttpOK
<1>2. /\ Become(h, HttpIdle) /\ HttpIdle \in HttpState
      /\ UNCHANGED <<relayVars, ticketVars, clock, ticks, sweep, lateTickets>>
    BY DEF RegisterReply, HeartbeatReply, HttpIdle, HttpState
<1>3. RegistryInv' /\ LeasesKept
  <2>1. CASE RegisterReply(h)
    <3> DEFINE n == http[h].node
               at == http[h].at
    <3>1. n \in Node /\ at \in Time
      BY <1>1, <2>1 DEF RegisterReply, HttpState
    <3>2. \/ RegisterAgain(n, at) \/ RegisterNew(n, at) \/ RegisterTokenFails(n)
          \/ UNCHANGED registryVars
      BY <2>1 DEF RegisterReply
    <3> HIDE DEF n, at
    <3>3. ASSUME RegisterAgain(n, at) PROVE RegistryInv' /\ LeasesKept
      BY <3>1, <3>3, RenewKeeps DEF RegisterAgain
    <3> QED BY <3>1, <3>2, <3>3, RegisterKeeps, TokenFailsKeeps, RegistryRests
  <2>2. CASE HeartbeatReply(h)
    <3> DEFINE t == http[h].session
               at == http[h].at
    <3>1. at \in Time
      BY <1>1, <2>2 DEF HeartbeatReply, HttpState
    <3>2. TouchByToken(t, at) \/ UNCHANGED registryVars
      BY <2>2 DEF HeartbeatReply
    <3> HIDE DEF t, at
    <3>3. ASSUME TouchByToken(t, at) PROVE RegistryInv' /\ LeasesKept
      BY <3>1, <3>3, RenewKeeps DEF TouchByToken, Known
    <3> QED BY <3>2, <3>3, RegistryRests
  <2> QED BY <2>1, <2>2
<1>4. TicketsOK' /\ TicketsExplained'
    BY <1>2, <1>3 DEF TicketsOK, TicketsExplained, LeasesKept, ticketVars
<1> QED BY <1>2, <1>3, <1>4, HandlerFrame

\* Issue stores a ticket for a pair that was registered when the handler looked.
LEMMA IssueStoreKeepsInv ==
    ASSUME CoordinatorInv, NEW h \in Handler, IssueStore(h)
    PROVE  CoordinatorInv'
<1> USE DEF CoordinatorInv
<1> DEFINE source == http[h].node
           target == http[h].target
           at == http[h].at
           ticket == [SourceNode |-> source, TargetNode |-> target, ExpiresAt |-> at + TicketTTL]
<1>1. source \in Node /\ target \in Node /\ at \in Time
    BY DEF HttpOK, HttpState, IssueStore
<1>2. /\ Become(h, HttpIdle) /\ HttpIdle \in HttpState
      /\ issued < MaxTickets /\ issued' = issued + 1
      /\ tickets' = Put(Unexpired(at), issued + 1, ticket)
      /\ lateTickets' = IF {source, target} \subseteq DOMAIN peers
                        THEN lateTickets ELSE lateTickets \cup {issued + 1}
      /\ UNCHANGED <<registryVars, relayVars, clock, ticks, sweep>>
    BY DEF IssueStore, Issue, HttpIdle, HttpState
<1>3. ticket \in TicketState
    BY <1>1, TicketAssumption, CoordinatorAssumption DEF TicketState
<1>4. RegistryInv' /\ LeasesKept /\ peers' = peers
    BY <1>2, RegistryRests DEF registryVars
<1> HIDE DEF source, target, at
<1>5. /\ DOMAIN Unexpired(at) \subseteq DOMAIN tickets
      /\ \A k \in DOMAIN Unexpired(at) : Unexpired(at)[k] = tickets[k]
    BY DEF Unexpired, Drop, Restrict
<1>6. issued \in Nat /\ issued' \in 0..MaxTickets /\ 1..issued \subseteq 1..issued'
    BY <1>2, TicketAssumption DEF TicketsOK
<1>7. TicketsOK'
  <2>1. IsMap(Unexpired(at), 1..issued, TicketState)
    BY DropType DEF Unexpired, TicketsOK
  <2>2. IsMap(Unexpired(at), 1..issued', TicketState) /\ issued + 1 \in 1..issued'
    BY <1>2, <1>6, <2>1 DEF IsMap
  <2>3. IsMap(tickets', 1..issued', TicketState)
    <3> HIDE DEF ticket
    <3> QED BY <1>2, <1>3, <2>2, PutType
  <2> QED BY <1>6, <2>3 DEF TicketsOK
<1>8. TicketsExplained'
  <2> SUFFICES ASSUME NEW k \in DOMAIN tickets', NEW n \in Node, Names(tickets'[k], n)
               PROVE  n \in DOMAIN peers \/ n \in sweep.todo \/ k \in lateTickets'
    BY <1>2, <1>4 DEF TicketsExplained, Names
  <2>1. CASE k = issued + 1
    <3>1. n \in {source, target}
      BY <1>2, <2>1 DEF Put, Names
    <3> QED BY <1>2, <2>1, <3>1
  <2>2. CASE k # issued + 1
    <3>1. k \in DOMAIN tickets /\ tickets'[k] = tickets[k]
      BY <1>2, <1>5, <2>2 DEF Put
    <3>2. lateTickets \subseteq lateTickets'
      BY <1>2
    <3> QED BY <3>1, <3>2 DEF TicketsExplained
  <2> QED BY <2>1, <2>2
<1> QED BY <1>2, <1>4, <1>7, <1>8, HandlerFrame

\* The handlers' other steps.
LEMMA WorkKeepsInv ==
    ASSUME CoordinatorInv, NEW h \in Handler, HttpWork(h)
    PROVE  CoordinatorInv'
<1> USE DEF CoordinatorInv
<1>1. http[h] \in HttpState /\ clock \in Time
    BY DEF HttpOK, ClockOK
<1>2. CASE RegisterReply(h) \/ HeartbeatReply(h)
    BY <1>2, LeaseReplyKeepsInv
<1>3. CASE TicketsReply(h)
  <2>1. /\ Become(h, HttpIdle) /\ HttpIdle \in HttpState
        /\ tickets' = Unexpired(http[h].at) /\ issued' = issued
        /\ UNCHANGED <<registryVars, relayVars, clock, ticks, sweep, lateTickets>>
    BY <1>3 DEF TicketsReply, Prune, HttpIdle, HttpState
  <2>2. /\ DOMAIN tickets' \subseteq DOMAIN tickets
        /\ \A k \in DOMAIN tickets' : tickets'[k] = tickets[k]
    BY <2>1 DEF Unexpired, Drop, Restrict
  <2>3. RegistryInv' /\ LeasesKept /\ peers' = peers
    BY <2>1, RegistryRests DEF registryVars
  <2>4. TicketsOK'
    BY <2>1, DropType DEF TicketsOK, Unexpired
  <2>5. TicketsExplained'
    BY <2>1, <2>2, <2>3 DEF TicketsExplained
  <2> QED BY <2>1, <2>3, <2>4, <2>5, HandlerFrame
<1>4. CASE IssueTarget(h) \/ IssueStamp(h)
  <2>1. http[h] \in [pc : {"target", "stamp"}, node : Node, target : Node]
    BY <1>1, <1>4 DEF IssueTarget, IssueStamp, HttpState
  <2>2. /\ [http[h] EXCEPT !.pc = "stamp"] \in HttpState /\ HttpIdle \in HttpState
        /\ [pc |-> "issue", node |-> http[h].node, target |-> http[h].target, at |-> clock] \in HttpState
    BY <1>1, <2>1 DEF HttpState, HttpIdle
  <2>3. \E state \in HttpState : ReadOnly(h, state)
    BY <1>4, <2>2 DEF IssueTarget, IssueStamp
  <2> QED BY <2>3, ReadOnlyKeepsInv
<1>5. CASE IssueStore(h)
    BY <1>5, IssueStoreKeepsInv
<1> QED BY <1>2, <1>3, <1>4, <1>5 DEF HttpWork

------------------------------------------------------------------------------
(* The theorems *)

\* The invariant holds throughout.
LEMMA CoordinatorInvariant == CoordinatorSpec => []CoordinatorInv
<1>1. CoordinatorInv /\ [CoordinatorNext]_vars => CoordinatorInv'
  <2> SUFFICES ASSUME CoordinatorInv, [CoordinatorNext]_vars PROVE CoordinatorInv'
    OBVIOUS
  <2>1. CASE Tick
    BY <2>1, TickKeepsInv
  <2>2. CASE Sweeper
    BY <2>2, SweepExpireKeepsInv, SweepForgetsKeepsInv DEF Sweeper
  <2>3. CASE RelayStep
    BY <2>3, RelayStepKeepsInv
  <2>4. CASE \E t \in 1..minted, body \in Body : Datagram(t, body)
    BY <2>4, DatagramKeepsInv
  <2>5. CASE \E h \in Handler : HttpRequest(h) \/ HttpWork(h)
    BY <2>5, RequestKeepsInv, WorkKeepsInv
  <2>6. CASE UNCHANGED vars
    <3>1. UNCHANGED <<registryVars, ticketVars, clock, procVars, lateTickets>>
          /\ UNCHANGED <<endpoints, discovery, late, relay>>
      BY <2>6 DEF vars, relayVars, relayStateVars
    <3> QED BY <3>1, RelayFrame DEF CoordinatorInv, RelayOK, DiscoveryOK, SessionsTrue,
                                    EndpointsExplained, DiscoveryExplained
  <2> QED BY <2>1, <2>2, <2>3, <2>4, <2>5, <2>6 DEF CoordinatorNext
<1> QED BY <1>1, CoordinatorInvInit, PTL DEF CoordinatorSpec

\* Relay, sweeper and any number of concurrent handlers keep every map of the
\* coordinator within its type.
THEOREM CoordinatorTypeCorrect == CoordinatorSpec => []CoordinatorTypeOK
<1>1. ASSUME CoordinatorInv PROVE CoordinatorTypeOK
  <2> USE <1>1 DEF CoordinatorInv
  <2>1. RegistryTypeOK /\ IsMap(endpoints, Node, Token)
    BY DEF RegistryInv, RelayOK
  <2>2. ASSUME NEW n \in DOMAIN discovery
        PROVE  /\ n \in Node /\ discovery[n].tokens \in 0..Full
               /\ IsMap(discovery[n].seen, Fingerprint, Time)
    <3>1. n \in Node /\ discovery[n].tokens \in 0..Full
          /\ IsMap(discovery[n].seen, Fingerprint, 0..clock)
      BY DEF DiscoveryOK, IsLimiter
    <3>2. 0..clock \subseteq Time
      BY CoordinatorAssumption DEF ClockOK
    <3> QED BY <3>1, <3>2 DEF IsMap
  <2>3. IsMap(tickets, 1..MaxTickets, [SourceNode : Node, TargetNode : Node, ExpiresAt : Nat])
    <3>1. 1..issued \subseteq 1..MaxTickets
      BY TicketAssumption DEF TicketsOK
    <3> QED BY <3>1 DEF TicketsOK, TicketState, IsMap
  <2>4. clock \in Time /\ ticks \in 0..clock
        /\ sweep \in [pc : {"idle", "endpoint", "discovery", "tickets", "prune"}, todo : SUBSET Node]
    BY DEF ClockOK, SweepOK, SweepState
  <2>5. relay.pc \in {"idle", "bind", "guard", "list", "fan", "send", "lookup", "deliver"}
    BY DEF RelayOK, RelayState
  <2>6. \A h \in Handler :
            http[h].pc \in {"idle", "register", "touch", "target", "stamp", "issue", "tickets"}
    BY DEF HttpOK, HttpState
  <2> QED BY <2>1, <2>2, <2>3, <2>4, <2>5, <2>6 DEF CoordinatorTypeOK
<1> QED BY <1>1, CoordinatorInvariant, PTL

\* The five maps of the registry agree also under the concurrent handlers and the
\* sweeper of the coordinator, whose timestamps may be stale.
THEOREM CoordinatorIndexesAgree == CoordinatorSpec => []IndexesAgree
<1>1. CoordinatorInv => IndexesAgree
    BY DEF CoordinatorInv, RegistryInv
<1> QED BY <1>1, CoordinatorInvariant, PTL

\* The relay holds endpoint or discovery state of an ended lease only while the
\* sweeper has it on its list, or after the relay's own race with the sweeper.
THEOREM RelayStateAlwaysExplained == CoordinatorSpec => []RelayStateExplained
<1>1. CoordinatorInv => RelayStateExplained
    BY DEF CoordinatorInv, RelayStateExplained
<1> QED BY <1>1, CoordinatorInvariant, PTL

\* The same for a probe ticket that names a node without a lease.
THEOREM TicketsAlwaysExplained == CoordinatorSpec => []TicketsExplained
<1>1. CoordinatorInv => TicketsExplained
    BY DEF CoordinatorInv
<1> QED BY <1>1, CoordinatorInvariant, PTL

\* The lease sweeper ends no lease before its time, also when it handles a tick
\* that waited in the ticker's channel while the clock went on.
THEOREM LeasesNeverEndEarly == CoordinatorSpec => NoEarlyExpiry
<1> DEFINE Due == \A n \in DOMAIN peers \ DOMAIN peers' : peers[n].LastSeen + LeaseTTL <= clock
<1>1. CoordinatorInv /\ [CoordinatorNext]_vars => [Due]_vars
  <2> SUFFICES ASSUME CoordinatorInv, CoordinatorNext PROVE Due
    OBVIOUS
  <2>1. CASE SweepExpire
    <3> SUFFICES ASSUME NEW n \in DOMAIN peers \ DOMAIN peers'
                 PROVE  peers[n].LastSeen + LeaseTTL <= clock
      OBVIOUS
    <3>1. n \in Expired(ticks - LeaseTTL)
      BY <2>1 DEF SweepExpire, ExpireBefore, Drop, Restrict
    <3>2. peers[n].LastSeen <= ticks - LeaseTTL
      BY <3>1 DEF Expired
    <3>3. /\ peers[n].LastSeen \in Nat /\ LeaseTTL \in Nat
          /\ clock \in Nat /\ ticks \in 0..clock
      BY CoordinatorAssumption DEF CoordinatorInv, RegistryInv, RegistryTypeOK, IsMap, Peer, ClockOK
    <3> QED BY <3>2, <3>3
  <2>2. CASE ~SweepExpire
    <3>1. DOMAIN peers \subseteq DOMAIN peers'
      <4>1. CASE Tick \/ Sweeper \/ RelayStep
        BY <2>2, <4>1 DEF Tick, Sweeper, SweepEndpoint, SweepDiscovery, SweepTickets, SweepPrune,
                          RelayStep, registryVars
      <4>2. ASSUME NEW t, NEW body, Datagram(t, body) PROVE peers' = peers
        BY <4>2 DEF Datagram, registryVars
      <4>3. ASSUME NEW h \in Handler, HttpRequest(h) PROVE peers' = peers
        BY <4>3 DEF HttpRequest, RegisterRequest, HeartbeatRequest, TicketsRequest, IssueRequest,
                    ReadOnly, registryVars
      <4>4. ASSUME NEW h \in Handler, HttpWork(h) PROVE DOMAIN peers \subseteq DOMAIN peers'
        <5>1. CASE RegisterReply(h) \/ HeartbeatReply(h)
          BY <5>1 DEF RegisterReply, HeartbeatReply, RegisterAgain, RegisterNew, Insert,
                      RegisterTokenFails, TouchByToken, Put, registryVars
        <5>2. CASE TicketsReply(h) \/ IssueTarget(h) \/ IssueStamp(h) \/ IssueStore(h)
          BY <5>2 DEF TicketsReply, IssueTarget, IssueStamp, IssueStore, ReadOnly, registryVars
        <5> QED BY <4>4, <5>1, <5>2 DEF HttpWork
      <4> QED BY <4>1, <4>2, <4>3, <4>4 DEF CoordinatorNext
    <3> QED BY <3>1
  <2> QED BY <2>1, <2>2
<1> QED BY <1>1, CoordinatorInvariant, PTL DEF CoordinatorSpec, NoEarlyExpiry

------------------------------------------------------------------------------
(* The coordinator's registry is the registry *)

\* A step of relay, sweeper or handler is one call of the registry, with a
\* timestamp of the model, or none.
LEMMA RegistryStep ==
    ASSUME CoordinatorInv, [CoordinatorNext]_vars
    PROVE  [RegistryNext]_registryVars
<1>1. CASE SweepExpire
  <2> DEFINE cutoff == ticks - LeaseTTL
  <2>1. ExpireBefore(cutoff)
    BY <1>1 DEF SweepExpire
  <2>2. /\ RegistryInv /\ clock \in 0..MaxTime /\ ticks \in 0..clock
        /\ LeaseTTL \in Nat /\ MaxTime \in Nat /\ Time = 0..MaxTime
    BY CoordinatorAssumption DEF CoordinatorInv, ClockOK
  <2>3. CASE cutoff >= 0
    <3>1. cutoff \in Time
      BY <2>2, <2>3
    <3> HIDE DEF cutoff
    <3> QED BY <2>1, <3>1 DEF RegistryNext
  <2>4. CASE cutoff < 0
    <3>1. cutoff \in Int
      BY <2>2
    <3> HIDE DEF cutoff
    <3> QED BY <2>1, <2>2, <2>4, <3>1, EarlySweep
  <2> QED BY <2>2, <2>3, <2>4
<1>2. CASE Tick \/ RelayStep \/ UNCHANGED vars
    BY <1>2 DEF Tick, RelayStep, vars
<1>3. CASE SweepEndpoint \/ SweepDiscovery \/ SweepTickets \/ SweepPrune
    BY <1>3 DEF SweepEndpoint, SweepDiscovery, SweepTickets, SweepPrune
<1>4. ASSUME NEW t, NEW body, Datagram(t, body) PROVE UNCHANGED registryVars
    BY <1>4 DEF Datagram
<1>5. ASSUME NEW h \in Handler, HttpRequest(h) PROVE UNCHANGED registryVars
    BY <1>5 DEF HttpRequest, RegisterRequest, HeartbeatRequest, TicketsRequest, IssueRequest, ReadOnly
<1>6. ASSUME NEW h \in Handler, RegisterReply(h) PROVE [RegistryNext]_registryVars
  <2>1. http[h].node \in Node /\ http[h].at \in Time
    BY <1>6 DEF RegisterReply, CoordinatorInv, HttpOK, HttpState
  <2> QED BY <1>6, <2>1 DEF RegisterReply, RegistryNext
<1>7. ASSUME NEW h \in Handler, HeartbeatReply(h) PROVE [RegistryNext]_registryVars
  <2>1. http[h].at \in Time
    BY <1>7 DEF HeartbeatReply, CoordinatorInv, HttpOK, HttpState
  <2>2. Known(http[h].session) => http[h].session \in Token
    BY DEF Known, CoordinatorInv, RegistryInv, RegistryTypeOK, IsMap
  <2>3. TouchByToken(http[h].session, http[h].at) \/ UNCHANGED registryVars
    BY <1>7 DEF HeartbeatReply
  <2> QED BY <2>1, <2>2, <2>3 DEF RegistryNext, TouchByToken
<1>8. ASSUME NEW h \in Handler,
             TicketsReply(h) \/ IssueTarget(h) \/ IssueStamp(h) \/ IssueStore(h)
      PROVE  UNCHANGED registryVars
    BY <1>8 DEF TicketsReply, IssueTarget, IssueStamp, IssueStore, ReadOnly
<1> QED BY <1>1, <1>2, <1>3, <1>4, <1>5, <1>6, <1>7, <1>8 DEF CoordinatorNext, Sweeper, HttpWork

\* Whatever relay, sweeper and handlers do between its locks, the registry in
\* the coordinator process behaves as the registry specified by itself.
THEOREM CoordinatorImplementsRegistry == CoordinatorSpec => RegistrySpec
<1>1. CoordinatorInit => RegistryInit
    BY DEF CoordinatorInit
<1>2. CoordinatorInv /\ [CoordinatorNext]_vars => [RegistryNext]_registryVars
    BY RegistryStep
<1> QED BY <1>1, <1>2, CoordinatorInvariant, PTL DEF CoordinatorSpec, RegistrySpec

\* So what holds of the registry holds in the coordinator: leases keep address and
\* token until they are swept, a token that stopped resolving stays dead, nobody
\* shares an address, and the whole process implements the lease table.
THEOREM CoordinatorImplementsLeaseTable ==
    CoordinatorSpec => /\ []LeasesDistinct /\ TokensNeverRevive /\ LeaseStable
                       /\ ImplementsLeaseTable
BY CoordinatorImplementsRegistry, LeasesAlwaysDistinct, DeadTokensStayDead, LeasesAreStable,
   RegistryRefinement, PTL
==============================================================================
