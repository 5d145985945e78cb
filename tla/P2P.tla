--------------------------------- MODULE P2P ---------------------------------
(***************************************************************************)
(* The direct path between mesh clients (cmd/client/p2p_runtime.go,        *)
(* direct_runtime.go and direct_replay.go over internal/p2p): pair tickets *)
(* fetched from and issued by the coordinator, candidates, probes and      *)
(* their acknowledgements, path health, direct payloads and the replay     *)
(* cache.  A client runs a poll loop, a receive loop and a TUN loop; their *)
(* steps interleave where the runtime's lock is free.  The poll loop alone *)
(* writes tickets, candidates and issue times, so a request and what the   *)
(* loop does with the reply, up to the next request, is one step.  UDP     *)
(* loses, delays, reorders and duplicates datagrams: net only grows, and   *)
(* any datagram in it may be received any number of times, or never.       *)
(*                                                                         *)
(* A UDP endpoint is a client process: <<node, life>>, where life counts   *)
(* the restarts of the node's client.  The coordinator appears through its *)
(* operations (Coordinator.tla has their races); its ticket store is the   *)
(* module Tickets.  Datagrams are authentic: keyed hashes and encryption   *)
(* are taken to work, so only what a holder of the ticket made verifies.   *)
(*                                                                         *)
(* There is one clock.  In the program coordinator and clients each judge  *)
(* the expiry of tickets and the age of candidates by their own.  The      *)
(* clock of a client that is ahead makes it drop tickets that still live   *)
(* at the coordinator, so OneLiveTicketPerPair is about clocks that agree, *)
(* and DeadPathBounded's bound holds up to their difference;               *)
(* NoPayloadTwice only concerns the receiver's own clock.                  *)
(***************************************************************************)
EXTENDS Tickets, Sequences, FiniteSets

CONSTANTS
    Client,             \* node IDs; ordered, as the strings are
    Restarting,         \* the clients that may lose their lease and restart
    CandidateMaxAge,    \* p2pCandidateMaxAge
    PendingTTL,         \* p2pPendingTTL
    IssueRetry,         \* p2pTicketIssueRetry
    DirectTTL,          \* the selector's directTTL
    MaxTime,            \* bounds: the clock,
    MaxNonces,          \*   probes sent,
    MaxPayloads,        \*   direct payloads sent,
    MaxLife             \*   restarts of a client

ASSUME P2PAssumption ==
    /\ Client \subseteq Nat
    /\ Restarting \subseteq Client
    /\ CandidateMaxAge \in Nat /\ PendingTTL \in Nat /\ IssueRetry \in Nat
    /\ DirectTTL \in Nat \ {0}
    /\ MaxTime \in Nat /\ MaxNonces \in Nat /\ MaxPayloads \in Nat /\ MaxLife \in Nat

VARIABLES
    clock,
    registered,     \* coordinator: nodes with a lease
    observed,       \* coordinator: node -> relay-observed endpoint and its time
    life,           \* the current process of each client
    born,           \* history: when that process started
    known,          \* client -> its tickets
    candidates,     \* client -> node -> endpoint of the candidate
    pending,        \* client -> nonce -> pendingProbe
    lastIssued,     \* client -> node -> time
    direct,         \* client -> node -> directState of the selector
    replay,         \* client -> replay key -> expiry
    poll,           \* the poll loop of each client
    recv,           \* the receive loop of each client
    net,            \* datagrams sent
    probes,         \* number of probes sent
    payloads,       \* number of direct payloads sent
    written,        \* history: client -> direct payloads written to its TUN
    stray,          \* issue requests under way whose client gave up on them
    overtaken       \* history: tickets stored for requests that a later list overtook

strayVars == <<stray, overtaken>>
coordVars == <<registered, observed, ticketVars, strayVars>>
mapVars == <<known, candidates, pending, lastIssued>>
pathVars == <<direct, replay, written>>
netVars == <<net, probes, payloads>>
vars == <<clock, coordVars, life, born, mapVars, pathVars, poll, recv, netVars>>

Idle == [pc |-> "idle"]

\* newP2PRuntime
P2PInit ==
    /\ TicketsInit
    /\ clock = 0
    /\ registered = Client
    /\ observed = Empty
    /\ life = [c \in Client |-> 0]
    /\ born = [c \in Client |-> 0]
    /\ known = [c \in Client |-> Empty]
    /\ candidates = [c \in Client |-> Empty]
    /\ pending = [c \in Client |-> Empty]
    /\ lastIssued = [c \in Client |-> Empty]
    /\ direct = [c \in Client |-> Empty]
    /\ replay = [c \in Client |-> Empty]
    /\ poll = [c \in Client |-> Idle]
    /\ recv = [c \in Client |-> Idle]
    /\ net = {}
    /\ probes = 0
    /\ payloads = 0
    /\ written = [c \in Client |-> <<>>]
    /\ stray = {}
    /\ overtaken = {}

\* Mutant of Live: a ticket is good at the instant it expires.
LiveAtExpiry(ticket, now) == now <= ticket.ExpiresAt

Live(ticket, now) == now < ticket.ExpiresAt

------------------------------------------------------------------------------
(* The world around the clients *)

Tick ==
    /\ clock < MaxTime
    /\ clock' = clock + 1
    /\ UNCHANGED <<coordVars, life, born, mapVars, pathVars, poll, recv, netVars>>

\* relayHelloLoop: a keepalive reaches the relay, which observes its source.
Hello(c) ==
    /\ c \in registered
    /\ observed' = Put(observed, c, [endpoint |-> <<c, life[c]>>, at |-> clock])
    /\ UNCHANGED <<clock, registered, ticketVars, strayVars, life, born, mapVars, pathVars,
                   poll, recv, netVars>>

\* The lease of c expires at the coordinator, which forgets all it knows of c.
\* (Bound: only a client that may still restart loses its lease.)
LeaseExpires(c) ==
    /\ c \in registered \cap Restarting
    /\ life[c] < MaxLife
    /\ registered' = registered \ {c}
    /\ observed' = Drop(observed, {c})
    /\ ForgetNode(c)
    /\ UNCHANGED <<clock, strayVars, life, born, mapVars, pathVars, poll, recv, netVars>>

\* The client gives up on its request for a ticket: it never reaches the
\* coordinator or is handled there at some later time.
Abandon(c, targets) ==
    \/ UNCHANGED stray
    \/ \E n \in targets : stray' = stray \cup {[from |-> c, to |-> n, overtaken |-> FALSE]}

\* The coordinator handles a request nobody waits for any more.
StrayIssue(r) ==
    /\ {r.from, r.to} \subseteq registered
    /\ Issue(r.from, r.to, clock)
    /\ stray' = stray \ {r}
    /\ overtaken' = IF r.overtaken THEN overtaken \cup {issued + 1} ELSE overtaken
    /\ UNCHANGED <<clock, registered, observed, life, born, mapVars, pathVars, poll, recv,
                   netVars>>

\* The client process ends, perhaps with a request under way, and a new one
\* registers, with nothing remembered and a socket of its own.
Restart(c) ==
    /\ c \in Restarting
    /\ life[c] < MaxLife
    /\ life' = [life EXCEPT ![c] = @ + 1]
    /\ born' = [born EXCEPT ![c] = clock]
    /\ registered' = registered \cup {c}
    /\ known' = [known EXCEPT ![c] = Empty]
    /\ candidates' = [candidates EXCEPT ![c] = Empty]
    /\ pending' = [pending EXCEPT ![c] = Empty]
    /\ lastIssued' = [lastIssued EXCEPT ![c] = Empty]
    /\ direct' = [direct EXCEPT ![c] = Empty]
    /\ replay' = [replay EXCEPT ![c] = Empty]
    /\ poll' = [poll EXCEPT ![c] = Idle]
    /\ recv' = [recv EXCEPT ![c] = Idle]
    /\ written' = [written EXCEPT ![c] = <<>>]
    /\ Abandon(c, IF poll[c].pc = "issue" THEN poll[c].todo ELSE {})
    /\ UNCHANGED <<clock, observed, ticketVars, overtaken, netVars>>

------------------------------------------------------------------------------
(* The poll loop *)

Polls(c, state) == poll' = [poll EXCEPT ![c] = state]

\* replaceTickets: the listed tickets and the local ones, as far as they are
\* live, and the pending probes that are not too old.
ReplaceTickets(c, list) ==
    LET ids == {k \in DOMAIN list : Live(list[k], clock)}
                 \cup {k \in DOMAIN known[c] : Live(known[c][k], clock)}
        old == {x \in DOMAIN pending[c] : clock - pending[c][x].sentAt >= PendingTTL}
    IN /\ known' = [known EXCEPT ![c] =
                        [k \in ids |-> IF k \in DOMAIN list THEN list[k] ELSE @[k]]]
       /\ pending' = [pending EXCEPT ![c] = Drop(@, old)]

\* fetchTickets (the coordinator prunes, then lists) and replaceTickets.  A cycle
\* whose fetchTickets fails is not a step.
PollTickets(c) ==
    /\ poll[c].pc = "idle"
    /\ c \in registered
    /\ Prune(clock)
    /\ ReplaceTickets(c, Restrict(tickets', {k \in DOMAIN tickets' : Names(tickets[k], c)}))
    /\ Polls(c, [pc |-> "candidates"])
    /\ stray' = {[r EXCEPT !.overtaken = @ \/ r.from = c] : r \in stray}
    /\ UNCHANGED <<clock, registered, observed, overtaken, life, born, candidates, lastIssued,
                   pathVars, recv, netVars>>

\* fetchCandidates fails: the cycle ends.
CandidatesFail(c) ==
    /\ poll[c].pc = "candidates"
    /\ Polls(c, Idle)
    /\ UNCHANGED <<clock, coordVars, life, born, mapVars, pathVars, recv, netVars>>

HasLiveSourceTicket(c, target, now) ==
    \E k \in DOMAIN known[c] :
        /\ known[c][k].SourceNode = c /\ known[c][k].TargetNode = target
        /\ Live(known[c][k], now)

\* Mutant of NeedsTicket: both nodes of a pair issue.
NeedsTicketEither(c, target, now) ==
    /\ ~HasLiveSourceTicket(c, target, now)
    /\ target \in DOMAIN lastIssued[c] => now - lastIssued[c][target] >= IssueRetry

\* Only the smaller node of a pair issues, and not again within IssueRetry.
NeedsTicket(c, target, now) ==
    /\ c < target
    /\ ~HasLiveSourceTicket(c, target, now)
    /\ target \in DOMAIN lastIssued[c] => now - lastIssued[c][target] >= IssueRetry

\* sendProbes: one probe for every live ticket this client is the source of and
\* whose target is a candidate.
Probes(c, held, targets) ==
    {k \in DOMAIN held :
        held[k].SourceNode = c /\ Live(held[k], clock) /\ held[k].TargetNode \in targets}

\* The rest of a cycle: tickets to issue, then probes to send.
Continue(c, todo, own, at) ==
    Polls(c, CASE todo # {}              -> [pc |-> "issue", todo |-> todo, at |-> at]
               [] todo = {} /\ own # {} -> [pc |-> "probe", todo |-> own]
               [] OTHER                  -> Idle)

\* Mutant of PollCandidates: the client is a candidate of itself.
PollCandidatesSelf(c) ==
    /\ poll[c].pc = "candidates"
    /\ c \in registered
    /\ LET fresh == {n \in DOMAIN observed \cap registered :
                        clock - observed[n].at <= CandidateMaxAge}
       IN /\ candidates' = [candidates EXCEPT ![c] = [n \in fresh |-> observed[n].endpoint]]
          /\ Continue(c, {n \in fresh : NeedsTicket(c, n, clock)}, Probes(c, known[c], fresh), clock)
    /\ UNCHANGED <<clock, coordVars, life, born, known, pending, lastIssued, pathVars,
                   recv, netVars>>

\* fetchCandidates, replaceCandidates, and what issueNeededTickets reads of the
\* maps.  With one clock no observation is from the future, which
\* replaceCandidates would refuse from five seconds on.
PollCandidates(c) ==
    /\ poll[c].pc = "candidates"
    /\ c \in registered
    /\ LET fresh == {n \in (DOMAIN observed \cap registered) \ {c} :
                        clock - observed[n].at <= CandidateMaxAge}
       IN /\ candidates' = [candidates EXCEPT ![c] = [n \in fresh |-> observed[n].endpoint]]
          /\ Continue(c, {n \in fresh : NeedsTicket(c, n, clock)}, Probes(c, known[c], fresh), clock)
    /\ UNCHANGED <<clock, coordVars, life, born, known, pending, lastIssued, pathVars,
                   recv, netVars>>

\* issueTicket succeeds: the coordinator stored a ticket and its reply arrived.
IssueTicket(c, target) ==
    /\ poll[c].pc = "issue"
    /\ target \in poll[c].todo
    /\ {c, target} \subseteq registered
    /\ Issue(c, target, clock)
    /\ known' = [known EXCEPT ![c] = Put(@, issued', tickets'[issued'])]
    /\ lastIssued' = [lastIssued EXCEPT ![c] = Put(@, target, poll[c].at)]
    /\ Continue(c, poll[c].todo \ {target}, Probes(c, known'[c], DOMAIN candidates[c]), poll[c].at)
    /\ UNCHANGED <<clock, registered, observed, strayVars, life, born, candidates, pending,
                   pathVars, recv, netVars>>

\* issueTicket fails (its timeout may end it while the request is under way):
\* the rest of the list is not tried.
IssueFails(c, target) ==
    /\ poll[c].pc = "issue"
    /\ target \in poll[c].todo
    /\ Abandon(c, {target})
    /\ Continue(c, {}, Probes(c, known[c], DOMAIN candidates[c]), poll[c].at)
    /\ UNCHANGED <<clock, registered, observed, ticketVars, overtaken, life, born, mapVars,
                   pathVars, recv, netVars>>

Send(m) == net' = net \cup {m}

\* NewProbe: from the source of the ticket to its target.
NewProbe(c, k, dest) ==
    [type |-> "probe", ticket |-> k, nonce |-> probes + 1, from |-> known[c][k].SourceNode,
     to |-> known[c][k].TargetNode, source |-> <<c, life[c]>>, dest |-> dest]

Probed(c, k) ==
    LET left == poll[c].todo \ {k} IN
    Polls(c, IF left = {} THEN Idle ELSE [poll[c] EXCEPT !.todo = left])

\* Mutant of SendProbe: the nonce is not remembered.
SendProbeForgets(c, k) ==
    /\ poll[c].pc = "probe"
    /\ k \in poll[c].todo
    /\ probes < MaxNonces
    /\ probes' = probes + 1
    /\ Send(NewProbe(c, k, candidates[c][known[c][k].TargetNode]))
    /\ Probed(c, k)
    /\ UNCHANGED <<clock, coordVars, life, born, mapVars, pathVars, recv, payloads>>

\* sendProbe: the nonce is pending before the datagram leaves.
SendProbe(c, k) ==
    /\ poll[c].pc = "probe"
    /\ k \in poll[c].todo
    /\ probes < MaxNonces
    /\ LET ticket == known[c][k]
           target == ticket.TargetNode
       IN /\ probes' = probes + 1
          /\ pending' = [pending EXCEPT ![c] = Put(@, probes + 1,
                            [ticket |-> ticket, id |-> k, target |-> target, sentAt |-> clock])]
          /\ Send(NewProbe(c, k, candidates[c][target]))
    /\ Probed(c, k)
    /\ UNCHANGED <<clock, coordVars, life, born, known, candidates, lastIssued, pathVars,
                   recv, payloads>>

\* WriteToUDP fails and the pending entry is removed again.
ProbeFails(c, k) ==
    /\ poll[c].pc = "probe"
    /\ k \in poll[c].todo
    /\ Probed(c, k)
    /\ UNCHANGED <<clock, coordVars, life, born, mapVars, pathVars, recv, netVars>>

PollStep(c) ==
    \/ PollTickets(c) \/ PollCandidates(c) \/ CandidatesFail(c)
    \/ \E n \in Client : IssueTicket(c, n) \/ IssueFails(c, n)
    \/ \E k \in 1..issued : SendProbe(c, k) \/ ProbeFails(c, k)

------------------------------------------------------------------------------
(* The receive loop *)

Receives(c, state) == recv' = [recv EXCEPT ![c] = state]

\* A datagram that did not come from the relay: its ticket is looked up, then
\* the time is read.
Receive(c, m) ==
    /\ recv[c].pc = "idle"
    /\ m.dest = <<c, life[c]>>
    /\ m.ticket \in DOMAIN known[c]
    /\ Receives(c, [pc |-> "verify", msg |-> m, ticket |-> known[c][m.ticket], now |-> clock])
    /\ UNCHANGED <<clock, coordVars, life, born, mapVars, pathVars, poll, netVars>>

\* VerifyProbe: the probe runs from the source of its ticket to the target,
\* which is this node, and the ticket has not expired.
VerifyProbe(c) ==
    LET m == recv[c].msg IN
    /\ m.type = "probe"
    /\ m.to = c /\ m.to = recv[c].ticket.TargetNode /\ m.from = recv[c].ticket.SourceNode
    /\ Live(recv[c].ticket, recv[c].now)

\* NewProbeAck: the nonce and the ticket of the probe, its direction reversed.
NewProbeAck(c, probe) ==
    [type |-> "ack", ticket |-> probe.ticket, nonce |-> probe.nonce, from |-> probe.to,
     to |-> probe.from, source |-> <<c, life[c]>>, dest |-> probe.source]

\* HandleDatagram, a probe: an acknowledgement goes back to where it came from.
AnswerProbe(c) ==
    /\ recv[c].pc = "verify"
    /\ VerifyProbe(c)
    /\ Send(NewProbeAck(c, recv[c].msg))
    /\ Receives(c, Idle)
    /\ UNCHANGED <<clock, coordVars, life, born, mapVars, pathVars, poll, probes, payloads>>

\* selector.MarkDirectHealthy
Healthy(c, n, endpoint, now) ==
    direct' = [direct EXCEPT ![c] = Put(@, n, [endpoint |-> endpoint, until |-> now + DirectTTL])]

\* VerifyProbeAck: it answers a probe that is pending here, whose ticket has not
\* expired.
VerifyProbeAck(c) ==
    LET m == recv[c].msg IN
    /\ m.type = "ack"
    /\ m.nonce \in DOMAIN pending[c]
    /\ LET probe == pending[c][m.nonce] IN
        m.from = probe.target /\ m.to = c /\ m.ticket = probe.id /\ Live(probe.ticket, recv[c].now)

\* HandleDatagram, an acknowledgement: it consumes the nonce it answers.
AcceptAck(c) ==
    /\ recv[c].pc = "verify"
    /\ VerifyProbeAck(c)
    /\ LET m == recv[c].msg IN
        /\ pending' = [pending EXCEPT ![c] = Drop(@, {m.nonce})]
        /\ Healthy(c, pending[c][m.nonce].target, m.source, recv[c].now)
    /\ Receives(c, Idle)
    /\ UNCHANGED <<clock, coordVars, life, born, known, candidates, lastIssued, replay, written,
                   poll, netVars>>

\* Mutant of OpenDirectPayload: the expiry of the ticket is not looked at.
OpenDirectPayloadExpired(c) ==
    LET m == recv[c].msg IN
    /\ m.type = "data"
    /\ m.to = c
    /\ {m.from, m.to} = {recv[c].ticket.SourceNode, recv[c].ticket.TargetNode}

\* OpenDirectPayload: the payload is meant for this node and comes from the other
\* node of its ticket, which has not expired.
OpenDirectPayload(c) ==
    LET m == recv[c].msg IN
    /\ m.type = "data"
    /\ m.to = c
    /\ {m.from, m.to} = {recv[c].ticket.SourceNode, recv[c].ticket.TargetNode}
    /\ Live(recv[c].ticket, recv[c].now)

\* acceptDirectReplayKey prunes what has expired, then looks.
FreshKeys(c, now) == Drop(replay[c], {x \in DOMAIN replay[c] : now >= replay[c][x]})

\* HandleDirectPayload: the sender must be a candidate and the key unseen.
AcceptPayload(c) ==
    /\ recv[c].pc = "verify"
    /\ OpenDirectPayload(c)
    /\ LET m == recv[c].msg
           now == recv[c].now
       IN /\ m.from \in DOMAIN candidates[c]
          /\ m.nonce \notin DOMAIN FreshKeys(c, now)
          /\ replay' = [replay EXCEPT ![c] = Put(FreshKeys(c, now), m.nonce, recv[c].ticket.ExpiresAt)]
          /\ Healthy(c, m.from, m.source, now)
          /\ written' = [written EXCEPT ![c] = Append(@, m.nonce)]
    /\ Receives(c, Idle)
    /\ UNCHANGED <<clock, coordVars, life, born, mapVars, poll, netVars>>

\* The datagram is dropped: it does not verify, its sender is no candidate, it is
\* a replay (which prunes the cache), or the acknowledgement cannot be sent.
DropDatagram(c) ==
    /\ recv[c].pc = "verify"
    /\ LET m == recv[c].msg
           opens == OpenDirectPayload(c) /\ m.from \in DOMAIN candidates[c]
       IN \/ m.type = "probe" /\ UNCHANGED replay
          \/ m.type = "ack" /\ ~VerifyProbeAck(c) /\ UNCHANGED replay
          \/ m.type = "data" /\ ~opens /\ UNCHANGED replay
          \/ /\ opens /\ m.nonce \in DOMAIN FreshKeys(c, recv[c].now)
             /\ replay' = [replay EXCEPT ![c] = FreshKeys(c, recv[c].now)]
    /\ Receives(c, Idle)
    /\ UNCHANGED <<clock, coordVars, life, born, mapVars, direct, written, poll, netVars>>

RecvStep(c) == AnswerProbe(c) \/ AcceptAck(c) \/ AcceptPayload(c) \/ DropDatagram(c)

------------------------------------------------------------------------------
(* The TUN loop: SendDirectPayload *)

LiveTickets(c, n) ==
    {k \in DOMAIN known[c] :
        {known[c][k].SourceNode, known[c][k].TargetNode} = {c, n} /\ Live(known[c][k], clock)}

\* selector.Select says direct.
PathIsDirect(c, n) == n \in DOMAIN direct[c] /\ clock < direct[c][n].until

SealDirectPayload(c, n, k) ==
    [type |-> "data", ticket |-> k, nonce |-> payloads + 1, from |-> c, to |-> n,
     source |-> <<c, life[c]>>, dest |-> direct[c][n].endpoint]

SendDirect(c, n) ==
    /\ n \in DOMAIN candidates[c]
    /\ PathIsDirect(c, n)
    /\ payloads < MaxPayloads
    /\ \E k \in LiveTickets(c, n) : Send(SealDirectPayload(c, n, k))
    /\ payloads' = payloads + 1
    /\ UNCHANGED <<clock, coordVars, life, born, mapVars, pathVars, poll, recv, probes>>

\* The write fails: MarkDirectFailed, and the packet takes the relay.
SendFails(c, n) ==
    /\ n \in DOMAIN candidates[c]
    /\ PathIsDirect(c, n)
    /\ LiveTickets(c, n) # {}
    /\ direct' = [direct EXCEPT ![c] = Drop(@, {n})]
    /\ UNCHANGED <<clock, coordVars, life, born, mapVars, replay, written, poll, recv, netVars>>

\* Select finds the health expired: the entry goes, the packet takes the relay.
HealthExpires(c, n) ==
    /\ n \in DOMAIN candidates[c] \cap DOMAIN direct[c]
    /\ ~PathIsDirect(c, n)
    /\ direct' = [direct EXCEPT ![c] = Drop(@, {n})]
    /\ UNCHANGED <<clock, coordVars, life, born, mapVars, replay, written, poll, recv, netVars>>

SendStep(c) == \E n \in Client : SendDirect(c, n) \/ SendFails(c, n) \/ HealthExpires(c, n)

------------------------------------------------------------------------------
P2PNext ==
    \/ Tick
    \/ \E r \in stray : StrayIssue(r)
    \/ \E c \in Client :
        \/ Hello(c) \/ LeaseExpires(c) \/ Restart(c)
        \/ PollStep(c)
        \/ \E m \in net : Receive(c, m)
        \/ RecvStep(c)
        \/ SendStep(c)

P2PSpec == P2PInit /\ [][P2PNext]_vars

\* The loops of a client keep running (a request that is not answered ends with
\* the HTTP client's timeout), and neither requests nor datagrams fail for ever:
\* one that is made again and again succeeds in the end.
P2PFairness ==
    \A c \in Client :
        /\ WF_vars(Hello(c)) /\ WF_vars(PollStep(c)) /\ WF_vars(RecvStep(c))
        /\ SF_vars(PollCandidates(c))
        /\ SF_vars(\E n \in Client : IssueTicket(c, n))
        /\ SF_vars(\E k \in 1..issued : SendProbe(c, k))
        /\ \A type \in {"probe", "ack"} :
            SF_vars(\E m \in net : m.type = type /\ Receive(c, m))
        /\ SF_vars(AnswerProbe(c)) /\ SF_vars(AcceptAck(c))

FairP2PSpec == P2PSpec /\ P2PFairness

------------------------------------------------------------------------------
(* Properties *)

Endpoint == Client \X (0..MaxLife)
Ticket == [SourceNode : Client, TargetNode : Client, ExpiresAt : Nat]

\* The state of coordinator and clients has its type.
P2PTypeOK ==
    /\ clock \in 0..MaxTime
    /\ registered \subseteq Client
    /\ IsMap(observed, Client, [endpoint : Endpoint, at : 0..clock])
    /\ IsMap(tickets, 1..MaxTickets, Ticket)
    /\ \A c \in Client :
        /\ IsMap(known[c], 1..MaxTickets, Ticket)
        /\ IsMap(candidates[c], Client \ {c}, Endpoint)
        /\ DOMAIN pending[c] \subseteq 1..probes
        /\ IsMap(lastIssued[c], Client, 0..clock)
        /\ IsMap(direct[c], Client \ {c}, [endpoint : Endpoint, until : Nat])
        /\ IsMap(replay[c], 1..MaxPayloads, Nat)
        /\ poll[c].pc \in {"idle", "candidates", "issue", "probe"}
        /\ recv[c].pc \in {"idle", "verify"}

\* No process writes one direct payload to its TUN twice, however often the
\* network repeats it and however its arrivals straddle the expiry of the
\* ticket, the pruning of the replay cache and the replacement of the tickets.
NoPayloadTwice ==
    \A c \in Client : \A i, j \in 1..Len(written[c]) :
        i # j => written[c][i] # written[c][j]

\* A pair has at most one live ticket at the coordinator, although both nodes
\* poll, replies to issue requests get lost and clients restart: "Lexicographic
\* ownership prevents both peers from continuously issuing tickets for the same
\* pair" (cmd/client/p2p_runtime.go).  The one exception is a request its client
\* gave up on and that the coordinator handled after the client's next list.  It
\* supposes that the clocks of clients and coordinator agree.
OneLiveTicketPerPair ==
    \A j, k \in DOMAIN tickets \ overtaken :
        /\ {tickets[j].SourceNode, tickets[j].TargetNode}
              = {tickets[k].SourceNode, tickets[k].TargetNode}
        /\ Live(tickets[j], clock) /\ Live(tickets[k], clock)
        => j = k

\* A direct path to a process that is gone is given up: late or repeated
\* datagrams of the old process cannot keep it healthy beyond the lifetime of
\* the last ticket it could hold plus the selector's TTL (and, for clocks that
\* differ, plus the difference).
DeadPathBounded ==
    \A c \in Client : \A n \in DOMAIN direct[c] :
        direct[c][n].endpoint # <<n, life[n]>>
            => direct[c][n].until < born[n] + TicketTTL + DirectTTL

\* With a network that keeps delivering, two registered clients find out that
\* the direct path works: candidates, ticket, probe and acknowledgement come
\* together although every request and write of them may fail.
ProbingConverges ==
    \A a, b \in Client :
        a < b => <>(b \in DOMAIN direct[a] \/ ~({a, b} \subseteq registered))
==============================================================================
