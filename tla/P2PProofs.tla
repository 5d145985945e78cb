------------------------------ MODULE P2PProofs ------------------------------
(***************************************************************************)
(* Proofs about the direct path between clients, for any number of         *)
(* clients, restarts, tickets and payloads and any lifetimes.              *)
(*                                                                         *)
(* A ticket is forgotten by the coordinator and by its holders at times of *)
(* their own, so the state alone does not say that two copies of a ticket  *)
(* are equal, or which ticket sealed a payload.  The invariant therefore   *)
(* speaks of two functions that history determines: E, from the tickets    *)
(* ever issued to their contents, and D, from the direct payloads ever     *)
(* sent to their tickets.  It says that they exist, and every step extends *)
(* them or leaves them alone.                                              *)
(***************************************************************************)
EXTENDS P2P, SequenceTheorems, TLAPS

------------------------------------------------------------------------------
(* The types *)

Message ==
    [type : {"probe", "ack", "data"}, ticket : Nat, nonce : Nat, from : Client, to : Client,
     source : Endpoint, dest : Endpoint]

PollState ==
    [pc : {"idle", "candidates"}]
    \cup [pc : {"issue"}, todo : SUBSET Client, at : Nat]
    \cup [pc : {"probe"}, todo : SUBSET Nat]

RecvState ==
    [pc : {"idle"}] \cup [pc : {"verify"}, msg : Message, ticket : Ticket, now : Nat]

Request == [from : Client, to : Client, overtaken : BOOLEAN]

PendingProbe(c) == [ticket : Ticket, id : Nat, target : Client \ {c}, sentAt : Nat]

Path == [endpoint : Endpoint, until : Nat]

PerClient(f) == f = [c \in Client |-> f[c]]

\* The coordinator, the clock and the network.
WorldOK ==
    /\ clock \in 0..MaxTime
    /\ registered \subseteq Client
    /\ IsMap(observed, Client, [endpoint : Endpoint, at : 0..clock])
    /\ issued \in 0..MaxTickets
    /\ IsMap(tickets, 1..issued, Ticket)
    /\ probes \in Nat /\ payloads \in 0..MaxPayloads
    /\ net \subseteq Message
    /\ \A m \in net : m.type = "data" => m.nonce \in 1..payloads
    /\ stray \subseteq Request
    /\ overtaken \subseteq 1..issued

\* Every client has a state.
ClientsOK ==
    /\ PerClient(life) /\ PerClient(born)
    /\ PerClient(known) /\ PerClient(candidates) /\ PerClient(pending) /\ PerClient(lastIssued)
    /\ PerClient(direct) /\ PerClient(replay) /\ PerClient(written)
    /\ PerClient(poll) /\ PerClient(recv)

\* The maps of a client.
MapsOK(c) ==
    /\ life[c] \in 0..MaxLife /\ born[c] \in 0..clock
    /\ IsMap(known[c], 1..issued, Ticket)
    /\ IsMap(candidates[c], Client \ {c}, Endpoint)
    /\ IsMap(pending[c], 1..probes, PendingProbe(c))
    /\ IsMap(lastIssued[c], Client, 0..clock)

\* Its paths, and what it has received.
PathsOK(c) ==
    /\ IsMap(direct[c], Client \ {c}, Path)
    /\ IsMap(replay[c], 1..payloads, Nat)
    /\ written[c] \in Seq(1..payloads)

\* What the poll loop has read of the maps stays true while it works on it: no
\* other loop writes them.
PollOK(c) ==
    /\ poll[c] \in PollState
    /\ poll[c].pc = "issue" => poll[c].todo \subseteq Client \ {c} /\ poll[c].at <= clock
    /\ poll[c].pc = "probe" =>
        \A k \in poll[c].todo :
            k \in DOMAIN known[c] /\ known[c][k].TargetNode \in DOMAIN candidates[c]

RecvOK(c) ==
    /\ recv[c] \in RecvState
    /\ recv[c].pc = "verify" => recv[c].msg \in net /\ recv[c].now <= clock

TypeInv ==
    /\ WorldOK /\ ClientsOK
    /\ \A c \in Client : MapsOK(c) /\ PathsOK(c) /\ PollOK(c) /\ RecvOK(c)

------------------------------------------------------------------------------
(* The invariants *)

\* Whoever holds a ticket, or has probed with it, holds what was issued.
TicketsTrue(E) ==
    /\ E \in [1..issued -> Ticket]
    /\ \A k \in 1..issued : E[k].ExpiresAt <= clock + TicketTTL
    /\ \A k \in DOMAIN tickets : tickets[k] = E[k]
    /\ \A m \in net : m.ticket \in 1..issued
    /\ \A c \in Client :
        /\ \A k \in DOMAIN known[c] : known[c][k] = E[k]
        /\ \A x \in DOMAIN pending[c] :
            pending[c][x].id \in 1..issued /\ pending[c][x].ticket = E[pending[c][x].id]
        /\ recv[c].pc = "verify" => recv[c].ticket = E[recv[c].msg.ticket]

\* The time the receive loop has last acted on is not after this one.
Seen(c) == IF recv[c].pc = "verify" THEN recv[c].now ELSE clock

\* A payload that was written is in the replay cache until its ticket has expired
\* for the receive loop.
PayloadsTrue(E, D) ==
    /\ D \in [1..payloads -> 1..issued]
    /\ \A m \in net : m.type = "data" => m.ticket = D[m.nonce]
    /\ \A c \in Client :
        /\ \A x \in DOMAIN replay[c] : replay[c][x] = E[D[x]].ExpiresAt
        /\ \A i \in 1..Len(written[c]) :
            written[c][i] \notin DOMAIN replay[c] => E[D[written[c][i]]].ExpiresAt <= Seen(c)

\* What a process sent that is gone, it sent under tickets issued before the next
\* process was born.
PathsTrue(E) ==
    /\ \A m \in net :
        m.type # "probe" /\ m.source # <<m.from, life[m.from]>>
            => E[m.ticket].ExpiresAt <= born[m.from] + TicketTTL
    /\ \A c \in Client : \A n \in DOMAIN direct[c] : direct[c][n].until <= clock + DirectTTL

\* The coordinator has a live ticket from c to n that counts.
Serves(k, c, n) ==
    /\ k \in DOMAIN tickets \ overtaken
    /\ tickets[k].SourceNode = c /\ tickets[k].TargetNode = n
    /\ Live(tickets[k], clock)

Served(c, n) == \E k \in DOMAIN tickets : Serves(k, c, n)

\* The smaller node of a pair is the source of its tickets.
Ordered == \A k \in DOMAIN tickets : tickets[k].SourceNode < tickets[k].TargetNode

\* A client has at most one request that it gave up on and that no list of its has
\* overtaken; the pair it is for has no ticket.
StraysTrue ==
    /\ \A r \in stray : r.from < r.to /\ (~r.overtaken => ~Served(r.from, r.to))
    /\ \A r, s \in stray : ~r.overtaken /\ ~s.overtaken /\ r.from = s.from => r = s

\* Between its list and its requests a client knows all tickets it owns at the
\* coordinator, but for those of requests that the list overtook; it asks for
\* those it has not got.  A request it gave up on comes before its next list or is
\* overtaken by it.
PollTrue(c) ==
    /\ poll[c].pc \in {"candidates", "issue"} => \A r \in stray : r.from = c => r.overtaken
    /\ poll[c].pc = "candidates" =>
        \A n \in Client : \A k \in DOMAIN tickets : Serves(k, c, n) => k \in DOMAIN known[c]
    /\ poll[c].pc = "issue" => \A n \in poll[c].todo : c < n /\ ~Served(c, n)

Ownership == Ordered /\ StraysTrue /\ \A c \in Client : PollTrue(c)

P2PInv ==
    /\ TypeInv
    /\ \E E \in [1..issued -> Ticket], D \in [1..payloads -> 1..issued] :
        TicketsTrue(E) /\ PayloadsTrue(E, D) /\ PathsTrue(E)
    /\ Ownership
    /\ NoPayloadTwice /\ DeadPathBounded /\ OneLiveTicketPerPair

------------------------------------------------------------------------------
(* Go maps, and what a step changes of other clients *)

\* Assignment keeps a map's type.
LEMMA PutType ==
    ASSUME NEW m, NEW K, NEW V, IsMap(m, K, V), NEW k \in K, NEW v \in V
    PROVE  IsMap(Put(m, k, v), K, V)
BY DEF IsMap, Put

\* Deletion keeps a map's type.
LEMMA DropType ==
    ASSUME NEW m, NEW K, NEW V, IsMap(m, K, V), NEW X
    PROVE  IsMap(Drop(m, X), K, V)
BY DEF IsMap, Drop, Restrict

\* A map has every larger type.
LEMMA Widen ==
    ASSUME NEW m, NEW K, NEW V, IsMap(m, K, V), NEW L, NEW W, K \subseteq L, V \subseteq W
    PROVE  IsMap(m, L, W)
BY DEF IsMap

\* The empty map has every type.
LEMMA EmptyType ==
    ASSUME NEW K, NEW V
    PROVE  IsMap(Empty, K, V) /\ DOMAIN Empty = {}
BY DEF IsMap, Empty

\* So has a sequence.
LEMMA WidenSeq ==
    ASSUME NEW S, NEW T, S \subseteq T, NEW s \in Seq(S)
    PROVE  s \in Seq(T)
<1>1. Len(s) \in Nat /\ s \in [1..Len(s) -> S]
  BY LenProperties
<1>2. s \in [1..Len(s) -> T]
  BY <1>1
<1> QED
  BY <1>1, <1>2

\* What assignment does to a map.
LEMMA PutFacts ==
    ASSUME NEW m, NEW k, NEW v
    PROVE  /\ DOMAIN Put(m, k, v) = DOMAIN m \cup {k}
           /\ Put(m, k, v)[k] = v
           /\ \A x \in DOMAIN m : x # k => Put(m, k, v)[x] = m[x]
BY DEF Put

\* What deletion does to a map.
LEMMA DropFacts ==
    ASSUME NEW m, NEW X
    PROVE  /\ DOMAIN Drop(m, X) = DOMAIN m \ X
           /\ \A x \in DOMAIN m \ X : Drop(m, X)[x] = m[x]
BY DEF Drop, Restrict

SameMaps(d) ==
    /\ life'[d] = life[d] /\ born'[d] = born[d] /\ known'[d] = known[d]
    /\ candidates'[d] = candidates[d] /\ pending'[d] = pending[d]
    /\ lastIssued'[d] = lastIssued[d]

SamePaths(d) == direct'[d] = direct[d] /\ replay'[d] = replay[d] /\ written'[d] = written[d]

Same(d) == SameMaps(d) /\ SamePaths(d) /\ poll'[d] = poll[d] /\ recv'[d] = recv[d]

\* An action of the client c, or of the world upon it.
ClientStep(c) ==
    \/ Hello(c) \/ LeaseExpires(c) \/ Restart(c)
    \/ PollStep(c)
    \/ \E m \in net : Receive(c, m)
    \/ RecvStep(c)
    \/ SendStep(c)

\* A step of a client changes no other client.
LEMMA OthersRest ==
    ASSUME ClientsOK, NEW c \in Client, ClientStep(c)
    PROVE  ClientsOK' /\ \A d \in Client : d # c => Same(d)
<1> USE DEF ClientsOK, Same, SameMaps, SamePaths, coordVars, ticketVars, strayVars, mapVars,
            pathVars, netVars
<1>1. CASE Hello(c) \/ LeaseExpires(c)
  BY <1>1 DEF Hello, LeaseExpires
<1>2. CASE Restart(c)
  BY <1>2 DEF PerClient, Restart
<1>3. CASE PollStep(c)
  <2>1. CASE PollTickets(c)
    BY <2>1 DEF PerClient, PollTickets, ReplaceTickets, Polls
  <2>2. CASE PollCandidates(c)
    BY <2>2 DEF PerClient, PollCandidates, Continue, Polls
  <2>3. CASE CandidatesFail(c)
    BY <2>3 DEF PerClient, CandidatesFail, Polls
  <2>4. ASSUME NEW n \in Client, IssueTicket(c, n) \/ IssueFails(c, n)
        PROVE  ClientsOK' /\ \A d \in Client : d # c => Same(d)
    BY <2>4 DEF PerClient, IssueTicket, IssueFails, Continue, Polls
  <2>5. ASSUME NEW k \in 1..issued, SendProbe(c, k) \/ ProbeFails(c, k)
        PROVE  ClientsOK' /\ \A d \in Client : d # c => Same(d)
    BY <2>5 DEF PerClient, SendProbe, ProbeFails, Probed, Polls
  <2> QED
    BY <1>3, <2>1, <2>2, <2>3, <2>4, <2>5 DEF PollStep
<1>4. ASSUME NEW m \in net, Receive(c, m)
      PROVE  ClientsOK' /\ \A d \in Client : d # c => Same(d)
  BY <1>4 DEF PerClient, Receive, Receives
<1>5. CASE RecvStep(c)
  <2>1. CASE AnswerProbe(c)
    BY <2>1 DEF PerClient, AnswerProbe, Receives
  <2>2. CASE AcceptAck(c)
    BY <2>2 DEF PerClient, AcceptAck, Receives, Healthy
  <2>3. CASE AcceptPayload(c)
    BY <2>3 DEF PerClient, AcceptPayload, Receives, Healthy
  <2>4. CASE DropDatagram(c)
    BY <2>4 DEF PerClient, DropDatagram, Receives
  <2> QED
    BY <1>5, <2>1, <2>2, <2>3, <2>4 DEF RecvStep
<1>6. ASSUME NEW n \in Client, SendDirect(c, n) \/ SendFails(c, n) \/ HealthExpires(c, n)
      PROVE  ClientsOK' /\ \A d \in Client : d # c => Same(d)
  BY <1>6 DEF PerClient, SendDirect, SendFails, HealthExpires
<1> QED
  BY <1>1, <1>2, <1>3, <1>4, <1>5, <1>6 DEF ClientStep, SendStep

\* Clock, tickets and datagrams only get more.
Grows ==
    /\ clock \in Nat /\ clock' \in Nat /\ clock <= clock'
    /\ issued \in Nat /\ issued' \in Nat /\ issued <= issued'
    /\ probes \in Nat /\ probes' \in Nat /\ probes <= probes'
    /\ payloads \in Nat /\ payloads' \in Nat /\ payloads <= payloads'
    /\ net \subseteq net'

\* Then what a client has keeps its type.
LEMMA TypesRest ==
    ASSUME Grows, NEW d \in Client, Same(d), MapsOK(d), PathsOK(d), PollOK(d), RecvOK(d)
    PROVE  MapsOK(d)' /\ PathsOK(d)' /\ PollOK(d)' /\ RecvOK(d)'
<1> USE DEF Same, SameMaps, SamePaths
<1>1. /\ 1..issued \subseteq 1..issued' /\ 0..clock \subseteq 0..clock'
      /\ 1..probes \subseteq 1..probes' /\ 1..payloads \subseteq 1..payloads'
  BY DEF Grows
<1>2. MapsOK(d)'
  BY <1>1, Widen DEF MapsOK
<1>3. PathsOK(d)'
  <2>1. written[d] \in Seq(1..payloads')
    BY <1>1, WidenSeq DEF PathsOK
  <2> QED
    BY <1>1, <2>1, Widen DEF PathsOK
<1>4. PollOK(d)'
  <2>1. poll[d].pc = "issue" => poll[d].at \in Nat
    BY DEF PollOK, PollState
  <2> QED
    BY <2>1 DEF PollOK, Grows
<1>5. RecvOK(d)'
  <2>1. recv[d].pc = "verify" => recv[d].now \in Nat
    BY DEF RecvOK, RecvState
  <2> QED
    BY <2>1 DEF RecvOK, Grows
<1> QED
  BY <1>2, <1>3, <1>4, <1>5

------------------------------------------------------------------------------
(* The types are kept *)

OK(c) == MapsOK(c) /\ PathsOK(c) /\ PollOK(c) /\ RecvOK(c)

\* For a step of the client c, only c and the world have to be looked at.
LEMMA TypeOfStep ==
    ASSUME TypeInv, NEW c \in Client, ClientStep(c), Grows, WorldOK', OK(c)'
    PROVE  TypeInv'
<1>1. ClientsOK' /\ \A d \in Client : d # c => Same(d)
  BY OthersRest DEF TypeInv
<1>2. ASSUME NEW d \in Client, d # c
      PROVE  MapsOK(d)' /\ PathsOK(d)' /\ PollOK(d)' /\ RecvOK(d)'
  BY <1>1, <1>2, TypesRest DEF TypeInv
<1> QED
  BY <1>1, <1>2 DEF TypeInv, OK

\* Nothing has been issued, sent or remembered at first.
LEMMA TypeInit == P2PInit => TypeInv
<1> SUFFICES ASSUME P2PInit PROVE TypeInv
  OBVIOUS
<1>1. WorldOK
  BY P2PAssumption, TicketAssumption, EmptyType DEF P2PInit, TicketsInit, WorldOK
<1>2. ClientsOK
  BY DEF P2PInit, ClientsOK, PerClient
<1>3. ASSUME NEW c \in Client
      PROVE  MapsOK(c) /\ PathsOK(c) /\ PollOK(c) /\ RecvOK(c)
  <2>1. MapsOK(c)
    BY P2PAssumption, EmptyType DEF P2PInit, TicketsInit, MapsOK
  <2>2. PathsOK(c)
    BY EmptyType DEF P2PInit, PathsOK
  <2>3. PollOK(c) /\ RecvOK(c)
    BY DEF P2PInit, PollOK, RecvOK, PollState, RecvState, Idle
  <2> QED
    BY <2>1, <2>2, <2>3
<1> QED
  BY <1>1, <1>2, <1>3 DEF TypeInv

\* The numbers are natural numbers.
LEMMA Numbers ==
    ASSUME WorldOK
    PROVE  /\ clock \in Nat /\ issued \in Nat /\ probes \in Nat /\ payloads \in Nat
           /\ MaxTime \in Nat /\ MaxTickets \in Nat /\ MaxPayloads \in Nat
           /\ TicketTTL \in Nat \ {0} /\ DirectTTL \in Nat \ {0}
           /\ Client \subseteq Nat
BY P2PAssumption, TicketAssumption DEF WorldOK

\* A client is at the endpoint of its process.
LEMMA OwnEndpoint ==
    ASSUME TypeInv, NEW c \in Client
    PROVE  <<c, life[c]>> \in Endpoint
<1>1. life[c] \in 0..MaxLife
  BY DEF TypeInv, MapsOK
<1> QED
  BY <1>1 DEF Endpoint

\* A ticket is stored; expired ones go.
LEMMA IssueType ==
    ASSUME WorldOK, NEW a \in Client, NEW b \in Client, Issue(a, b, clock)
    PROVE  /\ issued' = issued + 1 /\ issued' \in 0..MaxTickets
           /\ IsMap(tickets', 1..issued', Ticket)
           /\ tickets'[issued'] \in Ticket
<1> DEFINE t == [SourceNode |-> a, TargetNode |-> b, ExpiresAt |-> clock + TicketTTL]
<1>1. issued' = issued + 1 /\ issued < MaxTickets /\ tickets' = Put(Unexpired(clock), issued + 1, t)
  BY DEF Issue
<1>2. t \in Ticket
  BY Numbers DEF Ticket
<1> HIDE DEF t
<1>3. issued' \in 0..MaxTickets /\ issued + 1 \in 1..issued' /\ 1..issued \subseteq 1..issued'
  BY <1>1, Numbers DEF WorldOK
<1>4. IsMap(Unexpired(clock), 1..issued', Ticket)
  <2>1. IsMap(Unexpired(clock), 1..issued, Ticket)
    BY DropType DEF WorldOK, Unexpired
  <2> QED
    BY <1>3, <2>1, Widen
<1>5. IsMap(tickets', 1..issued', Ticket)
  BY <1>1, <1>2, <1>3, <1>4, PutType
<1>6. tickets'[issued'] = t
  <2>1. Put(Unexpired(clock), issued + 1, t)[issued + 1] = t
    BY DEF Put
  <2> QED
    BY <1>1, <2>1
<1> QED
  BY <1>1, <1>2, <1>3, <1>5, <1>6

\* The clock ticks.
LEMMA TickType ==
    ASSUME TypeInv, Tick
    PROVE  TypeInv' /\ Grows
<1> USE DEF Tick, coordVars, ticketVars, strayVars, mapVars, pathVars, netVars
<1>1. Grows /\ clock' \in 0..MaxTime
  BY Numbers DEF TypeInv, Grows
<1>2. WorldOK'
  <2>1. [endpoint : Endpoint, at : 0..clock] \subseteq [endpoint : Endpoint, at : 0..clock']
    BY <1>1 DEF Grows
  <2>2. IsMap(observed, Client, [endpoint : Endpoint, at : 0..clock'])
    BY <2>1, Widen DEF TypeInv, WorldOK
  <2> QED
    BY <1>1, <2>2 DEF TypeInv, WorldOK
<1>3. ClientsOK'
  BY DEF TypeInv, ClientsOK
<1>4. \A d \in Client : Same(d)
  BY DEF Same, SameMaps, SamePaths
<1> QED
  BY <1>1, <1>2, <1>3, <1>4, TypesRest DEF TypeInv

\* The coordinator handles a request nobody waits for.
LEMMA StrayType ==
    ASSUME TypeInv, NEW r \in stray, StrayIssue(r)
    PROVE  TypeInv' /\ Grows
<1> USE DEF StrayIssue, mapVars, pathVars, netVars
<1>1. r.from \in Client /\ r.to \in Client /\ Issue(r.from, r.to, clock)
  BY DEF TypeInv, WorldOK, Request
<1>2. /\ issued' = issued + 1 /\ issued' \in 0..MaxTickets
      /\ IsMap(tickets', 1..issued', Ticket)
  BY <1>1, IssueType DEF TypeInv
<1>3. Grows
  BY <1>2, Numbers DEF TypeInv, Grows
<1>4. WorldOK'
  <2>1. overtaken' \subseteq 1..issued'
    BY <1>2, Numbers DEF TypeInv, WorldOK
  <2> QED
    BY <1>2, <2>1 DEF TypeInv, WorldOK
<1>5. ClientsOK'
  BY DEF TypeInv, ClientsOK
<1>6. \A d \in Client : Same(d)
  BY DEF Same, SameMaps, SamePaths
<1> QED
  BY <1>3, <1>4, <1>5, <1>6, TypesRest DEF TypeInv

\* A keepalive is observed, a lease expires.
LEMMA LeaseType ==
    ASSUME TypeInv, NEW c \in Client, Hello(c) \/ LeaseExpires(c)
    PROVE  TypeInv' /\ Grows
<1> USE DEF strayVars, mapVars, pathVars, netVars
<1>1. Grows
  BY Numbers DEF Hello, LeaseExpires, ForgetNode, ticketVars, TypeInv, Grows
<1>2. Same(c)
  BY DEF Hello, LeaseExpires, Same, SameMaps, SamePaths
<1>3. OK(c)'
  BY <1>1, <1>2, TypesRest DEF TypeInv, OK
<1>4. WorldOK'
  <2>1. CASE Hello(c)
    <3>1. [endpoint |-> <<c, life[c]>>, at |-> clock] \in [endpoint : Endpoint, at : 0..clock]
      BY Numbers, OwnEndpoint DEF TypeInv
    <3>2. IsMap(observed', Client, [endpoint : Endpoint, at : 0..clock])
      BY <2>1, <3>1, PutType DEF Hello, TypeInv, WorldOK
    <3> QED
      BY <2>1, <3>2 DEF Hello, ticketVars, TypeInv, WorldOK
  <2>2. CASE LeaseExpires(c)
    <3>1. /\ IsMap(observed', Client, [endpoint : Endpoint, at : 0..clock])
          /\ IsMap(tickets', 1..issued, Ticket)
      BY <2>2, DropType DEF LeaseExpires, ForgetNode, TypeInv, WorldOK
    <3> QED
      BY <2>2, <3>1 DEF LeaseExpires, ForgetNode, TypeInv, WorldOK
  <2> QED
    BY <2>1, <2>2
<1>5. ClientStep(c)
  BY DEF ClientStep
<1> QED
  BY <1>1, <1>3, <1>4, <1>5, TypeOfStep

\* A client restarts and remembers nothing.
LEMMA RestartType ==
    ASSUME TypeInv, NEW c \in Client, Restart(c)
    PROVE  TypeInv' /\ Grows
<1>1. Grows
  BY Numbers DEF Restart, ticketVars, netVars, TypeInv, Grows
<1>2. WorldOK'
  <2>1. stray' \subseteq Request
    <3>1. UNCHANGED stray \/ \E n \in (IF poll[c].pc = "issue" THEN poll[c].todo ELSE {}) :
                                stray' = stray \cup {[from |-> c, to |-> n, overtaken |-> FALSE]}
      BY DEF Restart, Abandon
    <3>2. poll[c].pc = "issue" => poll[c].todo \subseteq Client
      BY DEF TypeInv, PollOK
    <3>3. stray \subseteq Request
      BY DEF TypeInv, WorldOK
    <3>4. \A n \in Client : [from |-> c, to |-> n, overtaken |-> FALSE] \in Request
      BY DEF Request
    <3> QED
      BY <3>1, <3>2, <3>3, <3>4
  <2> QED
    BY <2>1 DEF Restart, ticketVars, netVars, TypeInv, WorldOK
<1>3. /\ life'[c] = life[c] + 1 /\ born'[c] = clock
      /\ known'[c] = Empty /\ candidates'[c] = Empty /\ pending'[c] = Empty
      /\ lastIssued'[c] = Empty /\ direct'[c] = Empty /\ replay'[c] = Empty
      /\ poll'[c] = Idle /\ recv'[c] = Idle /\ written'[c] = <<>>
  BY DEF Restart, TypeInv, ClientsOK, PerClient
<1>4. OK(c)'
  <2>1. life'[c] \in 0..MaxLife /\ born'[c] \in 0..clock'
    <3>1. life[c] \in 0..MaxLife /\ life[c] < MaxLife /\ MaxLife \in Nat /\ clock' = clock
      BY P2PAssumption DEF TypeInv, MapsOK, Restart
    <3> QED
      BY <1>3, <3>1, Numbers DEF TypeInv
  <2>2. MapsOK(c)' /\ PathsOK(c)'
    BY <1>3, <2>1, EmptyType, EmptySeq DEF MapsOK, PathsOK
  <2>3. PollOK(c)' /\ RecvOK(c)'
    BY <1>3 DEF PollOK, RecvOK, PollState, RecvState, Idle
  <2> QED
    BY <2>2, <2>3 DEF OK
<1>5. ClientStep(c)
  BY DEF ClientStep
<1> QED
  BY <1>1, <1>2, <1>4, <1>5, TypeOfStep

\* The rest of a cycle of the poll loop is one of its states.
LEMMA ContinueType ==
    ASSUME NEW c \in Client, ClientsOK, NEW todo \in SUBSET Client, NEW own \in SUBSET Nat,
           NEW at \in Nat, Continue(c, todo, own, at)
    PROVE  /\ poll'[c] \in PollState
           /\ poll'[c].pc = "issue" => poll'[c].todo = todo /\ poll'[c].at = at
           /\ poll'[c].pc = "probe" => poll'[c].todo = own
           /\ poll'[c].pc # "candidates"
           /\ todo = {} => poll'[c].pc # "issue"
<1>1. \/ todo # {} /\ poll'[c] = [pc |-> "issue", todo |-> todo, at |-> at]
      \/ todo = {} /\ poll'[c] = [pc |-> "probe", todo |-> own]
      \/ todo = {} /\ poll'[c] = Idle
  BY DEF Continue, Polls, ClientsOK, PerClient
<1>2. CASE todo # {} /\ poll'[c] = [pc |-> "issue", todo |-> todo, at |-> at]
  BY <1>2 DEF PollState
<1>3. CASE todo = {} /\ poll'[c] = [pc |-> "probe", todo |-> own]
  BY <1>3 DEF PollState
<1>4. CASE todo = {} /\ poll'[c] = Idle
  BY <1>4 DEF PollState, Idle
<1> QED
  BY <1>1, <1>2, <1>3, <1>4

\* What the list of tickets does to a client: it keeps live tickets of its own
\* and of the list, and forgets old probes.
LEMMA ListFacts ==
    ASSUME TypeInv, NEW c \in Client, PollTickets(c)
    PROVE  /\ tickets' = Unexpired(clock) /\ issued' = issued
           /\ IsMap(tickets', 1..issued, Ticket)
           /\ IsMap(known'[c], 1..issued, Ticket)
           /\ \A k \in DOMAIN known'[c] :
                \/ k \in DOMAIN tickets /\ known'[c][k] = tickets[k]
                \/ k \in DOMAIN known[c] /\ known'[c][k] = known[c][k]
           /\ \A k \in DOMAIN tickets :
                Names(tickets[k], c) /\ Live(tickets[k], clock) => k \in DOMAIN known'[c]
           /\ IsMap(pending'[c], 1..probes, PendingProbe(c))
           /\ \A x \in DOMAIN pending'[c] : x \in DOMAIN pending[c] /\ pending'[c][x] = pending[c][x]
           /\ poll'[c] = [pc |-> "candidates"]
<1> DEFINE L == Restrict(tickets', {k \in DOMAIN tickets' : Names(tickets[k], c)})
           ids == {k \in DOMAIN L : Live(L[k], clock)}
                    \cup {k \in DOMAIN known[c] : Live(known[c][k], clock)}
           old == {x \in DOMAIN pending[c] : clock - pending[c][x].sentAt >= PendingTTL}
<1>1. /\ tickets' = Unexpired(clock) /\ issued' = issued
      /\ known' = [known EXCEPT ![c] = [k \in ids |-> IF k \in DOMAIN L THEN L[k] ELSE known[c][k]]]
      /\ pending' = [pending EXCEPT ![c] = Drop(pending[c], old)]
      /\ poll' = [poll EXCEPT ![c] = [pc |-> "candidates"]]
  BY DEF PollTickets, Prune, ReplaceTickets, Polls
<1>2. /\ DOMAIN tickets' = DOMAIN tickets \ {k \in DOMAIN tickets : clock >= tickets[k].ExpiresAt}
      /\ \A k \in DOMAIN tickets' : tickets'[k] = tickets[k]
      /\ IsMap(tickets', 1..issued, Ticket)
  <2> DEFINE X == {k \in DOMAIN tickets : clock >= tickets[k].ExpiresAt}
  <2>1. tickets' = Drop(tickets, X)
    BY <1>1 DEF Unexpired
  <2> HIDE DEF X
  <2>2. DOMAIN tickets' = DOMAIN tickets \ X /\ \A k \in DOMAIN tickets \ X : tickets'[k] = tickets[k]
    BY <2>1, DropFacts
  <2>3. IsMap(tickets', 1..issued, Ticket)
    BY <2>1, DropType DEF TypeInv, WorldOK
  <2> QED
    BY <2>2, <2>3 DEF X
<1>3. /\ DOMAIN L = {k \in DOMAIN tickets' : Names(tickets[k], c)}
      /\ \A k \in DOMAIN L : k \in DOMAIN tickets /\ L[k] = tickets[k]
  BY <1>2 DEF Restrict
<1>4. /\ known'[c] = [k \in ids |-> IF k \in DOMAIN L THEN L[k] ELSE known[c][k]]
      /\ pending'[c] = Drop(pending[c], old)
      /\ poll'[c] = [pc |-> "candidates"]
  BY <1>1 DEF TypeInv, ClientsOK, PerClient
<1> HIDE DEF L
<1>5. IsMap(tickets, 1..issued, Ticket) /\ IsMap(known[c], 1..issued, Ticket)
  BY DEF TypeInv, WorldOK, MapsOK
<1>6. \A k \in ids :
        \/ k \in DOMAIN L /\ known'[c][k] = tickets[k]
        \/ k \in DOMAIN known[c] /\ known'[c][k] = known[c][k]
  BY <1>3, <1>4
<1>7. DOMAIN known'[c] = ids /\ known'[c] = [k \in ids |-> known'[c][k]]
  BY <1>4
<1>8. IsMap(known'[c], 1..issued, Ticket)
  BY <1>3, <1>5, <1>6, <1>7 DEF IsMap
<1>9. ASSUME NEW k \in DOMAIN tickets, Names(tickets[k], c), Live(tickets[k], clock)
      PROVE  k \in DOMAIN known'[c]
  <2>1. tickets[k].ExpiresAt \in Nat /\ clock \in Nat
    BY <1>5, Numbers DEF IsMap, Ticket, TypeInv
  <2>2. k \in DOMAIN L /\ L[k] = tickets[k]
    BY <1>2, <1>3, <1>9, <2>1 DEF Live
  <2> QED
    BY <1>7, <1>9, <2>2
<1>10. /\ IsMap(pending'[c], 1..probes, PendingProbe(c))
       /\ \A x \in DOMAIN pending'[c] : x \in DOMAIN pending[c] /\ pending'[c][x] = pending[c][x]
  <2>1. IsMap(pending[c], 1..probes, PendingProbe(c))
    BY DEF TypeInv, MapsOK
  <2>2. pending'[c] = Drop(pending[c], old)
    BY <1>4
  <2> HIDE DEF old
  <2>3. IsMap(pending'[c], 1..probes, PendingProbe(c))
    BY <2>1, <2>2, DropType
  <2>4. \A x \in DOMAIN pending'[c] : x \in DOMAIN pending[c] /\ pending'[c][x] = pending[c][x]
    <3> DEFINE m == pending[c]
    <3>1. /\ DOMAIN Drop(m, old) = DOMAIN m \ old
          /\ \A x \in DOMAIN m \ old : Drop(m, old)[x] = m[x]
      BY DropFacts
    <3> QED
      BY <2>2, <3>1
  <2> QED
    BY <2>3, <2>4
<1> QED
  BY <1>1, <1>2, <1>3, <1>4, <1>6, <1>7, <1>8, <1>9, <1>10

\* The list of tickets.
LEMMA PollTicketsType ==
    ASSUME TypeInv, NEW c \in Client, PollTickets(c)
    PROVE  TypeInv' /\ Grows
<1>1. Grows
  <2>1. issued' = issued /\ UNCHANGED <<clock, netVars>>
    BY ListFacts DEF PollTickets
  <2> QED
    BY <2>1, Numbers DEF netVars, TypeInv, Grows
<1>2. WorldOK'
  <2>1. stray' \subseteq Request
    <3>1. stray' = {[r EXCEPT !.overtaken = @ \/ r.from = c] : r \in stray}
      BY DEF PollTickets
    <3>2. ASSUME NEW r \in stray
          PROVE  [r EXCEPT !.overtaken = @ \/ r.from = c] \in Request
      <4>1. r \in Request
        BY DEF TypeInv, WorldOK
      <4> QED
        BY <4>1 DEF Request
    <3> QED
      BY <3>1, <3>2
  <2> QED
    BY <2>1, ListFacts DEF PollTickets, netVars, TypeInv, WorldOK
<1>3. MapsOK(c)'
  BY ListFacts DEF PollTickets, netVars, TypeInv, MapsOK
<1>4. PathsOK(c)' /\ RecvOK(c)'
  BY DEF PollTickets, pathVars, netVars, TypeInv, PathsOK, RecvOK
<1>5. PollOK(c)'
  BY ListFacts DEF PollOK, PollState
<1>6. ClientStep(c)
  BY DEF ClientStep, PollStep
<1> QED
  BY <1>1, <1>2, <1>3, <1>4, <1>5, <1>6, TypeOfStep DEF OK

\* What the probes of a cycle are sent under.
LEMMA ProbesFacts ==
    ASSUME NEW c, NEW held, NEW targets, DOMAIN held \subseteq Nat
    PROVE  /\ Probes(c, held, targets) \in SUBSET Nat
           /\ \A k \in Probes(c, held, targets) :
                k \in DOMAIN held /\ held[k].TargetNode \in targets
BY DEF Probes

\* The list of candidates; fetching it fails.
LEMMA PollCandidatesType ==
    ASSUME TypeInv, NEW c \in Client, PollCandidates(c) \/ CandidatesFail(c)
    PROVE  TypeInv' /\ Grows
<1>1. Grows
  BY Numbers DEF PollCandidates, CandidatesFail, coordVars, ticketVars, netVars, TypeInv, Grows
<1>2. WorldOK'
  BY DEF PollCandidates, CandidatesFail, coordVars, ticketVars, strayVars, netVars, TypeInv, WorldOK
<1>3. PathsOK(c)' /\ RecvOK(c)'
  BY DEF PollCandidates, CandidatesFail, coordVars, pathVars, netVars, TypeInv, PathsOK, RecvOK
<1>4. MapsOK(c)' /\ PollOK(c)'
  <2>1. CASE CandidatesFail(c)
    <3>1. MapsOK(c)'
      BY <2>1 DEF CandidatesFail, coordVars, ticketVars, mapVars, netVars, TypeInv, MapsOK
    <3>2. poll'[c] = Idle
      BY <2>1 DEF CandidatesFail, Polls, TypeInv, ClientsOK, PerClient
    <3> QED
      BY <3>1, <3>2 DEF PollOK, PollState, Idle
  <2>2. CASE PollCandidates(c)
    <3> DEFINE fresh == {n \in (DOMAIN observed \cap registered) \ {c} :
                            clock - observed[n].at <= CandidateMaxAge}
               own == Probes(c, known[c], fresh)
               todo == {n \in fresh : NeedsTicket(c, n, clock)}
    <3>1. /\ candidates' = [candidates EXCEPT ![c] = [n \in fresh |-> observed[n].endpoint]]
          /\ Continue(c, todo, own, clock)
          /\ UNCHANGED <<clock, life, born, known, pending, lastIssued, issued, probes>>
      BY <2>2 DEF PollCandidates, coordVars, ticketVars, netVars
    <3>2. candidates'[c] = [n \in fresh |-> observed[n].endpoint]
      BY <3>1 DEF TypeInv, ClientsOK, PerClient
    <3>3. fresh \subseteq Client \ {c} /\ todo \subseteq fresh
      BY DEF TypeInv, WorldOK
    <3>4. IsMap(candidates'[c], Client \ {c}, Endpoint)
      BY <3>2, <3>3 DEF TypeInv, WorldOK, IsMap
    <3>5. DOMAIN candidates'[c] = fresh
      BY <3>2
    <3>6. MapsOK(c)'
      BY <3>1, <3>4 DEF TypeInv, MapsOK
    <3>7. DOMAIN known[c] \subseteq Nat /\ clock \in Nat
      BY Numbers DEF TypeInv, MapsOK, IsMap
    <3> HIDE DEF fresh, own, todo
    <3>8. /\ own \in SUBSET Nat
          /\ \A k \in own : k \in DOMAIN known[c] /\ known[c][k].TargetNode \in fresh
      BY <3>7, ProbesFacts DEF own
    <3>9. /\ poll'[c] \in PollState
          /\ poll'[c].pc = "issue" => poll'[c].todo = todo /\ poll'[c].at = clock
          /\ poll'[c].pc = "probe" => poll'[c].todo = own
      BY <3>1, <3>3, <3>7, <3>8, ContinueType DEF TypeInv
    <3>10. PollOK(c)'
      <4>1. poll'[c].pc = "issue" =>
                poll'[c].todo \subseteq Client \ {c} /\ poll'[c].at <= clock'
        BY <3>1, <3>3, <3>7, <3>9
      <4>2. known'[c] = known[c]
        BY <3>1
      <4> QED
        BY <4>1, <4>2, <3>5, <3>8, <3>9 DEF PollOK
    <3> QED
      BY <3>6, <3>10
  <2> QED
    BY <2>1, <2>2
<1>5. ClientStep(c)
  BY DEF ClientStep, PollStep
<1> QED
  BY <1>1, <1>2, <1>3, <1>4, <1>5, TypeOfStep DEF OK

\* A ticket is issued to the client.
LEMMA IssueTicketType ==
    ASSUME TypeInv, NEW c \in Client, NEW n \in Client, IssueTicket(c, n)
    PROVE  TypeInv' /\ Grows
<1>1. /\ issued' = issued + 1 /\ issued' \in 0..MaxTickets
      /\ IsMap(tickets', 1..issued', Ticket)
      /\ tickets'[issued'] \in Ticket
  BY IssueType DEF TypeInv, IssueTicket
<1>2. Grows
  BY <1>1, Numbers DEF IssueTicket, netVars, TypeInv, Grows
<1>3. WorldOK'
  <2>1. overtaken \subseteq 1..issued'
    BY <1>1, Numbers DEF TypeInv, WorldOK
  <2> QED
    BY <1>1, <2>1 DEF IssueTicket, strayVars, netVars, TypeInv, WorldOK
<1>4. PathsOK(c)' /\ RecvOK(c)'
  BY DEF IssueTicket, pathVars, netVars, TypeInv, PathsOK, RecvOK
<1> DEFINE todo == poll[c].todo \ {n}
           own == Probes(c, known'[c], DOMAIN candidates[c])
<1>5. /\ known'[c] = Put(known[c], issued', tickets'[issued'])
      /\ lastIssued'[c] = Put(lastIssued[c], n, poll[c].at)
      /\ Continue(c, todo, own, poll[c].at)
      /\ UNCHANGED <<clock, life, born, candidates, pending, probes>>
  BY DEF IssueTicket, netVars, TypeInv, ClientsOK, PerClient
<1>6. todo \subseteq Client \ {c} /\ poll[c].at \in 0..clock /\ poll[c].at \in Nat
  BY Numbers DEF IssueTicket, TypeInv, PollOK, PollState
<1>7. IsMap(known'[c], 1..issued', Ticket)
  <2>1. 1..issued \subseteq 1..issued' /\ issued' \in 1..issued'
    BY <1>1, Numbers DEF TypeInv
  <2>2. IsMap(known[c], 1..issued', Ticket)
    BY <2>1, Widen DEF TypeInv, MapsOK
  <2> QED
    BY <1>1, <1>5, <2>1, <2>2, PutType
<1>8. IsMap(lastIssued'[c], Client, 0..clock)
  <2>1. IsMap(lastIssued[c], Client, 0..clock)
    BY DEF TypeInv, MapsOK
  <2>2. IsMap(Put(lastIssued[c], n, poll[c].at), Client, 0..clock)
    BY <2>1, <1>6, PutType
  <2> QED
    BY <2>2, <1>5
<1>9. MapsOK(c)'
  BY <1>5, <1>7, <1>8 DEF TypeInv, MapsOK
<1>10. PollOK(c)'
  <2>1. DOMAIN known'[c] \subseteq Nat
    BY <1>7 DEF IsMap
  <2> HIDE DEF own, todo
  <2>2. /\ own \in SUBSET Nat
        /\ \A k \in own : k \in DOMAIN known'[c] /\ known'[c][k].TargetNode \in DOMAIN candidates[c]
    BY <2>1, ProbesFacts DEF own
  <2>3. /\ poll'[c] \in PollState
        /\ poll'[c].pc = "issue" => poll'[c].todo = todo /\ poll'[c].at = poll[c].at
        /\ poll'[c].pc = "probe" => poll'[c].todo = own
    BY <1>5, <1>6, <2>2, ContinueType DEF TypeInv
  <2> QED
    BY <1>5, <1>6, <2>2, <2>3 DEF PollOK
<1>11. ClientStep(c)
  BY DEF ClientStep, PollStep
<1> QED
  BY <1>2, <1>3, <1>4, <1>9, <1>10, <1>11, TypeOfStep DEF OK

\* Issuing fails, perhaps with the request still under way.
LEMMA IssueFailsType ==
    ASSUME TypeInv, NEW c \in Client, NEW n \in Client, IssueFails(c, n)
    PROVE  TypeInv' /\ Grows
<1>1. Grows
  BY Numbers DEF IssueFails, ticketVars, netVars, TypeInv, Grows
<1>2. WorldOK'
  <2>1. stray' = stray \/ stray' = stray \cup {[from |-> c, to |-> n, overtaken |-> FALSE]}
    BY DEF IssueFails, Abandon
  <2>2. [from |-> c, to |-> n, overtaken |-> FALSE] \in Request
    BY DEF Request
  <2>3. stray' \subseteq Request
    BY <2>1, <2>2 DEF TypeInv, WorldOK
  <2> QED
    BY <2>3 DEF IssueFails, ticketVars, netVars, TypeInv, WorldOK
<1>3. PathsOK(c)' /\ RecvOK(c)' /\ MapsOK(c)'
  BY DEF IssueFails, ticketVars, mapVars, pathVars, netVars, TypeInv, PathsOK, RecvOK, MapsOK
<1>4. PollOK(c)'
  <2> DEFINE own == Probes(c, known[c], DOMAIN candidates[c])
  <2>1. DOMAIN known[c] \subseteq Nat /\ poll[c].at \in Nat
    BY DEF TypeInv, MapsOK, IsMap, PollOK, PollState, IssueFails
  <2>2. Continue(c, {}, own, poll[c].at) /\ UNCHANGED <<known, candidates>>
    BY DEF IssueFails, mapVars
  <2> HIDE DEF own
  <2>3. /\ own \in SUBSET Nat
        /\ \A k \in own : k \in DOMAIN known[c] /\ known[c][k].TargetNode \in DOMAIN candidates[c]
    BY <2>1, ProbesFacts DEF own
  <2>4. /\ poll'[c] \in PollState /\ poll'[c].pc # "issue"
        /\ poll'[c].pc = "probe" => poll'[c].todo = own
    BY <2>1, <2>2, <2>3, ContinueType DEF TypeInv
  <2> QED
    BY <2>2, <2>3, <2>4 DEF PollOK
<1>5. ClientStep(c)
  BY DEF ClientStep, PollStep
<1> QED
  BY <1>1, <1>2, <1>3, <1>4, <1>5, TypeOfStep DEF OK

\* The next probe, sent or not.
LEMMA ProbedFacts ==
    ASSUME TypeInv, NEW c \in Client, NEW k, poll[c].pc = "probe", Probed(c, k)
    PROVE  poll'[c] = Idle \/ poll'[c] = [pc |-> "probe", todo |-> poll[c].todo \ {k}]
<1>1. poll[c] \in [pc : {"probe"}, todo : SUBSET Nat]
  BY DEF TypeInv, PollOK, PollState
<1>2. poll'[c] = Idle \/ poll'[c] = [poll[c] EXCEPT !.todo = poll[c].todo \ {k}]
  BY DEF Probed, Polls, TypeInv, ClientsOK, PerClient
<1> QED
  BY <1>1, <1>2

\* The poll loop goes on as long as there are probes to send.
LEMMA ProbedType ==
    ASSUME TypeInv, NEW c \in Client, NEW k, poll[c].pc = "probe", Probed(c, k),
           known'[c] = known[c], candidates'[c] = candidates[c]
    PROVE  PollOK(c)'
<1>1. poll'[c] = Idle \/ poll'[c] = [pc |-> "probe", todo |-> poll[c].todo \ {k}]
  BY ProbedFacts
<1>2. poll[c].todo \in SUBSET Nat
  BY DEF TypeInv, PollOK, PollState
<1>3. CASE poll'[c] = Idle
  BY <1>3 DEF PollOK, PollState, Idle
<1>4. CASE poll'[c] = [pc |-> "probe", todo |-> poll[c].todo \ {k}]
  BY <1>2, <1>4 DEF PollOK, PollState, TypeInv
<1> QED
  BY <1>1, <1>3, <1>4

\* What a probe is and what is remembered of it.
LEMMA SendProbeFacts ==
    ASSUME TypeInv, NEW c \in Client, NEW k \in 1..issued, SendProbe(c, k)
    PROVE  /\ k \in DOMAIN known[c] /\ known[c][k] \in Ticket
           /\ known[c][k].TargetNode \in DOMAIN candidates[c]
           /\ probes' = probes + 1
           /\ pending'[c] = Put(pending[c], probes + 1,
                [ticket |-> known[c][k], id |-> k, target |-> known[c][k].TargetNode,
                 sentAt |-> clock])
           /\ \E m \in Message :
                net' = net \cup {m} /\ m.type = "probe" /\ m.ticket = k
<1> DEFINE t == known[c][k]
           m == NewProbe(c, k, candidates[c][t.TargetNode])
<1>1. /\ poll[c].pc = "probe" /\ k \in poll[c].todo
      /\ probes' = probes + 1 /\ net' = net \cup {m}
      /\ pending' = [pending EXCEPT ![c] = Put(pending[c], probes + 1,
                [ticket |-> t, id |-> k, target |-> t.TargetNode, sentAt |-> clock])]
  BY DEF SendProbe, Send
<1>2. k \in DOMAIN known[c] /\ t.TargetNode \in DOMAIN candidates[c]
  BY <1>1 DEF TypeInv, PollOK
<1>3. t \in Ticket /\ candidates[c][t.TargetNode] \in Endpoint
  BY <1>2 DEF TypeInv, MapsOK, IsMap
<1>4. m \in Message /\ m.type = "probe" /\ m.ticket = k
  <2>1. t.SourceNode \in Client /\ t.TargetNode \in Client /\ <<c, life[c]>> \in Endpoint
    BY <1>3, OwnEndpoint DEF Ticket
  <2>2. probes + 1 \in Nat /\ k \in Nat
    BY Numbers DEF TypeInv
  <2> QED
    BY <1>3, <2>1, <2>2 DEF NewProbe, Message
<1>5. pending'[c] = Put(pending[c], probes + 1,
                [ticket |-> t, id |-> k, target |-> t.TargetNode, sentAt |-> clock])
  BY <1>1 DEF TypeInv, ClientsOK, PerClient
<1> QED
  BY <1>1, <1>2, <1>3, <1>4, <1>5

\* A probe is sent.
LEMMA SendProbeType ==
    ASSUME TypeInv, NEW c \in Client, NEW k \in 1..issued, SendProbe(c, k)
    PROVE  TypeInv' /\ Grows
<1>1. PICK m \in Message : net' = net \cup {m} /\ m.type = "probe"
  BY SendProbeFacts
<1>2. Grows
  BY <1>1, SendProbeFacts, Numbers DEF SendProbe, coordVars, ticketVars, TypeInv, Grows
<1>3. WorldOK'
  BY <1>1, <1>2 DEF SendProbe, coordVars, ticketVars, strayVars, Grows, TypeInv, WorldOK
<1>4. PathsOK(c)' /\ RecvOK(c)'
  BY <1>1 DEF SendProbe, pathVars, TypeInv, PathsOK, RecvOK
<1>5. MapsOK(c)'
  <2> DEFINE p == [ticket |-> known[c][k], id |-> k, target |-> known[c][k].TargetNode,
                   sentAt |-> clock]
  <2>1. p \in PendingProbe(c)
    <3>1. /\ known[c][k] \in Ticket /\ known[c][k].TargetNode \in Client \ {c}
          /\ k \in Nat /\ clock \in Nat
      <4>1. /\ known[c][k] \in Ticket
            /\ known[c][k].TargetNode \in DOMAIN candidates[c]
        BY SendProbeFacts
      <4>2. DOMAIN candidates[c] \subseteq Client \ {c}
        BY DEF TypeInv, MapsOK, IsMap
      <4>3. k \in Nat /\ clock \in Nat
        BY Numbers DEF TypeInv
      <4> QED
        BY <4>1, <4>2, <4>3
    <3> QED
      BY <3>1 DEF PendingProbe
  <2>2. pending'[c] = Put(pending[c], probes + 1, p)
    BY SendProbeFacts
  <2> HIDE DEF p
  <2>3. 1..probes \subseteq 1..probes' /\ probes + 1 \in 1..probes'
    <3>1. probes' = probes + 1
      BY SendProbeFacts
    <3>2. probes \in Nat
      BY Numbers DEF TypeInv
    <3> QED
      BY <3>1, <3>2
  <2>4. IsMap(pending[c], 1..probes', PendingProbe(c))
    BY <2>3, Widen DEF TypeInv, MapsOK
  <2>5. IsMap(pending'[c], 1..probes', PendingProbe(c))
    BY <2>1, <2>2, <2>3, <2>4, PutType
  <2> QED
    BY <2>5 DEF SendProbe, coordVars, ticketVars, TypeInv, MapsOK
<1>6. PollOK(c)'
  BY ProbedType DEF SendProbe
<1>7. ClientStep(c)
  BY DEF ClientStep, PollStep
<1> QED
  BY <1>2, <1>3, <1>4, <1>5, <1>6, <1>7, TypeOfStep DEF OK

\* A probe is not sent.
LEMMA ProbeFailsType ==
    ASSUME TypeInv, NEW c \in Client, NEW k \in 1..issued, ProbeFails(c, k)
    PROVE  TypeInv' /\ Grows
<1> USE DEF ProbeFails, coordVars, ticketVars, strayVars, mapVars, pathVars, netVars
<1>1. Grows
  BY Numbers DEF TypeInv, Grows
<1>2. WorldOK'
  BY DEF TypeInv, WorldOK
<1>3. PathsOK(c)' /\ RecvOK(c)' /\ MapsOK(c)'
  BY DEF TypeInv, PathsOK, RecvOK, MapsOK
<1>4. PollOK(c)'
  BY ProbedType
<1>5. ClientStep(c)
  BY DEF ClientStep, PollStep
<1> QED
  BY <1>1, <1>2, <1>3, <1>4, <1>5, TypeOfStep DEF OK

\* A datagram arrives.
LEMMA ReceiveType ==
    ASSUME TypeInv, NEW c \in Client, NEW m \in net, Receive(c, m)
    PROVE  TypeInv' /\ Grows
<1> USE DEF Receive, coordVars, ticketVars, strayVars, mapVars, pathVars, netVars
<1>1. Grows
  BY Numbers DEF TypeInv, Grows
<1>2. WorldOK'
  BY DEF TypeInv, WorldOK
<1>3. PathsOK(c)' /\ PollOK(c)' /\ MapsOK(c)'
  BY DEF TypeInv, PathsOK, PollOK, MapsOK
<1>4. RecvOK(c)'
  <2>1. recv'[c] = [pc |-> "verify", msg |-> m, ticket |-> known[c][m.ticket], now |-> clock]
    BY DEF Receives, TypeInv, ClientsOK, PerClient
  <2>2. m \in Message /\ known[c][m.ticket] \in Ticket /\ clock \in Nat /\ clock <= clock'
    BY Numbers DEF TypeInv, WorldOK, MapsOK, IsMap
  <2>3. recv'[c] \in RecvState
    BY <2>1, <2>2 DEF RecvState
  <2> QED
    BY <2>1, <2>2, <2>3 DEF RecvOK
<1>5. ClientStep(c)
  BY DEF ClientStep
<1> QED
  BY <1>1, <1>2, <1>3, <1>4, <1>5, TypeOfStep DEF OK

\* The receive loop is done with a datagram.
LEMMA ReceivedType ==
    ASSUME ClientsOK, NEW c \in Client, Receives(c, Idle)
    PROVE  recv'[c] = Idle /\ RecvOK(c)'
BY DEF Receives, ClientsOK, PerClient, RecvOK, RecvState, Idle

\* What the receive loop works on.
LEMMA VerifyFacts ==
    ASSUME TypeInv, NEW c \in Client, recv[c].pc = "verify"
    PROVE  /\ recv[c].msg \in net /\ recv[c].msg \in Message /\ recv[c].ticket \in Ticket
           /\ recv[c].now \in 0..clock /\ recv[c].now \in Nat
<1>1. recv[c] \in [pc : {"verify"}, msg : Message, ticket : Ticket, now : Nat]
  BY DEF TypeInv, RecvOK, RecvState
<1>2. recv[c].msg \in net /\ recv[c].now <= clock /\ clock \in Nat
  BY Numbers DEF TypeInv, RecvOK
<1> QED
  BY <1>1, <1>2

\* An acknowledgement is sent.
LEMMA AnswerProbeType ==
    ASSUME TypeInv, NEW c \in Client, AnswerProbe(c)
    PROVE  TypeInv' /\ Grows
<1> USE DEF AnswerProbe, coordVars, ticketVars, strayVars, mapVars, pathVars
<1>1. NewProbeAck(c, recv[c].msg) \in Message /\ NewProbeAck(c, recv[c].msg).type = "ack"
  <2>1. recv[c].msg \in Message /\ <<c, life[c]>> \in Endpoint
    BY VerifyFacts, OwnEndpoint
  <2> QED
    BY <2>1 DEF NewProbeAck, Message
<1>2. net' = net \cup {NewProbeAck(c, recv[c].msg)}
  BY DEF Send
<1>3. Grows
  BY <1>2, Numbers DEF TypeInv, Grows
<1>4. WorldOK'
  BY <1>1, <1>2 DEF TypeInv, WorldOK
<1>5. PathsOK(c)' /\ PollOK(c)' /\ MapsOK(c)'
  BY DEF TypeInv, PathsOK, PollOK, MapsOK
<1>6. RecvOK(c)'
  BY ReceivedType DEF TypeInv
<1>7. ClientStep(c)
  BY DEF ClientStep, RecvStep
<1> QED
  BY <1>3, <1>4, <1>5, <1>6, <1>7, TypeOfStep DEF OK

\* MarkDirectHealthy.
LEMMA HealthyFacts ==
    ASSUME TypeInv, NEW c \in Client, NEW n \in Client \ {c}, NEW e \in Endpoint, NEW now \in Nat,
           Healthy(c, n, e, now)
    PROVE  /\ direct'[c] = Put(direct[c], n, [endpoint |-> e, until |-> now + DirectTTL])
           /\ IsMap(direct'[c], Client \ {c}, Path)
<1> DEFINE p == [endpoint |-> e, until |-> now + DirectTTL]
<1>1. direct'[c] = Put(direct[c], n, p)
  BY DEF Healthy, TypeInv, ClientsOK, PerClient
<1>2. p \in Path
  BY Numbers DEF TypeInv, Path
<1> HIDE DEF p
<1>3. IsMap(direct[c], Client \ {c}, Path)
  BY DEF TypeInv, PathsOK
<1>4. IsMap(direct'[c], Client \ {c}, Path)
  BY <1>1, <1>2, <1>3, PutType
<1> QED
  BY <1>1, <1>4 DEF p

\* An acknowledgement is accepted.
LEMMA AckFacts ==
    ASSUME TypeInv, NEW c \in Client, AcceptAck(c)
    PROVE  LET m == recv[c].msg
               x == m.nonce
           IN /\ m \in net /\ m \in Message /\ m.type = "ack"
              /\ x \in DOMAIN pending[c] /\ pending[c][x] \in PendingProbe(c)
              /\ m.from = pending[c][x].target /\ m.ticket = pending[c][x].id
              /\ m.from \in Client \ {c}
              /\ Live(pending[c][x].ticket, recv[c].now)
              /\ pending'[c] = Drop(pending[c], {x})
              /\ direct'[c] = Put(direct[c], m.from,
                                  [endpoint |-> m.source, until |-> recv[c].now + DirectTTL])
              /\ IsMap(direct'[c], Client \ {c}, Path)
<1> DEFINE m == recv[c].msg
           x == m.nonce
<1>1. /\ m \in net /\ m \in Message /\ recv[c].now \in Nat
  BY VerifyFacts DEF AcceptAck
<1>2. /\ m.type = "ack" /\ x \in DOMAIN pending[c]
      /\ m.from = pending[c][x].target /\ m.ticket = pending[c][x].id
      /\ Live(pending[c][x].ticket, recv[c].now)
      /\ Healthy(c, pending[c][x].target, m.source, recv[c].now)
      /\ pending' = [pending EXCEPT ![c] = Drop(pending[c], {x})]
  BY DEF AcceptAck, VerifyProbeAck
<1>3. pending[c][x] \in PendingProbe(c)
  BY <1>2 DEF TypeInv, MapsOK, IsMap
<1>4. m.from \in Client \ {c} /\ m.source \in Endpoint
  BY <1>1, <1>2, <1>3 DEF PendingProbe, Message
<1>5. pending'[c] = Drop(pending[c], {x})
  BY <1>2 DEF TypeInv, ClientsOK, PerClient
<1> HIDE DEF m
<1>6. /\ direct'[c] = Put(direct[c], m.from,
                          [endpoint |-> m.source, until |-> recv[c].now + DirectTTL])
      /\ IsMap(direct'[c], Client \ {c}, Path)
  BY <1>1, <1>2, <1>4, HealthyFacts
<1> QED
  BY <1>1, <1>2, <1>3, <1>4, <1>5, <1>6 DEF m

\* An acknowledgement is accepted.
LEMMA AcceptAckType ==
    ASSUME TypeInv, NEW c \in Client, AcceptAck(c)
    PROVE  TypeInv' /\ Grows
<1> USE DEF AcceptAck, coordVars, ticketVars, strayVars, netVars
<1>1. Grows
  BY Numbers DEF TypeInv, Grows
<1>2. WorldOK'
  BY DEF TypeInv, WorldOK
<1>3. PathsOK(c)'
  <2>1. IsMap(direct'[c], Client \ {c}, Path)
    BY AckFacts
  <2> QED
    BY <2>1 DEF TypeInv, PathsOK
<1>4. MapsOK(c)'
  <2>1. IsMap(pending'[c], 1..probes, PendingProbe(c))
    <3>1. IsMap(pending[c], 1..probes, PendingProbe(c)) /\ pending'[c] = Drop(pending[c], {recv[c].msg.nonce})
      BY AckFacts DEF TypeInv, MapsOK
    <3> QED
      BY <3>1, DropType
  <2> QED
    BY <2>1 DEF TypeInv, MapsOK
<1>5. PollOK(c)' /\ RecvOK(c)'
  BY ReceivedType DEF TypeInv, PollOK
<1>6. ClientStep(c)
  BY DEF ClientStep, RecvStep
<1> QED
  BY <1>1, <1>2, <1>3, <1>4, <1>5, <1>6, TypeOfStep DEF OK

\* A payload is accepted.
LEMMA PayloadFacts ==
    ASSUME TypeInv, NEW c \in Client, AcceptPayload(c)
    PROVE  LET m == recv[c].msg
               now == recv[c].now
           IN /\ m \in net /\ m \in Message /\ m.type = "data" /\ m.nonce \in 1..payloads
              /\ m.from \in Client \ {c}
              /\ Live(recv[c].ticket, now)
              /\ m.nonce \notin DOMAIN FreshKeys(c, now)
              /\ replay'[c] = Put(FreshKeys(c, now), m.nonce, recv[c].ticket.ExpiresAt)
              /\ written'[c] = Append(written[c], m.nonce)
              /\ direct'[c] = Put(direct[c], m.from,
                                  [endpoint |-> m.source, until |-> now + DirectTTL])
              /\ IsMap(direct'[c], Client \ {c}, Path)
<1> DEFINE m == recv[c].msg
           now == recv[c].now
<1>1. m \in net /\ m \in Message /\ now \in Nat
  BY VerifyFacts DEF AcceptPayload
<1>2. /\ m.type = "data" /\ Live(recv[c].ticket, now)
      /\ m.from \in DOMAIN candidates[c]
      /\ m.nonce \notin DOMAIN FreshKeys(c, now)
      /\ replay' = [replay EXCEPT ![c] = Put(FreshKeys(c, now), m.nonce, recv[c].ticket.ExpiresAt)]
      /\ Healthy(c, m.from, m.source, now)
      /\ written' = [written EXCEPT ![c] = Append(written[c], m.nonce)]
  BY DEF AcceptPayload, OpenDirectPayload
<1>3. m.nonce \in 1..payloads
  BY <1>1, <1>2 DEF TypeInv, WorldOK
<1>4. m.from \in Client \ {c} /\ m.source \in Endpoint
  BY <1>1, <1>2 DEF TypeInv, MapsOK, IsMap, Message
<1>5. /\ replay'[c] = Put(FreshKeys(c, now), m.nonce, recv[c].ticket.ExpiresAt)
      /\ written'[c] = Append(written[c], m.nonce)
  BY <1>2 DEF TypeInv, ClientsOK, PerClient
<1> HIDE DEF m, now
<1>6. /\ direct'[c] = Put(direct[c], m.from, [endpoint |-> m.source, until |-> now + DirectTTL])
      /\ IsMap(direct'[c], Client \ {c}, Path)
  BY <1>1, <1>2, <1>4, HealthyFacts
<1> QED
  BY <1>1, <1>2, <1>3, <1>4, <1>5, <1>6 DEF m, now

\* The keys that acceptDirectReplayKey keeps.
LEMMA FreshKeysFacts ==
    ASSUME TypeInv, NEW c \in Client, NEW now \in Nat
    PROVE  /\ IsMap(FreshKeys(c, now), 1..payloads, Nat)
           /\ \A x \in DOMAIN FreshKeys(c, now) :
                x \in DOMAIN replay[c] /\ FreshKeys(c, now)[x] = replay[c][x]
           /\ \A x \in DOMAIN replay[c] :
                x \notin DOMAIN FreshKeys(c, now) => replay[c][x] <= now
<1> DEFINE m == replay[c]
           X == {x \in DOMAIN m : now >= m[x]}
<1>1. IsMap(m, 1..payloads, Nat) /\ FreshKeys(c, now) = Drop(m, X)
  BY DEF TypeInv, PathsOK, FreshKeys
<1>2. \A x \in X : x \in DOMAIN m /\ m[x] <= now
  BY <1>1 DEF IsMap
<1> HIDE DEF m, X
<1>3. IsMap(Drop(m, X), 1..payloads, Nat)
  BY <1>1, DropType
<1>4. DOMAIN Drop(m, X) = DOMAIN m \ X /\ \A x \in DOMAIN m \ X : Drop(m, X)[x] = m[x]
  BY DropFacts
<1> QED
  BY <1>1, <1>2, <1>3, <1>4 DEF m

\* A payload is accepted.
LEMMA AcceptPayloadType ==
    ASSUME TypeInv, NEW c \in Client, AcceptPayload(c)
    PROVE  TypeInv' /\ Grows
<1> USE DEF AcceptPayload, coordVars, ticketVars, strayVars, mapVars, netVars
<1>1. Grows
  BY Numbers DEF TypeInv, Grows
<1>2. WorldOK'
  BY DEF TypeInv, WorldOK
<1>3. PathsOK(c)'
  <2> DEFINE x == recv[c].msg.nonce
             now == recv[c].now
             e == recv[c].ticket.ExpiresAt
  <2>1. now \in Nat /\ e \in Nat
    BY VerifyFacts DEF Ticket
  <2>2. /\ x \in 1..payloads
        /\ replay'[c] = Put(FreshKeys(c, now), x, e)
        /\ written'[c] = Append(written[c], x)
        /\ IsMap(direct'[c], Client \ {c}, Path)
    BY PayloadFacts
  <2> HIDE DEF x, now, e
  <2>3. IsMap(replay'[c], 1..payloads, Nat)
    <3>1. IsMap(FreshKeys(c, now), 1..payloads, Nat)
      BY <2>1, FreshKeysFacts
    <3>2. IsMap(Put(FreshKeys(c, now), x, e), 1..payloads, Nat)
      BY <2>1, <2>2, <3>1, PutType
    <3>3. replay'[c] = Put(FreshKeys(c, now), x, e) /\ payloads' = payloads
      BY <2>2
    <3> QED
      BY <3>2, <3>3
  <2>4. written'[c] \in Seq(1..payloads)
    <3>1. written[c] \in Seq(1..payloads)
      BY DEF TypeInv, PathsOK
    <3>2. Append(written[c], x) \in Seq(1..payloads)
      BY <2>2, <3>1, AppendProperties
    <3> QED
      BY <2>2, <3>2
  <2> QED
    BY <2>2, <2>3, <2>4 DEF PathsOK
<1>4. MapsOK(c)' /\ PollOK(c)'
  BY DEF TypeInv, MapsOK, PollOK
<1>5. RecvOK(c)'
  BY ReceivedType DEF TypeInv
<1>6. ClientStep(c)
  BY DEF ClientStep, RecvStep
<1> QED
  BY <1>1, <1>2, <1>3, <1>4, <1>5, <1>6, TypeOfStep DEF OK

\* A datagram is dropped, which may prune the replay cache.
LEMMA DropDatagramFacts ==
    ASSUME TypeInv, NEW c \in Client, DropDatagram(c)
    PROVE  /\ recv[c].pc = "verify" /\ recv[c].now \in Nat
           /\ replay'[c] = replay[c] \/ replay'[c] = FreshKeys(c, recv[c].now)
<1>1. replay' = replay \/ replay' = [replay EXCEPT ![c] = FreshKeys(c, recv[c].now)]
  BY DEF DropDatagram
<1> QED
  BY <1>1, VerifyFacts DEF DropDatagram, TypeInv, ClientsOK, PerClient

\* A datagram is dropped.
LEMMA DropDatagramType ==
    ASSUME TypeInv, NEW c \in Client, DropDatagram(c)
    PROVE  TypeInv' /\ Grows
<1> USE DEF DropDatagram, coordVars, ticketVars, strayVars, mapVars, netVars
<1>1. Grows
  BY Numbers DEF TypeInv, Grows
<1>2. WorldOK'
  BY DEF TypeInv, WorldOK
<1>3. PathsOK(c)'
  <2>1. IsMap(replay'[c], 1..payloads, Nat)
    <3>1. IsMap(replay[c], 1..payloads, Nat)
      BY DEF TypeInv, PathsOK
    <3> QED
      BY <3>1, DropDatagramFacts, FreshKeysFacts
  <2> QED
    BY <2>1 DEF TypeInv, PathsOK
<1>4. MapsOK(c)' /\ PollOK(c)'
  BY DEF TypeInv, MapsOK, PollOK
<1>5. RecvOK(c)'
  BY ReceivedType DEF TypeInv
<1>6. ClientStep(c)
  BY DEF ClientStep, RecvStep
<1> QED
  BY <1>1, <1>2, <1>3, <1>4, <1>5, <1>6, TypeOfStep DEF OK

\* A payload is sealed and sent.
LEMMA SendDirectFacts ==
    ASSUME TypeInv, NEW c \in Client, NEW n \in Client, SendDirect(c, n)
    PROVE  /\ payloads' = payloads + 1 /\ payloads' \in 0..MaxPayloads
           /\ \E m \in Message :
                /\ net' = net \cup {m}
                /\ m.type = "data" /\ m.nonce = payloads + 1
                /\ m.ticket \in DOMAIN known[c]
                /\ m.from = c /\ m.source = <<c, life[c]>>
<1>1. payloads' = payloads + 1 /\ payloads' \in 0..MaxPayloads
  BY Numbers DEF SendDirect, TypeInv, WorldOK
<1>2. PICK k \in LiveTickets(c, n) : net' = net \cup {SealDirectPayload(c, n, k)}
  BY DEF SendDirect, Send
<1> DEFINE m == SealDirectPayload(c, n, k)
<1>3. k \in DOMAIN known[c] /\ k \in Nat
  BY <1>2 DEF LiveTickets, TypeInv, MapsOK, IsMap
<1>4. direct[c][n].endpoint \in Endpoint
  <2>1. n \in DOMAIN direct[c]
    BY DEF SendDirect, PathIsDirect
  <2>2. direct[c][n] \in Path
    BY <2>1 DEF TypeInv, PathsOK, IsMap
  <2> QED
    BY <2>2 DEF Path
<1>5. m \in Message
  <2>1. <<c, life[c]>> \in Endpoint /\ payloads + 1 \in Nat
    BY OwnEndpoint, Numbers DEF TypeInv
  <2> QED
    BY <1>3, <1>4, <2>1 DEF SealDirectPayload, Message
<1>6. /\ m.type = "data" /\ m.nonce = payloads + 1 /\ m.ticket = k
      /\ m.from = c /\ m.source = <<c, life[c]>>
  BY DEF SealDirectPayload
<1> QED
  BY <1>1, <1>2, <1>3, <1>5, <1>6

\* A payload is sent.
LEMMA SendDirectType ==
    ASSUME TypeInv, NEW c \in Client, NEW n \in Client, SendDirect(c, n)
    PROVE  TypeInv' /\ Grows
<1> USE DEF SendDirect, coordVars, ticketVars, strayVars, mapVars, pathVars
<1>1. payloads' = payloads + 1 /\ payloads' \in 0..MaxPayloads
  BY SendDirectFacts
<1>2. PICK m \in Message : net' = net \cup {m} /\ m.nonce = payloads + 1
  BY SendDirectFacts
<1>3. Grows
  BY <1>1, <1>2, Numbers DEF TypeInv, Grows
<1>4. WorldOK'
  <2>1. net' \subseteq Message /\ \A x \in net' : x.type = "data" => x.nonce \in 1..payloads'
    BY <1>1, <1>2, Numbers DEF TypeInv, WorldOK
  <2> QED
    BY <1>1, <2>1 DEF TypeInv, WorldOK
<1>5. Same(c)
  BY DEF Same, SameMaps, SamePaths
<1>6. OK(c)'
  BY <1>3, <1>5, TypesRest DEF TypeInv, OK
<1>7. ClientStep(c)
  BY DEF ClientStep, SendStep
<1> QED
  BY <1>3, <1>4, <1>6, <1>7, TypeOfStep

\* A path is given up.
LEMMA PathLostType ==
    ASSUME TypeInv, NEW c \in Client, NEW n \in Client, SendFails(c, n) \/ HealthExpires(c, n)
    PROVE  TypeInv' /\ Grows /\ direct'[c] = Drop(direct[c], {n})
<1> USE DEF SendFails, HealthExpires, coordVars, ticketVars, strayVars, mapVars, netVars
<1>1. Grows
  BY Numbers DEF TypeInv, Grows
<1>2. WorldOK'
  BY DEF TypeInv, WorldOK
<1>3. direct'[c] = Drop(direct[c], {n})
  BY DEF TypeInv, ClientsOK, PerClient
<1>4. PathsOK(c)'
  <2>1. IsMap(direct'[c], Client \ {c}, Path)
    <3>1. IsMap(direct[c], Client \ {c}, Path)
      BY DEF TypeInv, PathsOK
    <3> QED
      BY <1>3, <3>1, DropType
  <2> QED
    BY <2>1 DEF TypeInv, PathsOK
<1>5. MapsOK(c)' /\ PollOK(c)' /\ RecvOK(c)'
  BY DEF TypeInv, MapsOK, PollOK, RecvOK
<1>6. ClientStep(c)
  BY DEF ClientStep, SendStep
<1> QED
  BY <1>1, <1>2, <1>3, <1>4, <1>5, <1>6, TypeOfStep DEF OK

\* Every step keeps the types.
LEMMA TypeNext == TypeInv /\ [P2PNext]_vars => TypeInv' /\ Grows
<1> SUFFICES ASSUME TypeInv, [P2PNext]_vars PROVE TypeInv' /\ Grows
  OBVIOUS
<1>1. CASE Tick
  BY <1>1, TickType
<1>2. ASSUME NEW r \in stray, StrayIssue(r) PROVE TypeInv' /\ Grows
  BY <1>2, StrayType
<1>3. ASSUME NEW c \in Client, Hello(c) \/ LeaseExpires(c) \/ Restart(c) PROVE TypeInv' /\ Grows
  BY <1>3, LeaseType, RestartType
<1>4. ASSUME NEW c \in Client, PollStep(c) PROVE TypeInv' /\ Grows
  BY <1>4, PollTicketsType, PollCandidatesType, IssueTicketType, IssueFailsType, SendProbeType,
     ProbeFailsType DEF PollStep
<1>5. ASSUME NEW c \in Client, NEW m \in net, Receive(c, m) PROVE TypeInv' /\ Grows
  BY <1>5, ReceiveType
<1>6. ASSUME NEW c \in Client, RecvStep(c) PROVE TypeInv' /\ Grows
  BY <1>6, AnswerProbeType, AcceptAckType, AcceptPayloadType, DropDatagramType DEF RecvStep
<1>7. ASSUME NEW c \in Client, SendStep(c) PROVE TypeInv' /\ Grows
  BY <1>7, SendDirectType, PathLostType DEF SendStep
<1>8. CASE UNCHANGED vars
  <2> USE <1>8 DEF vars, coordVars, ticketVars, strayVars, mapVars, pathVars, netVars
  <2>1. Grows
    BY Numbers DEF TypeInv, Grows
  <2>2. WorldOK' /\ ClientsOK'
    BY DEF TypeInv, WorldOK, ClientsOK
  <2>3. \A d \in Client : Same(d)
    BY DEF Same, SameMaps, SamePaths
  <2> QED
    BY <2>1, <2>2, <2>3, TypesRest DEF TypeInv
<1> QED
  BY <1>1, <1>2, <1>3, <1>4, <1>5, <1>6, <1>7, <1>8 DEF P2PNext

------------------------------------------------------------------------------
(* Where the parts of the next state come from *)

\* The coordinator's tickets were there, or one is new.
TicketFlow ==
    /\ \/ issued' = issued
       \/ /\ issued' = issued + 1 /\ issued' \in DOMAIN tickets' /\ clock' = clock
          /\ tickets'[issued'].ExpiresAt = clock + TicketTTL
    /\ \A k \in DOMAIN tickets' :
        \/ k \in DOMAIN tickets /\ tickets'[k] = tickets[k]
        \/ k = issued' /\ issued' = issued + 1

\* A client gets tickets from the coordinator alone.
KnownFlow(c) ==
    \A k \in DOMAIN known'[c] :
        \/ k \in DOMAIN known[c] /\ known'[c][k] = known[c][k]
        \/ k \in DOMAIN tickets /\ known'[c][k] = tickets[k]
        \/ k \in DOMAIN tickets' /\ known'[c][k] = tickets'[k]

\* It probes with the tickets it has, and looks up the tickets of datagrams there.
PendingFlow(c) ==
    \A x \in DOMAIN pending'[c] :
        \/ x \in DOMAIN pending[c] /\ pending'[c][x] = pending[c][x]
        \/ /\ pending'[c][x].id \in DOMAIN known[c]
           /\ pending'[c][x].ticket = known[c][pending'[c][x].id]

RecvFlow(c) ==
    recv'[c].pc = "verify" =>
        \/ recv'[c] = recv[c]
        \/ /\ recv'[c].msg \in net /\ recv'[c].msg.ticket \in DOMAIN known[c]
           /\ recv'[c].ticket = known[c][recv'[c].msg.ticket]
           /\ recv'[c].now = clock

\* A payload that the receive loop accepts.
Accepts(c, x) ==
    /\ recv[c].pc = "verify" /\ recv[c].msg \in net /\ recv[c].msg.type = "data"
    /\ recv[c].msg.nonce = x
    /\ Live(recv[c].ticket, recv[c].now)
    /\ x \in DOMAIN replay[c] => replay[c][x] <= recv[c].now
    /\ x \in DOMAIN replay'[c] /\ replay'[c][x] = recv[c].ticket.ExpiresAt

\* The replay cache forgets a payload only when it has expired for the receive
\* loop; what is written is put there.
ReplayFlow(c) ==
    /\ \A x \in DOMAIN replay'[c] :
        \/ x \in DOMAIN replay[c] /\ replay'[c][x] = replay[c][x]
        \/ Accepts(c, x)
    /\ \/ written'[c] = <<>>
       \/ /\ \A x \in DOMAIN replay[c] \ DOMAIN replay'[c] : replay[c][x] <= Seen(c)
          /\ \/ written'[c] = written[c]
             \/ \E x \in 1..payloads : Accepts(c, x) /\ written'[c] = Append(written[c], x)

\* A client holds t as the ticket k, to verify what it receives.
Holds(c, k, t) ==
    \/ recv[c].pc = "verify" /\ recv[c].msg.ticket = k /\ recv[c].ticket = t
    \/ \E x \in DOMAIN pending[c] : pending[c][x].id = k /\ pending[c][x].ticket = t

\* A path becomes healthy by a datagram that is verified with a live ticket.
PathFlow(c) ==
    \A n \in DOMAIN direct'[c] :
        \/ n \in DOMAIN direct[c] /\ direct'[c][n] = direct[c][n]
        \/ \E m \in net, t \in Ticket, now \in 0..clock :
            /\ m.type # "probe" /\ m.from = n
            /\ Holds(c, m.ticket, t) /\ Live(t, now)
            /\ direct'[c][n].endpoint = m.source /\ direct'[c][n].until = now + DirectTTL

ClientFlow(c) ==
    KnownFlow(c) /\ PendingFlow(c) /\ RecvFlow(c) /\ ReplayFlow(c) /\ PathFlow(c)

\* A datagram is made from a ticket its sender holds or answers another; only
\* acknowledgements and payloads of the current process are made.
NetFlow ==
    /\ \A m \in net' \ net :
        /\ \/ \E c \in Client : m.ticket \in DOMAIN known[c]
           \/ \E o \in net : m.ticket = o.ticket
        /\ m.type # "probe" => m.source = <<m.from, life'[m.from]>>
    /\ \/ payloads' = payloads /\ \A m \in net' \ net : m.type # "data"
       \/ /\ payloads' = payloads + 1
          /\ \E m : net' = net \cup {m} /\ m.type = "data" /\ m.nonce = payloads + 1

\* A process that is replaced is replaced now.
LifeFlow ==
    \A n \in Client :
        \/ life'[n] = life[n] /\ born'[n] = born[n]
        \/ born'[n] = clock /\ clock' = clock

Flow ==
    /\ TicketFlow /\ NetFlow /\ LifeFlow
    /\ \A c \in Client : ClientFlow(c)

\* A client that does nothing gets nothing.
LEMMA FlowRests ==
    ASSUME NEW d \in Client, known'[d] = known[d], pending'[d] = pending[d], recv'[d] = recv[d],
           SamePaths(d)
    PROVE  ClientFlow(d)
BY DEF SamePaths, ClientFlow, KnownFlow, PendingFlow, RecvFlow, ReplayFlow, PathFlow

\* For a step of the client c, only c and the world have to be looked at.
LEMMA FlowOfStep ==
    ASSUME TypeInv, NEW c \in Client, ClientStep(c), TicketFlow, NetFlow, LifeFlow, ClientFlow(c)
    PROVE  Flow
<1>1. \A d \in Client : d # c => Same(d)
  BY OthersRest DEF TypeInv
<1>2. \A d \in Client : d # c => ClientFlow(d)
  BY <1>1, FlowRests DEF Same, SameMaps
<1> QED
  BY <1>2 DEF Flow

\* Where nothing is issued, sent or restarted, the world flows on.
LEMMA WorldRests ==
    /\ UNCHANGED <<tickets, issued>> => TicketFlow
    /\ UNCHANGED <<net, payloads>> => NetFlow
    /\ UNCHANGED <<life, born>> => LifeFlow
BY DEF TicketFlow, NetFlow, LifeFlow

\* What Issue does to the coordinator's tickets.
LEMMA IssueFlow ==
    ASSUME TypeInv, NEW a, NEW b, Issue(a, b, clock), clock' = clock
    PROVE  /\ TicketFlow
           /\ issued' = issued + 1 /\ issued' \in DOMAIN tickets'
           /\ tickets'[issued'] = [SourceNode |-> a, TargetNode |-> b, ExpiresAt |-> clock + TicketTTL]
<1> DEFINE t == [SourceNode |-> a, TargetNode |-> b, ExpiresAt |-> clock + TicketTTL]
           X == {k \in DOMAIN tickets : clock >= tickets[k].ExpiresAt}
           u == Drop(tickets, X)
<1>1. issued' = issued + 1 /\ tickets' = Put(u, issued + 1, t)
  BY DEF Issue, Unexpired
<1>2. t.ExpiresAt = clock + TicketTTL
  OBVIOUS
<1> HIDE DEF t, X
<1>3. DOMAIN u = DOMAIN tickets \ X /\ \A k \in DOMAIN tickets \ X : u[k] = tickets[k]
  BY DropFacts
<1> HIDE DEF u
<1>4. /\ DOMAIN tickets' = DOMAIN u \cup {issued'}
      /\ \A k \in DOMAIN u : k # issued' => tickets'[k] = u[k]
      /\ tickets'[issued'] = t
  BY <1>1 DEF Put
<1>5. TicketFlow
  BY <1>1, <1>2, <1>3, <1>4 DEF TicketFlow
<1> QED
  BY <1>1, <1>4, <1>5 DEF t

\* Steps that no client's tickets, probes, datagrams or paths depend on.
LEMMA QuietFlow ==
    ASSUME TypeInv,
           \/ Tick
           \/ UNCHANGED vars
           \/ \E r \in stray : StrayIssue(r)
           \/ \E c \in Client :
                \/ Hello(c) \/ LeaseExpires(c) \/ PollCandidates(c) \/ CandidatesFail(c)
                \/ \E n \in Client : IssueFails(c, n)
                \/ \E k \in 1..issued : ProbeFails(c, k)
    PROVE  Flow
<1> USE DEF vars, coordVars, ticketVars, strayVars, mapVars, pathVars, netVars
<1>1. /\ UNCHANGED <<known, pending, recv, direct, replay, written>>
      /\ UNCHANGED <<net, payloads>> /\ UNCHANGED <<life, born>>
  BY DEF Tick, StrayIssue, Hello, LeaseExpires, PollCandidates, CandidatesFail, IssueFails, ProbeFails
<1>2. \A c \in Client : ClientFlow(c)
  BY <1>1, FlowRests DEF SamePaths
<1>3. TicketFlow
  <2>1. ASSUME NEW r \in stray, StrayIssue(r) PROVE TicketFlow
    BY <2>1, IssueFlow DEF StrayIssue
  <2>2. ASSUME NEW c \in Client, LeaseExpires(c) PROVE TicketFlow
    <3> DEFINE X == {k \in DOMAIN tickets : Names(tickets[k], c)}
    <3>1. tickets' = Drop(tickets, X) /\ issued' = issued
      BY <2>2 DEF LeaseExpires, ForgetNode
    <3> HIDE DEF X
    <3>2. DOMAIN tickets' = DOMAIN tickets \ X /\ \A k \in DOMAIN tickets \ X : tickets'[k] = tickets[k]
      BY <3>1, DropFacts
    <3> QED
      BY <3>1, <3>2 DEF TicketFlow
  <2>3. CASE UNCHANGED <<tickets, issued>>
    BY <2>3, WorldRests
  <2>4. \/ UNCHANGED <<tickets, issued>>
        \/ \E r \in stray : StrayIssue(r)
        \/ \E c \in Client : LeaseExpires(c)
    BY DEF Tick, Hello, PollCandidates, CandidatesFail, IssueFails, ProbeFails
  <2> QED
    BY <2>1, <2>2, <2>3, <2>4
<1> QED
  BY <1>1, <1>2, <1>3, WorldRests DEF Flow

\* A new process starts with nothing.
LEMMA RestartFlow ==
    ASSUME TypeInv, NEW c \in Client, Restart(c)
    PROVE  Flow
<1>1. /\ known'[c] = Empty /\ pending'[c] = Empty /\ direct'[c] = Empty /\ replay'[c] = Empty
      /\ recv'[c] = Idle /\ written'[c] = <<>>
  BY DEF Restart, TypeInv, ClientsOK, PerClient
<1>2. ClientFlow(c)
  BY <1>1, EmptyType DEF ClientFlow, KnownFlow, PendingFlow, RecvFlow, ReplayFlow, PathFlow, Idle
<1>3. LifeFlow
  BY DEF Restart, TypeInv, ClientsOK, PerClient, LifeFlow
<1>4. TicketFlow /\ NetFlow
  BY WorldRests DEF Restart, ticketVars, netVars
<1>5. ClientStep(c)
  BY DEF ClientStep
<1> QED
  BY <1>2, <1>3, <1>4, <1>5, FlowOfStep

\* The list of tickets.
LEMMA PollTicketsFlow ==
    ASSUME TypeInv, NEW c \in Client, PollTickets(c)
    PROVE  Flow
<1>1. UNCHANGED <<recv, direct, replay, written, net, payloads, life, born>>
  BY DEF PollTickets, pathVars, netVars
<1>2. KnownFlow(c) /\ PendingFlow(c)
  BY ListFacts DEF KnownFlow, PendingFlow
<1>3. RecvFlow(c) /\ ReplayFlow(c) /\ PathFlow(c)
  BY <1>1 DEF RecvFlow, ReplayFlow, PathFlow
<1>4. TicketFlow
  <2> DEFINE X == {k \in DOMAIN tickets : clock >= tickets[k].ExpiresAt}
  <2>1. tickets' = Drop(tickets, X) /\ issued' = issued
    BY ListFacts DEF Unexpired
  <2> HIDE DEF X
  <2>2. DOMAIN tickets' = DOMAIN tickets \ X /\ \A k \in DOMAIN tickets \ X : tickets'[k] = tickets[k]
    BY <2>1, DropFacts
  <2> QED
    BY <2>1, <2>2 DEF TicketFlow
<1>5. NetFlow /\ LifeFlow
  BY <1>1, WorldRests
<1>6. ClientStep(c)
  BY DEF ClientStep, PollStep
<1> QED
  BY <1>2, <1>3, <1>4, <1>5, <1>6, FlowOfStep DEF ClientFlow

\* A ticket is issued to the client.
LEMMA IssueTicketFlow ==
    ASSUME TypeInv, NEW c \in Client, NEW n \in Client, IssueTicket(c, n)
    PROVE  Flow
<1>1. UNCHANGED <<clock, pending, recv, direct, replay, written, net, payloads, life, born>>
  BY DEF IssueTicket, pathVars, netVars
<1>2. TicketFlow /\ issued' \in DOMAIN tickets'
  BY <1>1, IssueFlow DEF IssueTicket
<1>3. known'[c] = Put(known[c], issued', tickets'[issued'])
  BY DEF IssueTicket, TypeInv, ClientsOK, PerClient
<1>4. KnownFlow(c)
  <2> DEFINE m == known[c]
             t == tickets'[issued']
  <2>1. known'[c] = Put(m, issued', t)
    BY <1>3
  <2> HIDE DEF t
  <2>2. /\ DOMAIN Put(m, issued', t) = DOMAIN m \cup {issued'}
        /\ Put(m, issued', t)[issued'] = t
        /\ \A x \in DOMAIN m : x # issued' => Put(m, issued', t)[x] = m[x]
    BY DEF Put
  <2> QED
    BY <1>2, <2>1, <2>2 DEF KnownFlow, t
<1>5. PendingFlow(c) /\ RecvFlow(c) /\ ReplayFlow(c) /\ PathFlow(c)
  BY <1>1 DEF PendingFlow, RecvFlow, ReplayFlow, PathFlow
<1>6. NetFlow /\ LifeFlow
  BY <1>1, WorldRests
<1>7. ClientStep(c)
  BY DEF ClientStep, PollStep
<1> QED
  BY <1>2, <1>4, <1>5, <1>6, <1>7, FlowOfStep DEF ClientFlow

\* A probe is sent.
LEMMA SendProbeFlow ==
    ASSUME TypeInv, NEW c \in Client, NEW k \in 1..issued, SendProbe(c, k)
    PROVE  Flow
<1>1. UNCHANGED <<tickets, issued, known, recv, direct, replay, written, payloads, life, born>>
  BY DEF SendProbe, coordVars, ticketVars, pathVars
<1> DEFINE p == [ticket |-> known[c][k], id |-> k, target |-> known[c][k].TargetNode, sentAt |-> clock]
<1>2. k \in DOMAIN known[c] /\ pending'[c] = Put(pending[c], probes + 1, p)
  BY SendProbeFacts
<1>3. p.id = k /\ p.ticket = known[c][k]
  OBVIOUS
<1> HIDE DEF p
<1>4. PendingFlow(c)
  BY <1>2, <1>3 DEF Put, PendingFlow
<1>5. KnownFlow(c) /\ RecvFlow(c) /\ ReplayFlow(c) /\ PathFlow(c)
  BY <1>1 DEF KnownFlow, RecvFlow, ReplayFlow, PathFlow
<1>6. PICK m \in Message : net' = net \cup {m} /\ m.type = "probe" /\ m.ticket = k
  BY SendProbeFacts
<1>7. NetFlow
  BY <1>1, <1>2, <1>6 DEF NetFlow
<1>8. TicketFlow /\ LifeFlow
  BY <1>1, WorldRests
<1>9. ClientStep(c)
  BY DEF ClientStep, PollStep
<1> QED
  BY <1>4, <1>5, <1>7, <1>8, <1>9, FlowOfStep DEF ClientFlow

\* A datagram arrives.
LEMMA ReceiveFlow ==
    ASSUME TypeInv, NEW c \in Client, NEW m \in net, Receive(c, m)
    PROVE  Flow
<1>1. UNCHANGED <<tickets, issued, known, pending, direct, replay, written, net, payloads, life, born>>
  BY DEF Receive, coordVars, ticketVars, mapVars, pathVars, netVars
<1>2. /\ recv'[c] = [pc |-> "verify", msg |-> m, ticket |-> known[c][m.ticket], now |-> clock]
      /\ m.ticket \in DOMAIN known[c]
  BY DEF Receive, Receives, TypeInv, ClientsOK, PerClient
<1>3. RecvFlow(c)
  BY <1>2 DEF RecvFlow
<1>4. KnownFlow(c) /\ PendingFlow(c) /\ ReplayFlow(c) /\ PathFlow(c)
  BY <1>1 DEF KnownFlow, PendingFlow, ReplayFlow, PathFlow
<1>5. TicketFlow /\ NetFlow /\ LifeFlow
  BY <1>1, WorldRests
<1>6. ClientStep(c)
  BY DEF ClientStep
<1> QED
  BY <1>3, <1>4, <1>5, <1>6, FlowOfStep DEF ClientFlow

\* The receive loop is done with a datagram: no ticket, no probe but the one
\* answered.
LEMMA ReceivedFlow ==
    ASSUME TypeInv, NEW c \in Client, RecvStep(c)
    PROVE  KnownFlow(c) /\ PendingFlow(c) /\ RecvFlow(c) /\ TicketFlow /\ LifeFlow /\ ClientStep(c)
<1>1. UNCHANGED <<tickets, issued, known, life, born>> /\ Receives(c, Idle)
  BY DEF RecvStep, AnswerProbe, AcceptAck, AcceptPayload, DropDatagram, coordVars, ticketVars, mapVars
<1>2. recv'[c] = Idle
  BY <1>1, ReceivedType DEF TypeInv
<1>3. PendingFlow(c)
  <2>1. CASE AcceptAck(c)
    <3> DEFINE X == {recv[c].msg.nonce}
               m == pending[c]
    <3>1. pending'[c] = Drop(m, X)
      BY <2>1, AckFacts
    <3> HIDE DEF X
    <3>2. DOMAIN Drop(m, X) = DOMAIN m \ X /\ \A x \in DOMAIN m \ X : Drop(m, X)[x] = m[x]
      BY DropFacts
    <3> QED
      BY <3>1, <3>2 DEF PendingFlow
  <2>2. CASE AnswerProbe(c) \/ AcceptPayload(c) \/ DropDatagram(c)
    BY <2>2 DEF AnswerProbe, AcceptPayload, DropDatagram, mapVars, PendingFlow
  <2> QED
    BY <2>1, <2>2 DEF RecvStep
<1>4. KnownFlow(c) /\ RecvFlow(c)
  BY <1>1, <1>2 DEF KnownFlow, RecvFlow, Idle
<1>5. ClientStep(c)
  BY DEF ClientStep
<1> QED
  BY <1>1, <1>3, <1>4, <1>5, WorldRests

\* An acknowledgement is sent.
LEMMA AnswerProbeFlow ==
    ASSUME TypeInv, NEW c \in Client, AnswerProbe(c)
    PROVE  Flow
<1> DEFINE o == recv[c].msg
           m == NewProbeAck(c, o)
<1>1. o \in net /\ o.to = c
  BY VerifyFacts DEF AnswerProbe, VerifyProbe
<1>2. m.type = "ack" /\ m.ticket = o.ticket /\ m.from = c /\ m.source = <<c, life[c]>>
  BY <1>1 DEF NewProbeAck
<1>3. net' = net \cup {m} /\ payloads' = payloads /\ life' = life
  BY DEF AnswerProbe, Send
<1> HIDE DEF o, m
<1>4. NetFlow
  BY <1>1, <1>2, <1>3 DEF NetFlow
<1>5. ReplayFlow(c) /\ PathFlow(c)
  BY DEF AnswerProbe, pathVars, ReplayFlow, PathFlow
<1> QED
  BY <1>4, <1>5, ReceivedFlow, FlowOfStep DEF RecvStep, ClientFlow

\* An acknowledgement is accepted: it answers a probe under a live ticket.
LEMMA AcceptAckFlow ==
    ASSUME TypeInv, NEW c \in Client, AcceptAck(c)
    PROVE  Flow
<1>1. UNCHANGED <<replay, written, net, payloads>> /\ recv[c].pc = "verify"
  BY DEF AcceptAck, netVars
<1> DEFINE m == recv[c].msg
           x == m.nonce
           t == pending[c][x].ticket
           now == recv[c].now
           p == [endpoint |-> m.source, until |-> now + DirectTTL]
<1>2. /\ m \in net /\ m.type = "ack" /\ m.ticket = pending[c][x].id /\ x \in DOMAIN pending[c]
      /\ pending[c][x] \in PendingProbe(c) /\ Live(t, now)
      /\ direct'[c] = Put(direct[c], m.from, p)
  BY AckFacts
<1>3. t \in Ticket /\ now \in 0..clock
  BY <1>1, <1>2, VerifyFacts DEF PendingProbe
<1>4. Holds(c, m.ticket, t)
  BY <1>2 DEF Holds
<1>5. p.endpoint = m.source /\ p.until = now + DirectTTL
  OBVIOUS
<1> HIDE DEF m, t, now, p, x
<1>6. PathFlow(c)
  <2> SUFFICES ASSUME NEW n \in DOMAIN direct'[c], n \notin DOMAIN direct[c] \/ direct'[c][n] # direct[c][n]
               PROVE  \E o \in net, u \in Ticket, w \in 0..clock :
                        /\ o.type # "probe" /\ o.from = n
                        /\ Holds(c, o.ticket, u) /\ Live(u, w)
                        /\ direct'[c][n].endpoint = o.source /\ direct'[c][n].until = w + DirectTTL
    BY DEF PathFlow
  <2>1. n = m.from /\ direct'[c][n] = p
    BY <1>2 DEF Put
  <2> QED
    BY <1>2, <1>3, <1>4, <1>5, <2>1
<1>7. ReplayFlow(c) /\ NetFlow
  BY <1>1, WorldRests DEF ReplayFlow
<1> QED
  BY <1>6, <1>7, ReceivedFlow, FlowOfStep DEF RecvStep, ClientFlow

\* A payload is accepted: its ticket is live and its key is not in the cache, or
\* has expired there.
LEMMA AcceptPayloadFlow ==
    ASSUME TypeInv, NEW c \in Client, AcceptPayload(c)
    PROVE  Flow
<1>1. UNCHANGED <<net, payloads>> /\ recv[c].pc = "verify"
  BY DEF AcceptPayload, netVars
<1> DEFINE m == recv[c].msg
           x == m.nonce
           t == recv[c].ticket
           now == recv[c].now
           p == [endpoint |-> m.source, until |-> now + DirectTTL]
           f == FreshKeys(c, now)
<1>2. /\ m \in net /\ m.type = "data" /\ x \in 1..payloads /\ Live(t, now)
      /\ x \notin DOMAIN f
      /\ replay'[c] = Put(f, x, t.ExpiresAt)
      /\ written'[c] = Append(written[c], x)
      /\ direct'[c] = Put(direct[c], m.from, p)
  BY PayloadFacts
<1>3. t \in Ticket /\ now \in 0..clock /\ now \in Nat
  BY <1>1, VerifyFacts
<1>4. Holds(c, m.ticket, t)
  BY <1>1 DEF Holds
<1>5. p.endpoint = m.source /\ p.until = now + DirectTTL
  OBVIOUS
<1>6. /\ \A y \in DOMAIN f : y \in DOMAIN replay[c] /\ f[y] = replay[c][y]
      /\ \A y \in DOMAIN replay[c] : y \notin DOMAIN f => replay[c][y] <= now
  BY <1>3, FreshKeysFacts
<1>7. Seen(c) = now
  BY <1>1 DEF Seen
<1>8. recv[c].msg = m /\ m.nonce = x /\ recv[c].ticket = t /\ recv[c].now = now
  OBVIOUS
<1> HIDE DEF m, t, now, p, x, f
<1>9. PathFlow(c)
  <2> SUFFICES ASSUME NEW n \in DOMAIN direct'[c], n \notin DOMAIN direct[c] \/ direct'[c][n] # direct[c][n]
               PROVE  \E o \in net, u \in Ticket, w \in 0..clock :
                        /\ o.type # "probe" /\ o.from = n
                        /\ Holds(c, o.ticket, u) /\ Live(u, w)
                        /\ direct'[c][n].endpoint = o.source /\ direct'[c][n].until = w + DirectTTL
    BY DEF PathFlow
  <2>1. n = m.from /\ direct'[c][n] = p
    BY <1>2 DEF Put
  <2> QED
    BY <1>2, <1>3, <1>4, <1>5, <2>1
<1>10. ReplayFlow(c)
  <2>1. /\ DOMAIN replay'[c] = DOMAIN f \cup {x}
        /\ \A y \in DOMAIN f : y # x => replay'[c][y] = f[y]
        /\ replay'[c][x] = t.ExpiresAt
    BY <1>2 DEF Put
  <2>2. Accepts(c, x)
    BY <1>1, <1>2, <1>6, <1>8, <2>1 DEF Accepts
  <2>3. \A y \in DOMAIN replay[c] \ DOMAIN replay'[c] : replay[c][y] <= Seen(c)
    BY <1>6, <1>7, <2>1
  <2>4. \A y \in DOMAIN replay'[c] : (y \in DOMAIN replay[c] /\ replay'[c][y] = replay[c][y]) \/ y = x
    BY <1>6, <2>1
  <2> QED
    BY <1>2, <2>2, <2>3, <2>4 DEF ReplayFlow
<1>11. NetFlow
  BY <1>1, WorldRests
<1> QED
  BY <1>9, <1>10, <1>11, ReceivedFlow, FlowOfStep DEF RecvStep, ClientFlow

\* A datagram is dropped.
LEMMA DropDatagramFlow ==
    ASSUME TypeInv, NEW c \in Client, DropDatagram(c)
    PROVE  Flow
<1>1. UNCHANGED <<direct, written, net, payloads>>
  BY DEF DropDatagram, netVars
<1>2. PathFlow(c) /\ NetFlow
  BY <1>1, WorldRests DEF PathFlow
<1>3. ReplayFlow(c)
  <2>1. CASE replay'[c] = replay[c]
    BY <1>1, <2>1 DEF ReplayFlow
  <2>2. CASE replay'[c] = FreshKeys(c, recv[c].now)
    <3>1. recv[c].pc = "verify" /\ recv[c].now \in Nat
      BY DropDatagramFacts
    <3>2. /\ \A y \in DOMAIN replay'[c] : y \in DOMAIN replay[c] /\ replay'[c][y] = replay[c][y]
          /\ \A y \in DOMAIN replay[c] : y \notin DOMAIN replay'[c] => replay[c][y] <= recv[c].now
      BY <2>2, <3>1, FreshKeysFacts
    <3>3. Seen(c) = recv[c].now
      BY <3>1 DEF Seen
    <3> QED
      BY <1>1, <3>2, <3>3 DEF ReplayFlow
  <2> QED
    BY <2>1, <2>2, DropDatagramFacts
<1> QED
  BY <1>2, <1>3, ReceivedFlow, FlowOfStep DEF RecvStep, ClientFlow

\* A payload is sent, or a path given up.
LEMMA SendFlow ==
    ASSUME TypeInv, NEW c \in Client, SendStep(c)
    PROVE  Flow
<1>1. PICK n \in Client : SendDirect(c, n) \/ SendFails(c, n) \/ HealthExpires(c, n)
  BY DEF SendStep
<1>2. UNCHANGED <<tickets, issued, known, pending, recv, replay, written, life, born>>
  BY <1>1 DEF SendDirect, SendFails, HealthExpires, coordVars, ticketVars, mapVars, pathVars
<1>3. KnownFlow(c) /\ PendingFlow(c) /\ RecvFlow(c) /\ ReplayFlow(c) /\ TicketFlow /\ LifeFlow
  BY <1>2, WorldRests DEF KnownFlow, PendingFlow, RecvFlow, ReplayFlow
<1>4. PathFlow(c) /\ NetFlow
  <2>1. CASE SendDirect(c, n)
    <3>1. payloads' = payloads + 1
      BY <2>1, SendDirectFacts
    <3>2. PICK m \in Message :
            /\ net' = net \cup {m} /\ m.type = "data" /\ m.nonce = payloads + 1
            /\ m.ticket \in DOMAIN known[c] /\ m.from = c /\ m.source = <<c, life[c]>>
      BY <2>1, SendDirectFacts
    <3>3. NetFlow
      BY <1>2, <3>1, <3>2 DEF NetFlow
    <3> QED
      BY <2>1, <3>3 DEF SendDirect, pathVars, PathFlow
  <2>2. CASE SendFails(c, n) \/ HealthExpires(c, n)
    <3> DEFINE m == direct[c]
    <3>1. direct'[c] = Drop(m, {n})
      BY <2>2, PathLostType
    <3>2. DOMAIN Drop(m, {n}) = DOMAIN m \ {n} /\ \A x \in DOMAIN m \ {n} : Drop(m, {n})[x] = m[x]
      BY DropFacts
    <3>3. PathFlow(c)
      BY <3>1, <3>2 DEF PathFlow
    <3>4. NetFlow
      BY <2>2, WorldRests DEF SendFails, HealthExpires, netVars
    <3> QED
      BY <3>3, <3>4
  <2> QED
    BY <1>1, <2>1, <2>2
<1>5. ClientStep(c)
  BY DEF ClientStep
<1> QED
  BY <1>3, <1>4, <1>5, FlowOfStep DEF ClientFlow

\* Every step flows.
LEMMA FlowNext == TypeInv /\ [P2PNext]_vars => Flow
<1> SUFFICES ASSUME TypeInv, [P2PNext]_vars PROVE Flow
  OBVIOUS
<1>1. CASE Tick \/ UNCHANGED vars \/ \E r \in stray : StrayIssue(r)
  BY <1>1, QuietFlow
<1>2. ASSUME NEW c \in Client, Hello(c) \/ LeaseExpires(c) \/ Restart(c) PROVE Flow
  BY <1>2, QuietFlow, RestartFlow
<1>3. ASSUME NEW c \in Client, PollStep(c) PROVE Flow
  BY <1>3, QuietFlow, PollTicketsFlow, IssueTicketFlow, SendProbeFlow DEF PollStep
<1>4. ASSUME NEW c \in Client, NEW m \in net, Receive(c, m) PROVE Flow
  BY <1>4, ReceiveFlow
<1>5. ASSUME NEW c \in Client, RecvStep(c) PROVE Flow
  BY <1>5, AnswerProbeFlow, AcceptAckFlow, AcceptPayloadFlow, DropDatagramFlow DEF RecvStep
<1>6. ASSUME NEW c \in Client, SendStep(c) PROVE Flow
  BY <1>6, SendFlow
<1> QED
  BY <1>1, <1>2, <1>3, <1>4, <1>5, <1>6 DEF P2PNext

------------------------------------------------------------------------------
(* Tickets, payloads and paths *)

\* F tells of the tickets what E tells, and of the new one.
Later(E, F) ==
    /\ F \in [1..issued' -> Ticket]
    /\ \A k \in 1..issued : F[k] = E[k]
    /\ \A k \in DOMAIN tickets' : k > issued => F[k] = tickets'[k]

\* There is such a function.
LEMMA LaterExists ==
    ASSUME TypeInv, TypeInv', Flow, NEW E \in [1..issued -> Ticket]
    PROVE  \E F \in [1..issued' -> Ticket] : Later(E, F)
<1>1. issued \in Nat /\ IsMap(tickets', 1..issued', Ticket)
  BY Numbers DEF TypeInv, WorldOK
<1>2. CASE issued' = issued
  BY <1>1, <1>2 DEF Later, IsMap
<1>3. CASE issued' = issued + 1 /\ issued' \in DOMAIN tickets'
  <2> DEFINE F == [k \in 1..issued' |-> IF k = issued' THEN tickets'[issued'] ELSE E[k]]
  <2>1. F \in [1..issued' -> Ticket]
    BY <1>1, <1>3 DEF IsMap
  <2>2. \A k \in 1..issued : F[k] = E[k]
    BY <1>1, <1>3
  <2>3. \A k \in DOMAIN tickets' : k > issued => F[k] = tickets'[k]
    BY <1>1, <1>3 DEF IsMap
  <2> HIDE DEF F
  <2> QED
    BY <2>1, <2>2, <2>3 DEF Later
<1> QED
  BY <1>2, <1>3 DEF Flow, TicketFlow

\* Copies of tickets stay equal.
LEMMA TicketsNext ==
    ASSUME TypeInv, TypeInv', Grows, Flow, NEW E, TicketsTrue(E), NEW F, Later(E, F)
    PROVE  TicketsTrue(F)'
<1>1. /\ issued \in Nat /\ issued' \in Nat /\ issued <= issued'
      /\ clock \in Nat /\ clock' \in Nat /\ clock <= clock'
      /\ TicketTTL \in Nat
  BY Numbers DEF Grows, TypeInv
<1>2. F \in [1..issued' -> Ticket] /\ \A k \in 1..issued : F[k] = E[k]
  BY DEF Later
<1>3. ASSUME NEW k \in 1..issued' PROVE F[k].ExpiresAt <= clock' + TicketTTL
  <2>1. CASE k \in 1..issued
    <3>1. F[k] = E[k] /\ E[k].ExpiresAt <= clock + TicketTTL
      BY <1>2, <2>1 DEF TicketsTrue
    <3>2. F[k].ExpiresAt \in Nat
      BY <1>2 DEF Ticket
    <3> QED
      BY <1>1, <3>1, <3>2
  <2>2. CASE k \notin 1..issued
    <3>1. k > issued /\ issued' # issued
      BY <1>1, <2>2
    <3>2. /\ issued' = issued + 1 /\ issued' \in DOMAIN tickets' /\ clock' = clock
          /\ tickets'[issued'].ExpiresAt = clock + TicketTTL
      BY <3>1 DEF Flow, TicketFlow
    <3>3. k = issued'
      BY <1>1, <3>1, <3>2
    <3>4. F[k] = tickets'[k]
      BY <3>1, <3>2, <3>3 DEF Later
    <3> QED
      BY <1>1, <3>2, <3>3, <3>4
  <2> QED
    BY <2>1, <2>2
<1>4. ASSUME NEW k \in DOMAIN tickets' PROVE tickets'[k] = F[k]
  <2>1. CASE k \in DOMAIN tickets /\ tickets'[k] = tickets[k]
    <3>1. k \in 1..issued /\ tickets[k] = E[k]
      BY <2>1 DEF TypeInv, WorldOK, IsMap, TicketsTrue
    <3> QED
      BY <1>2, <2>1, <3>1
  <2>2. CASE k = issued' /\ issued' = issued + 1
    BY <1>1, <2>2 DEF Later
  <2> QED
    BY <2>1, <2>2 DEF Flow, TicketFlow
<1>5. ASSUME NEW m \in net' PROVE m.ticket \in 1..issued'
  <2>1. m.ticket \in 1..issued
    <3>1. CASE m \in net
      BY <3>1 DEF TicketsTrue
    <3>2. CASE \E c \in Client : m.ticket \in DOMAIN known[c]
      BY <3>2 DEF TypeInv, MapsOK, IsMap
    <3>3. CASE \E o \in net : m.ticket = o.ticket
      BY <3>3 DEF TicketsTrue
    <3> QED
      BY <3>1, <3>2, <3>3 DEF Flow, NetFlow
  <2> QED
    BY <1>1, <2>1
<1>6. ASSUME NEW c \in Client
      PROVE  /\ \A k \in DOMAIN known'[c] : known'[c][k] = F[k]
             /\ \A x \in DOMAIN pending'[c] :
                    /\ pending'[c][x].id \in 1..issued'
                    /\ pending'[c][x].ticket = F[pending'[c][x].id]
             /\ recv'[c].pc = "verify" => recv'[c].ticket = F[recv'[c].msg.ticket]
  <2>1. \A k \in DOMAIN known[c] : k \in 1..issued /\ known[c][k] = F[k]
    <3>1. \A k \in DOMAIN known[c] : k \in 1..issued /\ known[c][k] = E[k]
      BY DEF TypeInv, MapsOK, IsMap, TicketsTrue
    <3> QED
      BY <1>2, <3>1
  <2>2. \A k \in DOMAIN tickets : k \in 1..issued /\ tickets[k] = F[k]
    <3>1. \A k \in DOMAIN tickets : k \in 1..issued /\ tickets[k] = E[k]
      BY DEF TypeInv, WorldOK, IsMap, TicketsTrue
    <3> QED
      BY <1>2, <3>1
  <2>3. \A k \in DOMAIN known'[c] : known'[c][k] = F[k]
    <3>1. KnownFlow(c)
      BY DEF Flow, ClientFlow
    <3> QED
      BY <1>4, <2>1, <2>2, <3>1 DEF KnownFlow
  <2>4. ASSUME NEW x \in DOMAIN pending'[c]
        PROVE  /\ pending'[c][x].id \in 1..issued'
               /\ pending'[c][x].ticket = F[pending'[c][x].id]
    <3> DEFINE i == pending'[c][x].id
    <3>1. i \in 1..issued /\ pending'[c][x].ticket = F[i]
      <4>1. CASE x \in DOMAIN pending[c] /\ pending'[c][x] = pending[c][x]
        BY <1>2, <4>1 DEF TicketsTrue
      <4>2. CASE i \in DOMAIN known[c] /\ pending'[c][x].ticket = known[c][i]
        BY <2>1, <4>2
      <4> QED
        BY <4>1, <4>2 DEF Flow, ClientFlow, PendingFlow
    <3> QED
      BY <1>1, <3>1
  <2>5. recv'[c].pc = "verify" => recv'[c].ticket = F[recv'[c].msg.ticket]
    <3> SUFFICES ASSUME recv'[c].pc = "verify" PROVE recv'[c].ticket = F[recv'[c].msg.ticket]
      OBVIOUS
    <3>1. CASE recv'[c] = recv[c]
      <4>1. recv[c].msg \in net /\ recv[c].ticket = E[recv[c].msg.ticket]
        BY <3>1, VerifyFacts DEF TicketsTrue
      <4>2. recv[c].msg.ticket \in 1..issued
        BY <4>1 DEF TicketsTrue
      <4> QED
        BY <1>2, <3>1, <4>1, <4>2
    <3>2. CASE recv'[c].msg.ticket \in DOMAIN known[c] /\ recv'[c].ticket = known[c][recv'[c].msg.ticket]
      BY <2>1, <3>2
    <3> QED
      BY <3>1, <3>2 DEF Flow, ClientFlow, RecvFlow
  <2> QED
    BY <2>3, <2>4, <2>5
<1> QED
  BY <1>2, <1>3, <1>4, <1>5, <1>6 DEF TicketsTrue

\* G tells of the payloads what D tells, and of the new one.
LaterPayload(D, G) ==
    /\ G \in [1..payloads' -> 1..issued']
    /\ \A x \in 1..payloads : G[x] = D[x]
    /\ \A m \in net' \ net : m.type = "data" => m.ticket = G[m.nonce]

\* There is such a function.
LEMMA LaterPayloadExists ==
    ASSUME TypeInv, Grows, Flow, NEW D \in [1..payloads -> 1..issued],
           \A m \in net' : m.ticket \in 1..issued'
    PROVE  \E G \in [1..payloads' -> 1..issued'] : LaterPayload(D, G)
<1>1. payloads \in Nat /\ 1..issued \subseteq 1..issued'
  BY DEF Grows
<1>2. CASE payloads' = payloads /\ \A m \in net' \ net : m.type # "data"
  <2>1. D \in [1..payloads' -> 1..issued']
    BY <1>1, <1>2
  <2> QED
    BY <1>2, <2>1 DEF LaterPayload
<1>3. CASE /\ payloads' = payloads + 1
           /\ \E m : net' = net \cup {m} /\ m.type = "data" /\ m.nonce = payloads + 1
  <2>1. PICK m : net' = net \cup {m} /\ m.nonce = payloads + 1
    BY <1>3
  <2> DEFINE G == [x \in 1..payloads' |-> IF x = payloads + 1 THEN m.ticket ELSE D[x]]
  <2>2. G \in [1..payloads' -> 1..issued']
    BY <1>1, <1>3, <2>1
  <2>3. \A x \in 1..payloads : G[x] = D[x]
    BY <1>1, <1>3
  <2>4. G[payloads + 1] = m.ticket
    BY <1>1, <1>3
  <2> HIDE DEF G
  <2>5. \A o \in net' \ net : o.ticket = G[o.nonce]
    BY <2>1, <2>4
  <2> QED
    BY <2>2, <2>3, <2>5 DEF LaterPayload
<1> QED
  BY <1>2, <1>3 DEF Flow, NetFlow

\* The time of the receive loop does not run backwards.
LEMMA SeenGrows ==
    ASSUME TypeInv, TypeInv', Grows, Flow, NEW c \in Client
    PROVE  Seen(c) \in Nat /\ Seen(c)' \in Nat /\ Seen(c) <= Seen(c)'
<1>1. clock \in Nat /\ clock' \in Nat /\ clock <= clock'
  BY DEF Grows
<1>2. recv[c].pc = "verify" => recv[c].now \in 0..clock
  BY VerifyFacts
<1>3. recv'[c].pc = "verify" => recv'[c].now \in Nat
  <2>1. recv'[c] \in RecvState
    BY DEF TypeInv, RecvOK
  <2> QED
    BY <2>1 DEF RecvState
<1>4. Seen(c) \in 0..clock
  BY <1>1, <1>2 DEF Seen
<1>5. CASE recv'[c].pc # "verify"
  <2>1. Seen(c)' = clock'
    BY <1>5 DEF Seen
  <2> QED
    BY <1>1, <1>4, <2>1
<1>6. CASE recv'[c].pc = "verify"
  <2>1. Seen(c)' = recv'[c].now
    BY <1>6 DEF Seen
  <2>2. CASE recv'[c] = recv[c]
    <3>1. Seen(c) = recv[c].now /\ Seen(c)' = recv[c].now
      BY <1>6, <2>1, <2>2 DEF Seen
    <3> QED
      BY <1>1, <1>4, <3>1
  <2>3. CASE recv'[c].now = clock
    BY <1>1, <1>4, <2>1, <2>3
  <2> QED
    BY <1>6, <2>2, <2>3 DEF Flow, ClientFlow, RecvFlow
<1> QED
  BY <1>5, <1>6

\* The replay cache does its work: what has been written and is no longer in it
\* has expired for good.
LEMMA PayloadsNext ==
    ASSUME TypeInv, TypeInv', Grows, Flow, NoPayloadTwice,
           NEW E, TicketsTrue(E), NEW D, PayloadsTrue(E, D),
           NEW F, Later(E, F), NEW G, LaterPayload(D, G)
    PROVE  PayloadsTrue(F, G)' /\ NoPayloadTwice'
<1> DEFINE Z == 1..payloads
           e(x) == E[D[x]].ExpiresAt
<1>1. D \in [Z -> 1..issued] /\ E \in [1..issued -> Ticket]
  BY DEF PayloadsTrue, TicketsTrue
<1>2. \A x \in Z : F[G[x]] = E[D[x]] /\ e(x) \in Nat
  BY <1>1 DEF Later, LaterPayload, Ticket
<1>3. ASSUME NEW m \in net', m.type = "data" PROVE m.ticket = G[m.nonce]
  <2>1. CASE m \in net
    BY <1>3, <2>1 DEF PayloadsTrue, LaterPayload, TypeInv, WorldOK
  <2>2. CASE m \in net' \ net
    BY <1>3, <2>2 DEF LaterPayload
  <2> QED
    BY <2>1, <2>2
<1>4. ASSUME NEW c \in Client
      PROVE  /\ \A x \in DOMAIN replay'[c] : replay'[c][x] = F[G[x]].ExpiresAt
             /\ \A i \in 1..Len(written'[c]) :
                    written'[c][i] \notin DOMAIN replay'[c]
                        => F[G[written'[c][i]]].ExpiresAt <= Seen(c)'
             /\ \A i, j \in 1..Len(written'[c]) : i # j => written'[c][i] # written'[c][j]
  <2> DEFINE w == written[c]
             old == replay[c]
             new == replay'[c]
             s == Seen(c)
             s1 == Seen(c)'
  <2>1. s \in Nat /\ s1 \in Nat /\ s <= s1
    BY SeenGrows
  <2>2. /\ DOMAIN old \subseteq Z /\ \A x \in DOMAIN old : old[x] = e(x)
    BY DEF TypeInv, PathsOK, IsMap, PayloadsTrue
  <2>3. /\ w \in Seq(Z) /\ Len(w) \in Nat /\ \A i \in 1..Len(w) : w[i] \in Z
    BY LenProperties, ElementOfSeq DEF TypeInv, PathsOK
  <2>4. /\ \A i \in 1..Len(w) : w[i] \notin DOMAIN old => e(w[i]) <= s
        /\ \A i, j \in 1..Len(w) : i # j => w[i] # w[j]
    BY DEF PayloadsTrue, NoPayloadTwice
  <2>5. ASSUME NEW x, Accepts(c, x)
        PROVE  /\ x \in Z /\ x \in DOMAIN new /\ new[x] = e(x)
               /\ s < e(x) /\ (x \in DOMAIN old => old[x] <= s)
    <3>1. /\ recv[c].pc = "verify" /\ recv[c].msg \in net /\ recv[c].msg.type = "data"
          /\ recv[c].msg.nonce = x /\ recv[c].now < recv[c].ticket.ExpiresAt
          /\ x \in DOMAIN old => old[x] <= recv[c].now
          /\ x \in DOMAIN new /\ new[x] = recv[c].ticket.ExpiresAt
      BY <2>5 DEF Accepts, Live
    <3>2. x \in Z /\ recv[c].msg.ticket = D[x]
      BY <3>1 DEF TypeInv, WorldOK, PayloadsTrue
    <3>3. recv[c].ticket = E[D[x]]
      BY <3>1, <3>2 DEF TicketsTrue
    <3>4. s = recv[c].now
      BY <3>1 DEF Seen
    <3> QED
      BY <3>1, <3>2, <3>3, <3>4
  <2>6. /\ \A x \in DOMAIN new : (x \in DOMAIN old /\ new[x] = old[x]) \/ Accepts(c, x)
        /\ \/ written'[c] = <<>>
           \/ /\ \A x \in DOMAIN old \ DOMAIN new : old[x] <= s
              /\ \/ written'[c] = w
                 \/ \E x \in Z : Accepts(c, x) /\ written'[c] = Append(w, x)
    BY DEF Flow, ClientFlow, ReplayFlow
  <2> HIDE DEF w, old, new, s, s1, Z, e
  <2>7. \A x \in DOMAIN new : x \in Z /\ new[x] = e(x)
    BY <2>2, <2>5, <2>6
  <2>8. ASSUME NEW i \in 1..Len(w), w[i] \notin DOMAIN new,
               \A x \in DOMAIN old \ DOMAIN new : old[x] <= s
        PROVE  e(w[i]) <= s1
    <3>1. e(w[i]) <= s /\ e(w[i]) \in Nat
      BY <1>2, <2>2, <2>3, <2>4, <2>8 DEF e, Z
    <3> QED
      BY <2>1, <3>1
  <2>9. CASE written'[c] = <<>>
    <3>1. Len(<<>>) = 0
      BY EmptySeq
    <3>2. 1..Len(written'[c]) = {}
      BY <2>9, <3>1
    <3> QED
      BY <1>2, <2>7, <3>2 DEF new, e, Z
  <2>10. CASE written'[c] = w /\ \A x \in DOMAIN old \ DOMAIN new : old[x] <= s
    BY <1>2, <2>3, <2>4, <2>7, <2>8, <2>10 DEF new, e, Z, s1
  <2>11. ASSUME NEW x \in Z, Accepts(c, x), written'[c] = Append(w, x),
                \A y \in DOMAIN old \ DOMAIN new : old[y] <= s
         PROVE  /\ \A i \in 1..Len(written'[c]) :
                    written'[c][i] \notin DOMAIN replay'[c]
                        => F[G[written'[c][i]]].ExpiresAt <= Seen(c)'
                /\ \A i, j \in 1..Len(written'[c]) : i # j => written'[c][i] # written'[c][j]
    <3> DEFINE l == Len(w)
               v == written'[c]
    <3>1. /\ l \in Nat /\ Len(v) = l + 1 /\ v[l + 1] = x
          /\ \A i \in 1..l : v[i] = w[i]
      BY <2>3, <2>11, AppendProperties
    <3>2. x \in DOMAIN new /\ s < e(x) /\ (x \in DOMAIN old => old[x] <= s)
      BY <2>5, <2>11
    <3>3. \A i \in 1..l : w[i] # x
      <4> SUFFICES ASSUME NEW i \in 1..l, w[i] = x PROVE FALSE
        OBVIOUS
      <4>1. e(x) <= s
        BY <2>2, <2>4, <3>2
      <4>2. e(x) \in Nat
        BY <1>2, <2>11 DEF e, Z
      <4> QED
        BY <2>1, <3>2, <4>1, <4>2
    <3>4. \A i \in 1..l : w[i] \in Z /\ (w[i] \notin DOMAIN new => e(w[i]) <= s1)
      BY <2>3, <2>8, <2>11
    <3>5. \A i, j \in 1..l : i # j => w[i] # w[j]
      BY <2>4
    <3> HIDE DEF l, v
    <3>6. \A i \in 1..(l + 1) : i \in 1..l \/ i = l + 1
      BY <3>1
    <3>7. \A i \in 1..(l + 1) : v[i] \notin DOMAIN new => v[i] \in Z /\ e(v[i]) <= s1
      BY <3>1, <3>2, <3>4, <3>6
    <3>8. \A i, j \in 1..(l + 1) : i # j => v[i] # v[j]
      BY <3>1, <3>3, <3>5, <3>6
    <3>9. \A i \in 1..Len(v) : v[i] \notin DOMAIN replay'[c] => F[G[v[i]]].ExpiresAt <= Seen(c)'
      BY <1>2, <3>1, <3>7 DEF new, e, Z, s1
    <3> QED
      BY <3>1, <3>8, <3>9 DEF v
  <2>12. \A x \in DOMAIN replay'[c] : replay'[c][x] = F[G[x]].ExpiresAt
    BY <1>2, <2>7 DEF new, e, Z
  <2> QED
    BY <2>6, <2>9, <2>10, <2>11, <2>12
<1>5. G \in [1..payloads' -> 1..issued']
  BY DEF LaterPayload
<1> QED
  BY <1>3, <1>4, <1>5 DEF PayloadsTrue, NoPayloadTwice

\* A datagram of a process that is gone cannot outlive the tickets of its time.
LEMMA PathsNext ==
    ASSUME TypeInv, TypeInv', Grows, Flow, DeadPathBounded,
           NEW E, TicketsTrue(E), PathsTrue(E), NEW F, Later(E, F)
    PROVE  PathsTrue(F)' /\ DeadPathBounded'
<1>1. /\ clock \in Nat /\ clock' \in Nat /\ clock <= clock'
      /\ TicketTTL \in Nat \ {0} /\ DirectTTL \in Nat \ {0}
  BY Numbers DEF Grows, TypeInv
<1>2. /\ E \in [1..issued -> Ticket] /\ \A k \in 1..issued : F[k] = E[k]
      /\ \A k \in 1..issued : E[k].ExpiresAt \in Nat /\ E[k].ExpiresAt <= clock + TicketTTL
  BY DEF TicketsTrue, Later, Ticket
<1>3. ASSUME NEW n \in Client
      PROVE  born[n] \in Nat /\ born[n] <= clock /\ born'[n] \in Nat
  <2>1. born[n] \in 0..clock /\ born'[n] \in 0..clock'
    BY DEF TypeInv, MapsOK
  <2> QED
    BY <1>1, <2>1
<1>4. \A n \in Client :
        \/ life'[n] = life[n] /\ born'[n] = born[n]
        \/ born'[n] = clock /\ clock' = clock
  BY DEF Flow, LifeFlow
<1>5. ASSUME NEW m \in net, m.type # "probe", m.source # <<m.from, life'[m.from]>>
      PROVE  /\ m.from \in Client /\ m.ticket \in 1..issued
             /\ E[m.ticket].ExpiresAt <= born'[m.from] + TicketTTL
  <2>1. m.from \in Client /\ m.ticket \in 1..issued
    BY DEF TypeInv, WorldOK, Message, TicketsTrue
  <2>2. CASE life'[m.from] = life[m.from] /\ born'[m.from] = born[m.from]
    BY <1>5, <2>1, <2>2 DEF PathsTrue
  <2>3. CASE born'[m.from] = clock
    BY <1>2, <2>1, <2>3
  <2> QED
    BY <1>4, <2>1, <2>2, <2>3
<1>6. ASSUME NEW m \in net', m.type # "probe", m.source # <<m.from, life'[m.from]>>
      PROVE  F[m.ticket].ExpiresAt <= born'[m.from] + TicketTTL
  <2>1. m \in net
    BY <1>6 DEF Flow, NetFlow
  <2> QED
    BY <1>2, <1>5, <1>6, <2>1
<1>7. ASSUME NEW c \in Client, NEW n \in DOMAIN direct'[c]
      PROVE  /\ direct'[c][n].until <= clock' + DirectTTL
             /\ direct'[c][n].endpoint # <<n, life'[n]>>
                    => direct'[c][n].until < born'[n] + TicketTTL + DirectTTL
  <2> DEFINE u == direct'[c][n].until
             e == direct'[c][n].endpoint
  <2>1. n \in Client /\ u \in Nat
    BY DEF TypeInv, PathsOK, IsMap, Path
  <2>2. CASE n \in DOMAIN direct[c] /\ direct'[c][n] = direct[c][n]
    <3>1. /\ u <= clock + DirectTTL
          /\ e # <<n, life[n]>> => u < born[n] + TicketTTL + DirectTTL
      BY <2>2 DEF PathsTrue, DeadPathBounded
    <3> HIDE DEF u, e
    <3>2. CASE life'[n] = life[n] /\ born'[n] = born[n]
      BY <1>1, <2>1, <3>1, <3>2 DEF u, e
    <3>3. CASE born'[n] = clock
      <4>1. u < born'[n] + TicketTTL + DirectTTL /\ u <= clock' + DirectTTL
        BY <1>1, <2>1, <3>1, <3>3
      <4> QED
        BY <4>1 DEF u
    <3> QED
      BY <1>4, <2>1, <3>2, <3>3
  <2>3. CASE \E m \in net, t \in Ticket, now \in 0..clock :
                /\ m.type # "probe" /\ m.from = n
                /\ Holds(c, m.ticket, t) /\ Live(t, now)
                /\ e = m.source /\ u = now + DirectTTL
    <3>1. PICK m \in net, t \in Ticket, now \in 0..clock :
                /\ m.type # "probe" /\ m.from = n
                /\ Holds(c, m.ticket, t) /\ Live(t, now)
                /\ e = m.source /\ u = now + DirectTTL
      BY <2>3
    <3>2. t = E[m.ticket]
      BY <3>1 DEF Holds, TicketsTrue
    <3>3. u <= clock' + DirectTTL
      BY <1>1, <3>1
    <3>4. ASSUME e # <<n, life'[n]>>
          PROVE  u < born'[n] + TicketTTL + DirectTTL
      <4>1. E[m.ticket].ExpiresAt <= born'[n] + TicketTTL /\ E[m.ticket].ExpiresAt \in Nat
        BY <1>2, <1>5, <3>1, <3>4
      <4>2. now < E[m.ticket].ExpiresAt
        BY <3>1, <3>2 DEF Live
      <4>3. born'[n] \in Nat /\ now \in Nat /\ u = now + DirectTTL
        BY <1>3, <2>1, <3>1
      <4> HIDE DEF u
      <4> QED
        BY <1>1, <4>1, <4>2, <4>3
    <3> QED
      BY <3>3, <3>4
  <2> QED
    BY <2>2, <2>3 DEF Flow, ClientFlow, PathFlow
<1> QED
  BY <1>6, <1>7 DEF PathsTrue, DeadPathBounded

------------------------------------------------------------------------------
(* One ticket for a pair *)

\* The step stores a ticket from a to b that counts.
New(a, b) ==
    /\ issued' = issued + 1 /\ issued' \notin overtaken'
    /\ tickets'[issued'].SourceNode = a /\ tickets'[issued'].TargetNode = b

\* A ticket stops counting, but never starts to, unless it is new; where only
\* pairs that have none get one, no pair has two.
LEMMA CountingTickets ==
    ASSUME TypeInv, TypeInv', Grows, TicketFlow, Ownership, OneLiveTicketPerPair,
           overtaken \subseteq overtaken',
           issued' = issued + 1 => tickets'[issued'].SourceNode < tickets'[issued'].TargetNode,
           \A a, b \in Client : New(a, b) => ~Served(a, b)
    PROVE  /\ OneLiveTicketPerPair'
           /\ Ordered'
           /\ \A a, b \in Client : \A k \in DOMAIN tickets' :
                Serves(k, a, b)' => Serves(k, a, b) \/ New(a, b)
           /\ \A a, b \in Client : Served(a, b)' => Served(a, b) \/ New(a, b)
<1>1. /\ IsMap(tickets, 1..issued, Ticket) /\ IsMap(tickets', 1..issued', Ticket)
      /\ clock \in Nat /\ clock' \in Nat /\ clock <= clock' /\ Client \subseteq Nat
  BY Numbers DEF TypeInv, WorldOK, Grows
<1>2. \A k \in DOMAIN tickets' :
        /\ tickets'[k].SourceNode < tickets'[k].TargetNode
        /\ tickets'[k].SourceNode \in Client /\ tickets'[k].TargetNode \in Client
  BY <1>1 DEF Ownership, Ordered, TicketFlow, IsMap, Ticket
<1>3. ASSUME NEW a \in Client, NEW b \in Client, NEW k \in DOMAIN tickets', Serves(k, a, b)'
      PROVE  \/ Serves(k, a, b)
             \/ k = issued' /\ New(a, b)
  <2>1. /\ k \notin overtaken' /\ tickets'[k].SourceNode = a /\ tickets'[k].TargetNode = b
        /\ clock' < tickets'[k].ExpiresAt
    BY <1>3 DEF Serves, Live
  <2>2. CASE k \in DOMAIN tickets /\ tickets'[k] = tickets[k]
    <3>1. tickets[k].ExpiresAt \in Nat
      BY <1>1, <2>2 DEF IsMap, Ticket
    <3>2. clock < tickets[k].ExpiresAt
      BY <1>1, <2>1, <2>2, <3>1
    <3> QED
      BY <2>1, <2>2, <3>2 DEF Serves, Live
  <2>3. CASE k = issued' /\ issued' = issued + 1
    BY <2>1, <2>3 DEF New
  <2> QED
    BY <2>2, <2>3 DEF TicketFlow
<1>4. ASSUME NEW a \in Client, NEW b \in Client, Served(a, b)'
      PROVE  Served(a, b) \/ New(a, b)
  <2>1. PICK k \in DOMAIN tickets' : Serves(k, a, b)'
    BY <1>4 DEF Served
  <2> QED
    BY <1>3, <2>1 DEF Served, Serves
<1>5. OneLiveTicketPerPair'
  <2> SUFFICES ASSUME NEW j \in DOMAIN tickets' \ overtaken', NEW k \in DOMAIN tickets' \ overtaken',
                      {tickets'[j].SourceNode, tickets'[j].TargetNode}
                        = {tickets'[k].SourceNode, tickets'[k].TargetNode},
                      Live(tickets'[j], clock'), Live(tickets'[k], clock')
               PROVE  j = k
    BY DEF OneLiveTicketPerPair
  <2>0. PICK a \in Client, b \in Client : tickets'[j].SourceNode = a /\ tickets'[j].TargetNode = b
    BY <1>2
  <2>1. tickets'[k].SourceNode = a /\ tickets'[k].TargetNode = b
    <3>1. {a, b} = {tickets'[k].SourceNode, tickets'[k].TargetNode}
      BY <2>0
    <3>2. /\ a < b /\ a \in Nat /\ b \in Nat
          /\ tickets'[k].SourceNode < tickets'[k].TargetNode
          /\ tickets'[k].SourceNode \in Nat /\ tickets'[k].TargetNode \in Nat
      BY <1>1, <1>2, <2>0
    <3> QED
      BY <3>1, <3>2
  <2>2. Serves(j, a, b)' /\ Serves(k, a, b)'
    BY <2>0, <2>1 DEF Serves
  <2>3. /\ Serves(j, a, b) \/ (j = issued' /\ New(a, b))
        /\ Serves(k, a, b) \/ (k = issued' /\ New(a, b))
    BY <1>3, <2>2
  <2>4. ASSUME Serves(j, a, b), Serves(k, a, b)
        PROVE  j = k
    BY <2>4 DEF Serves, OneLiveTicketPerPair
  <2>5. New(a, b) => ~Serves(j, a, b) /\ ~Serves(k, a, b)
    BY <2>1 DEF Served, Serves
  <2> QED
    BY <2>3, <2>4, <2>5
<1> QED
  BY <1>2, <1>3, <1>4, <1>5 DEF Ordered

\* Where no ticket is stored, none starts to count.
LEMMA NothingStored ==
    ASSUME TypeInv, TypeInv', Grows, TicketFlow, Ownership, OneLiveTicketPerPair,
           UNCHANGED <<issued, overtaken>>
    PROVE  /\ OneLiveTicketPerPair' /\ Ordered'
           /\ \A a, b \in Client : \A k \in DOMAIN tickets' : Serves(k, a, b)' => Serves(k, a, b)
           /\ \A a, b \in Client : Served(a, b)' => Served(a, b)
<1>1. issued' # issued + 1
  BY DEF Grows
<1>2. \A a, b : ~New(a, b)
  BY <1>1 DEF New
<1> QED
  BY <1>1, <1>2, CountingTickets

\* A client whose poll loop rests, or is past its requests, owes nothing.
LEMMA PollRests ==
    ASSUME \A a, b \in Client : \A k \in DOMAIN tickets' : Serves(k, a, b)' => Serves(k, a, b),
           \A a, b \in Client : Served(a, b)' => Served(a, b),
           NEW d \in Client, PollTrue(d), PollOK(d),
           \A r \in stray' : r.from = d => r \in stray,
           \/ poll'[d] = poll[d] /\ known'[d] = known[d]
           \/ poll'[d].pc \notin {"candidates", "issue"}
    PROVE  PollTrue(d)'
<1>1. CASE poll'[d].pc \notin {"candidates", "issue"}
  BY <1>1 DEF PollTrue
<1>2. CASE poll'[d] = poll[d] /\ known'[d] = known[d]
  <2>1. poll[d].pc = "issue" => poll[d].todo \subseteq Client
    BY DEF PollOK
  <2>2. poll[d].pc = "candidates" =>
        \A n \in Client : \A k \in DOMAIN tickets' : Serves(k, d, n)' => k \in DOMAIN known'[d]
    BY <1>2 DEF PollTrue, Serves
  <2>3. poll[d].pc = "issue" => \A n \in poll[d].todo : d < n /\ ~Served(d, n)'
    BY <2>1 DEF PollTrue
  <2>4. poll[d].pc \in {"candidates", "issue"} => \A r \in stray' : r.from = d => r.overtaken
    BY DEF PollTrue
  <2> QED
    BY <1>2, <2>2, <2>3, <2>4 DEF PollTrue
<1> QED
  BY <1>1, <1>2

\* Steps that neither store nor ask for a ticket.
LEMMA QuietOwnership ==
    ASSUME TypeInv, TypeInv', Grows, TicketFlow, Ownership, OneLiveTicketPerPair,
           UNCHANGED <<issued, strayVars>>,
           \A d \in Client : \/ poll'[d] = poll[d] /\ known'[d] = known[d]
                             \/ poll'[d].pc \notin {"candidates", "issue"}
    PROVE  Ownership' /\ OneLiveTicketPerPair'
<1>1. UNCHANGED <<issued, overtaken>> /\ stray' = stray
  BY DEF strayVars
<1>2. /\ OneLiveTicketPerPair' /\ Ordered'
      /\ \A a, b \in Client : \A k \in DOMAIN tickets' : Serves(k, a, b)' => Serves(k, a, b)
      /\ \A a, b \in Client : Served(a, b)' => Served(a, b)
  BY <1>1, NothingStored
<1>3. StraysTrue'
  <2>1. \A r \in stray : r.from \in Client /\ r.to \in Client
    BY DEF TypeInv, WorldOK, Request
  <2> QED
    BY <1>1, <1>2, <2>1 DEF Ownership, StraysTrue
<1>4. ASSUME NEW d \in Client PROVE PollTrue(d)'
  BY <1>1, <1>2, PollRests DEF Ownership, TypeInv
<1> QED
  BY <1>2, <1>3, <1>4 DEF Ownership

\* The client c gives up on a request it was about to make, or on none, and its
\* poll loop goes on to its probes or ends.
LEMMA AbandonOwnership ==
    ASSUME TypeInv, TypeInv', Grows, TicketFlow, Ownership, OneLiveTicketPerPair,
           UNCHANGED <<issued, overtaken>>,
           NEW c \in Client, poll'[c].pc \notin {"candidates", "issue"},
           \A d \in Client : d # c => Same(d),
           \/ stray' = stray
           \/ /\ poll[c].pc = "issue"
              /\ \E n \in poll[c].todo :
                    stray' = stray \cup {[from |-> c, to |-> n, overtaken |-> FALSE]}
    PROVE  Ownership' /\ OneLiveTicketPerPair'
<1>1. CASE stray' = stray
  <2>1. \A d \in Client : \/ poll'[d] = poll[d] /\ known'[d] = known[d]
                          \/ poll'[d].pc \notin {"candidates", "issue"}
    BY DEF Same, SameMaps
  <2> QED
    BY <1>1, <2>1, QuietOwnership DEF strayVars
<1>2. ASSUME poll[c].pc = "issue", NEW n \in poll[c].todo,
             stray' = stray \cup {[from |-> c, to |-> n, overtaken |-> FALSE]}
      PROVE  Ownership' /\ OneLiveTicketPerPair'
  <2>1. /\ OneLiveTicketPerPair' /\ Ordered'
        /\ \A a, b \in Client : \A k \in DOMAIN tickets' : Serves(k, a, b)' => Serves(k, a, b)
        /\ \A a, b \in Client : Served(a, b)' => Served(a, b)
    BY NothingStored
  <2>2. n \in Client /\ c < n /\ ~Served(c, n) /\ \A r \in stray : r.from = c => r.overtaken
    BY <1>2 DEF TypeInv, PollOK, Ownership, PollTrue
  <2> DEFINE q == [from |-> c, to |-> n, overtaken |-> FALSE]
  <2>3. q.from = c /\ q.to = n /\ q.overtaken = FALSE /\ stray' = stray \cup {q}
    BY <1>2
  <2> HIDE DEF q
  <2>4. StraysTrue'
    <3>1. \A r \in stray : r.from \in Client /\ r.to \in Client
      BY DEF TypeInv, WorldOK, Request
    <3>2. \A r \in stray' : r.from < r.to /\ (~r.overtaken => ~Served(r.from, r.to)')
      BY <2>1, <2>2, <2>3, <3>1 DEF Ownership, StraysTrue
    <3>3. \A r, s \in stray' : ~r.overtaken /\ ~s.overtaken /\ r.from = s.from => r = s
      BY <2>2, <2>3 DEF Ownership, StraysTrue
    <3> QED
      BY <3>2, <3>3 DEF StraysTrue
  <2>5. ASSUME NEW d \in Client PROVE PollTrue(d)'
    <3>1. CASE d = c
      BY <3>1 DEF PollTrue
    <3>2. CASE d # c
      <4>1. poll'[d] = poll[d] /\ known'[d] = known[d]
        BY <3>2 DEF Same, SameMaps
      <4>2. \A r \in stray' : r.from = d => r \in stray
        BY <2>3, <3>2
      <4> QED
        BY <2>1, <4>1, <4>2, PollRests DEF Ownership, TypeInv
    <3> QED
      BY <3>1, <3>2
  <2> QED
    BY <2>1, <2>4, <2>5 DEF Ownership
<1> QED
  BY <1>1, <1>2

\* The coordinator handles a request nobody waits for: if no list has overtaken it,
\* its pair has no ticket and its client is not about to ask.
LEMMA StrayOwnership ==
    ASSUME TypeInv, TypeInv', Grows, TicketFlow, Ownership, OneLiveTicketPerPair,
           NEW r \in stray, StrayIssue(r)
    PROVE  Ownership' /\ OneLiveTicketPerPair'
<1>1. r \in Request /\ stray \subseteq Request
  BY DEF TypeInv, WorldOK
<1>2. /\ Issue(r.from, r.to, clock) /\ clock' = clock /\ stray' = stray \ {r}
      /\ poll' = poll /\ known' = known
  BY DEF StrayIssue, mapVars
<1>3. /\ issued' = issued + 1
      /\ tickets'[issued'].SourceNode = r.from /\ tickets'[issued'].TargetNode = r.to
  <2>1. /\ issued' = issued + 1
        /\ tickets'[issued']
             = [SourceNode |-> r.from, TargetNode |-> r.to, ExpiresAt |-> clock + TicketTTL]
    BY <1>2, IssueFlow
  <2> QED
    BY <2>1
<1>4. overtaken' = (IF r.overtaken THEN overtaken \cup {issued'} ELSE overtaken)
  BY <1>3 DEF StrayIssue
<1>5. overtaken \subseteq overtaken' /\ (r.overtaken => issued' \in overtaken')
  BY <1>4
<1>6. \A a, b \in Client : New(a, b) => a = r.from /\ b = r.to /\ ~r.overtaken
  BY <1>3, <1>5 DEF New
<1>7. r.from < r.to /\ (~r.overtaken => ~Served(r.from, r.to))
  BY DEF Ownership, StraysTrue
<1>8. /\ OneLiveTicketPerPair' /\ Ordered'
      /\ \A a, b \in Client : \A k \in DOMAIN tickets' :
            Serves(k, a, b)' => Serves(k, a, b) \/ New(a, b)
      /\ \A a, b \in Client : Served(a, b)' => Served(a, b) \/ New(a, b)
  BY <1>3, <1>5, <1>6, <1>7, CountingTickets
<1>9. StraysTrue'
  <2>1. ASSUME NEW s \in stray, s # r
        PROVE  s.from < s.to /\ (~s.overtaken => ~Served(s.from, s.to)')
    <3>1. s.from \in Client /\ s.to \in Client /\ s.from < s.to
      BY <1>1 DEF Request, Ownership, StraysTrue
    <3>2. ASSUME ~s.overtaken PROVE ~Served(s.from, s.to)'
      <4>1. ~Served(s.from, s.to)
        BY <3>2 DEF Ownership, StraysTrue
      <4>2. ~New(s.from, s.to)
        BY <1>6, <2>1, <3>1, <3>2 DEF Ownership, StraysTrue
      <4> QED
        BY <1>8, <3>1, <4>1, <4>2
    <3> QED
      BY <3>1, <3>2
  <2> QED
    BY <1>2, <2>1 DEF Ownership, StraysTrue
<1>10. ASSUME NEW d \in Client PROVE PollTrue(d)'
  <2>1. poll[d].pc \in {"candidates", "issue"} => \A n \in Client : ~New(d, n)
    BY <1>6 DEF Ownership, PollTrue
  <2>2. poll[d].pc = "candidates" =>
        \A n \in Client : \A k \in DOMAIN tickets' : Serves(k, d, n)' => k \in DOMAIN known[d]
    BY <1>8, <2>1 DEF Ownership, PollTrue, Serves
  <2>3. poll[d].pc = "issue" => poll[d].todo \subseteq Client
    BY DEF TypeInv, PollOK
  <2>4. poll[d].pc = "issue" => \A n \in poll[d].todo : d < n /\ ~Served(d, n)'
    BY <1>8, <2>1, <2>3 DEF Ownership, PollTrue
  <2>5. poll[d].pc \in {"candidates", "issue"} => \A s \in stray' : s.from = d => s.overtaken
    BY <1>2 DEF Ownership, PollTrue
  <2> QED
    BY <1>2, <2>2, <2>4, <2>5 DEF PollTrue
<1> QED
  BY <1>8, <1>9, <1>10 DEF Ownership

\* The list tells a client all tickets it owns, and overtakes its requests.
LEMMA PollTicketsOwnership ==
    ASSUME TypeInv, TypeInv', Grows, TicketFlow, Ownership, OneLiveTicketPerPair,
           NEW c \in Client, PollTickets(c)
    PROVE  Ownership' /\ OneLiveTicketPerPair'
<1>1. /\ UNCHANGED <<issued, overtaken>> /\ poll'[c] = [pc |-> "candidates"]
      /\ \A k \in DOMAIN tickets :
            Names(tickets[k], c) /\ Live(tickets[k], clock) => k \in DOMAIN known'[c]
  BY ListFacts DEF PollTickets
<1>2. /\ OneLiveTicketPerPair' /\ Ordered'
      /\ \A a, b \in Client : \A k \in DOMAIN tickets' : Serves(k, a, b)' => Serves(k, a, b)
      /\ \A a, b \in Client : Served(a, b)' => Served(a, b)
  BY <1>1, NothingStored
<1>3. stray' = {[r EXCEPT !.overtaken = r.overtaken \/ r.from = c] : r \in stray}
  BY DEF PollTickets
<1>4. ASSUME NEW s \in stray'
      PROVE  \E r \in stray :
                /\ s.from = r.from /\ s.to = r.to
                /\ r.overtaken \/ r.from = c => s.overtaken
                /\ ~s.overtaken => s = r
  <2>1. PICK r \in stray : s = [r EXCEPT !.overtaken = r.overtaken \/ r.from = c]
    BY <1>3
  <2>2. r \in [from : Client, to : Client, overtaken : BOOLEAN]
    BY DEF TypeInv, WorldOK, Request
  <2>3. s.from = r.from /\ s.to = r.to /\ s.overtaken = (r.overtaken \/ r.from = c)
    BY <2>1, <2>2
  <2>4. ASSUME ~s.overtaken PROVE s = r
    <3>1. r.overtaken = FALSE /\ r.overtaken = (r.overtaken \/ r.from = c)
      BY <2>2, <2>3, <2>4
    <3>2. s = [r EXCEPT !.overtaken = r.overtaken]
      BY <2>1, <3>1
    <3> QED
      BY <2>2, <3>2
  <2> QED
    BY <2>3, <2>4
<1>5. StraysTrue'
  <2>1. \A r \in stray : r.from \in Client /\ r.to \in Client
    BY DEF TypeInv, WorldOK, Request
  <2>2. \A s \in stray' : s.from < s.to /\ (~s.overtaken => ~Served(s.from, s.to)')
    BY <1>2, <1>4, <2>1 DEF Ownership, StraysTrue
  <2>3. \A s \in stray' : ~s.overtaken => s \in stray
    BY <1>4
  <2>4. \A r, s \in stray' : ~r.overtaken /\ ~s.overtaken /\ r.from = s.from => r = s
    BY <2>3 DEF Ownership, StraysTrue
  <2> QED
    BY <2>2, <2>4 DEF StraysTrue
<1>6. ASSUME NEW d \in Client PROVE PollTrue(d)'
  <2>1. CASE d = c
    <3>1. \A s \in stray' : s.from = c => s.overtaken
      BY <1>4
    <3>2. ASSUME NEW n \in Client, NEW k \in DOMAIN tickets', Serves(k, c, n)'
          PROVE  k \in DOMAIN known'[c]
      <4>1. Serves(k, c, n)
        BY <1>2, <3>2
      <4> QED
        BY <1>1, <4>1 DEF Serves, Names
    <3> QED
      BY <1>1, <2>1, <3>1, <3>2 DEF PollTrue
  <2>2. CASE d # c
    <3>1. poll'[d] = poll[d] /\ known'[d] = known[d]
      BY <2>2, OthersRest DEF TypeInv, Same, SameMaps, ClientStep, PollStep
    <3>2. poll[d].pc \in {"candidates", "issue"} => \A s \in stray' : s.from = d => s.overtaken
      <4>1. poll[d].pc \in {"candidates", "issue"} => \A s \in stray : s.from = d => s.overtaken
        BY DEF Ownership, PollTrue
      <4> QED
        BY <1>4, <4>1
    <3>3. poll[d].pc = "candidates" =>
          \A n \in Client : \A k \in DOMAIN tickets' : Serves(k, d, n)' => k \in DOMAIN known[d]
      BY <1>2 DEF Ownership, PollTrue, Serves
    <3>4. poll[d].pc = "issue" => \A n \in poll[d].todo : d < n /\ ~Served(d, n)'
      BY <1>2 DEF Ownership, PollTrue, TypeInv, PollOK
    <3> QED
      BY <3>1, <3>2, <3>3, <3>4 DEF PollTrue
  <2> QED
    BY <2>1, <2>2
<1> QED
  BY <1>2, <1>5, <1>6 DEF Ownership

\* A client asks for tickets of the pairs it owns that have none.
LEMMA PollCandidatesOwnership ==
    ASSUME TypeInv, TypeInv', Grows, TicketFlow, Ownership, OneLiveTicketPerPair,
           NEW E, TicketsTrue(E), NEW c \in Client, PollCandidates(c)
    PROVE  Ownership' /\ OneLiveTicketPerPair'
<1> DEFINE fresh == {n \in (DOMAIN observed \cap registered) \ {c} :
                        clock - observed[n].at <= CandidateMaxAge}
           own == Probes(c, known[c], fresh)
           todo == {n \in fresh : NeedsTicket(c, n, clock)}
<1>1. /\ Continue(c, todo, own, clock) /\ poll[c].pc = "candidates"
      /\ UNCHANGED <<clock, issued, tickets, stray, overtaken, known>>
  BY DEF PollCandidates, coordVars, ticketVars, strayVars
<1>2. todo \subseteq Client /\ DOMAIN known[c] \subseteq Nat /\ clock \in Nat
  BY Numbers DEF TypeInv, WorldOK, MapsOK, IsMap
<1>3. /\ OneLiveTicketPerPair' /\ Ordered'
      /\ \A a, b \in Client : \A k \in DOMAIN tickets' : Serves(k, a, b)' => Serves(k, a, b)
      /\ \A a, b \in Client : Served(a, b)' => Served(a, b)
  BY <1>1, NothingStored
<1>4. \A r \in stray : r.from = c => r.overtaken
  BY <1>1 DEF Ownership, PollTrue
<1>5. ASSUME NEW n \in todo PROVE c < n /\ ~Served(c, n)
  <2>1. c < n /\ ~HasLiveSourceTicket(c, n, clock)
    BY DEF NeedsTicket
  <2>2. ASSUME NEW k \in DOMAIN tickets, Serves(k, c, n) PROVE FALSE
    <3>1. k \in DOMAIN known[c]
      BY <1>1, <1>2, <2>2 DEF Ownership, PollTrue
    <3>2. known[c][k] = tickets[k]
      BY <3>1 DEF TicketsTrue
    <3> QED
      BY <2>1, <2>2, <3>1, <3>2 DEF Serves, HasLiveSourceTicket
  <2> QED
    BY <2>1, <2>2 DEF Served
<1> HIDE DEF fresh, todo
<1>6. own \in SUBSET Nat
  BY <1>2, ProbesFacts
<1> HIDE DEF own
<1>7. /\ poll'[c].pc # "candidates"
      /\ poll'[c].pc = "issue" => poll'[c].todo = todo
  BY <1>1, <1>2, <1>6, ContinueType DEF TypeInv
<1>8. StraysTrue'
  <2>1. \A r \in stray : r.from \in Client /\ r.to \in Client
    BY DEF TypeInv, WorldOK, Request
  <2> QED
    BY <1>1, <1>3, <2>1 DEF Ownership, StraysTrue
<1>9. ASSUME NEW d \in Client PROVE PollTrue(d)'
  <2>1. CASE d = c
    <3>1. \A n \in todo : c < n /\ ~Served(c, n)'
      BY <1>2, <1>3, <1>5
    <3> QED
      BY <1>1, <1>4, <1>7, <2>1, <3>1 DEF PollTrue
  <2>2. CASE d # c
    <3>1. poll'[d] = poll[d] /\ known'[d] = known[d]
      BY <2>2, OthersRest DEF TypeInv, Same, SameMaps, ClientStep, PollStep
    <3> QED
      BY <1>1, <1>3, <3>1, PollRests DEF Ownership, TypeInv
  <2> QED
    BY <2>1, <2>2
<1> QED
  BY <1>3, <1>8, <1>9 DEF Ownership

\* The ticket that is issued is the first of its pair, and the client asks for no
\* second one.
LEMMA IssueTicketOwnership ==
    ASSUME TypeInv, TypeInv', Grows, TicketFlow, Ownership, OneLiveTicketPerPair,
           NEW c \in Client, NEW n \in Client, IssueTicket(c, n)
    PROVE  Ownership' /\ OneLiveTicketPerPair'
<1> DEFINE todo == poll[c].todo \ {n}
           own == Probes(c, known'[c], DOMAIN candidates[c])
<1>1. /\ poll[c].pc = "issue" /\ n \in poll[c].todo
      /\ Issue(c, n, clock) /\ clock' = clock /\ stray' = stray /\ overtaken' = overtaken
      /\ Continue(c, todo, own, poll[c].at)
  BY DEF IssueTicket, strayVars
<1>2. /\ issued' = issued + 1
      /\ tickets'[issued'].SourceNode = c /\ tickets'[issued'].TargetNode = n
  <2>1. /\ issued' = issued + 1
        /\ tickets'[issued']
             = [SourceNode |-> c, TargetNode |-> n, ExpiresAt |-> clock + TicketTTL]
    BY <1>1, IssueFlow
  <2> QED
    BY <2>1
<1>3. /\ poll[c].todo \subseteq Client
      /\ \A m \in poll[c].todo : c < m /\ ~Served(c, m)
      /\ \A r \in stray : r.from = c => r.overtaken
  BY <1>1 DEF Ownership, PollTrue, TypeInv, PollOK
<1>4. \A a, b \in Client : New(a, b) => a = c /\ b = n
  BY <1>2 DEF New
<1>5. /\ OneLiveTicketPerPair' /\ Ordered'
      /\ \A a, b \in Client : \A k \in DOMAIN tickets' :
            Serves(k, a, b)' => Serves(k, a, b) \/ New(a, b)
      /\ \A a, b \in Client : Served(a, b)' => Served(a, b) \/ New(a, b)
  BY <1>1, <1>2, <1>3, <1>4, CountingTickets
<1>6. /\ poll'[c].pc # "candidates"
      /\ poll'[c].pc = "issue" => poll'[c].todo = poll[c].todo \ {n}
  <2>1. todo \in SUBSET Client /\ poll[c].at \in Nat /\ DOMAIN known'[c] \subseteq Nat
    BY <1>1, <1>3 DEF TypeInv, PollOK, PollState, MapsOK, IsMap
  <2>2. own \in SUBSET Nat
    BY <2>1, ProbesFacts
  <2> HIDE DEF todo, own
  <2>3. /\ poll'[c].pc # "candidates"
        /\ poll'[c].pc = "issue" => poll'[c].todo = todo
    BY <1>1, <2>1, <2>2, ContinueType DEF TypeInv
  <2> QED
    BY <2>3 DEF todo
<1>7. StraysTrue'
  <2>1. \A r \in stray : r.from \in Client /\ r.to \in Client
    BY DEF TypeInv, WorldOK, Request
  <2> QED
    BY <1>1, <1>3, <1>4, <1>5, <2>1 DEF Ownership, StraysTrue
<1>8. ASSUME NEW d \in Client PROVE PollTrue(d)'
  <2>1. CASE d = c
    <3>1. \A m \in poll[c].todo \ {n} : c < m /\ ~Served(c, m)'
      BY <1>3, <1>4, <1>5
    <3> QED
      BY <1>1, <1>3, <1>6, <2>1, <3>1 DEF PollTrue
  <2>2. CASE d # c
    <3>1. poll'[d] = poll[d] /\ known'[d] = known[d]
      BY <2>2, OthersRest DEF TypeInv, Same, SameMaps, ClientStep, PollStep
    <3>2. /\ \A b \in Client : \A k \in DOMAIN tickets' : Serves(k, d, b)' => Serves(k, d, b)
          /\ \A b \in Client : Served(d, b)' => Served(d, b)
      BY <1>4, <1>5, <2>2
    <3>3. poll[d].pc = "candidates" =>
          \A b \in Client : \A k \in DOMAIN tickets' : Serves(k, d, b)' => k \in DOMAIN known[d]
      BY <3>2 DEF Ownership, PollTrue, Serves
    <3>4. poll[d].pc = "issue" => \A b \in poll[d].todo : d < b /\ ~Served(d, b)'
      BY <3>2 DEF Ownership, PollTrue, TypeInv, PollOK
    <3>5. poll[d].pc \in {"candidates", "issue"} => \A r \in stray' : r.from = d => r.overtaken
      BY <1>1 DEF Ownership, PollTrue
    <3> QED
      BY <3>1, <3>3, <3>4, <3>5 DEF PollTrue
  <2> QED
    BY <2>1, <2>2
<1> QED
  BY <1>5, <1>7, <1>8 DEF Ownership

\* Every step keeps the ownership of tickets.
LEMMA OwnershipNext ==
    ASSUME TypeInv, TypeInv', Grows, TicketFlow, Ownership, OneLiveTicketPerPair,
           NEW E, TicketsTrue(E), [P2PNext]_vars
    PROVE  Ownership' /\ OneLiveTicketPerPair'
<1> USE DEF coordVars, ticketVars, strayVars, mapVars
<1>1. CASE Tick \/ UNCHANGED vars
  BY <1>1, QuietOwnership DEF Tick, vars
<1>2. ASSUME NEW r \in stray, StrayIssue(r) PROVE Ownership' /\ OneLiveTicketPerPair'
  BY <1>2, StrayOwnership
<1>3. ASSUME NEW c \in Client, Hello(c) \/ LeaseExpires(c)
      PROVE  Ownership' /\ OneLiveTicketPerPair'
  BY <1>3, QuietOwnership DEF Hello, LeaseExpires, ForgetNode
<1>4. ASSUME NEW c \in Client, Restart(c) PROVE Ownership' /\ OneLiveTicketPerPair'
  <2>1. poll'[c] = Idle /\ UNCHANGED <<issued, overtaken>>
    BY <1>4 DEF Restart, TypeInv, ClientsOK, PerClient
  <2>2. \A d \in Client : d # c => Same(d)
    BY <1>4, OthersRest DEF TypeInv, ClientStep
  <2>3. \/ stray' = stray
        \/ /\ poll[c].pc = "issue"
           /\ \E n \in poll[c].todo :
                stray' = stray \cup {[from |-> c, to |-> n, overtaken |-> FALSE]}
    BY <1>4 DEF Restart, Abandon
  <2>4. poll'[c].pc \notin {"candidates", "issue"}
    BY <2>1 DEF Idle
  <2> QED
    BY <2>1, <2>2, <2>3, <2>4, AbandonOwnership
<1>5. ASSUME NEW c \in Client, NEW n \in Client, IssueFails(c, n)
      PROVE  Ownership' /\ OneLiveTicketPerPair'
  <2> DEFINE own == Probes(c, known[c], DOMAIN candidates[c])
  <2>1. /\ UNCHANGED <<issued, overtaken>> /\ Continue(c, {}, own, poll[c].at)
        /\ poll[c].pc = "issue" /\ n \in poll[c].todo
    BY <1>5 DEF IssueFails
  <2>2. \A d \in Client : d # c => Same(d)
    BY <1>5, OthersRest DEF TypeInv, ClientStep, PollStep
  <2>3. \/ stray' = stray
        \/ stray' = stray \cup {[from |-> c, to |-> n, overtaken |-> FALSE]}
    BY <1>5 DEF IssueFails, Abandon
  <2>4. DOMAIN known[c] \subseteq Nat /\ poll[c].at \in Nat
    BY <2>1 DEF TypeInv, MapsOK, IsMap, PollOK, PollState
  <2>5. own \in SUBSET Nat
    BY <2>4, ProbesFacts
  <2> HIDE DEF own
  <2>6. poll'[c].pc \notin {"candidates", "issue"}
    BY <2>1, <2>4, <2>5, ContinueType DEF TypeInv
  <2> QED
    BY <2>1, <2>2, <2>3, <2>6, AbandonOwnership
<1>6. ASSUME NEW c \in Client, CandidatesFail(c) PROVE Ownership' /\ OneLiveTicketPerPair'
  <2>1. poll'[c] = Idle /\ UNCHANGED <<issued, stray, overtaken, known>>
    BY <1>6 DEF CandidatesFail, Polls, TypeInv, ClientsOK, PerClient
  <2>2. \A d \in Client : d # c => poll'[d] = poll[d]
    BY <1>6, OthersRest DEF TypeInv, ClientStep, PollStep, Same
  <2>3. poll'[c].pc \notin {"candidates", "issue"}
    BY <2>1 DEF Idle
  <2> QED
    BY <2>1, <2>2, <2>3, QuietOwnership
<1>7. ASSUME NEW c \in Client, NEW k \in 1..issued, SendProbe(c, k) \/ ProbeFails(c, k)
      PROVE  Ownership' /\ OneLiveTicketPerPair'
  <2>1. /\ poll[c].pc = "probe" /\ Probed(c, k)
        /\ UNCHANGED <<issued, stray, overtaken, known>>
    BY <1>7 DEF SendProbe, ProbeFails
  <2>2. \A d \in Client : d # c => poll'[d] = poll[d]
    BY <1>7, OthersRest DEF TypeInv, ClientStep, PollStep, Same
  <2>3. poll'[c] = Idle \/ poll'[c] = [pc |-> "probe", todo |-> poll[c].todo \ {k}]
    BY <2>1, ProbedFacts
  <2>4. poll'[c].pc \notin {"candidates", "issue"}
    BY <2>3 DEF Idle
  <2> QED
    BY <2>1, <2>2, <2>4, QuietOwnership
<1>8. ASSUME NEW c \in Client, PollStep(c) PROVE Ownership' /\ OneLiveTicketPerPair'
  BY <1>5, <1>6, <1>7, <1>8, PollTicketsOwnership, PollCandidatesOwnership,
     IssueTicketOwnership DEF PollStep
<1>9. ASSUME NEW c \in Client, NEW m \in net, Receive(c, m)
      PROVE  Ownership' /\ OneLiveTicketPerPair'
  BY <1>9, QuietOwnership DEF Receive
<1>10. ASSUME NEW c \in Client, RecvStep(c) PROVE Ownership' /\ OneLiveTicketPerPair'
  <2>1. UNCHANGED <<issued, stray, overtaken, known, poll>>
    BY <1>10 DEF RecvStep, AnswerProbe, AcceptAck, AcceptPayload, DropDatagram
  <2> QED
    BY <2>1, QuietOwnership
<1>11. ASSUME NEW c \in Client, SendStep(c) PROVE Ownership' /\ OneLiveTicketPerPair'
  <2>1. UNCHANGED <<issued, stray, overtaken, known, poll>>
    BY <1>11 DEF SendStep, SendDirect, SendFails, HealthExpires
  <2> QED
    BY <2>1, QuietOwnership
<1> QED
  BY <1>1, <1>2, <1>3, <1>4, <1>8, <1>9, <1>10, <1>11 DEF P2PNext

------------------------------------------------------------------------------
(* The invariant, and what it says of the system *)

\* At first no ticket has been issued and no payload sent.
LEMMA InvInit == P2PInit => P2PInv
<1> SUFFICES ASSUME P2PInit PROVE P2PInv
  OBVIOUS
<1>1. TypeInv
  BY TypeInit
<1>2. /\ issued = 0 /\ payloads = 0 /\ tickets = Empty /\ net = {} /\ stray = {}
      /\ \A c \in Client :
            /\ known[c] = Empty /\ pending[c] = Empty /\ direct[c] = Empty /\ replay[c] = Empty
            /\ written[c] = <<>> /\ poll[c].pc = "idle" /\ recv[c].pc = "idle"
  BY DEF P2PInit, TicketsInit, Idle
<1>3. 1..issued = {} /\ 1..payloads = {} /\ DOMAIN Empty = {} /\ 1..Len(<<>>) = {}
  BY <1>2, EmptyType, EmptySeq
<1>4. PICK E \in [1..issued -> Ticket], D \in [1..payloads -> 1..issued] : TRUE
  <2>1. [k \in {} |-> k] \in [1..issued -> Ticket] /\ [k \in {} |-> k] \in [1..payloads -> 1..issued]
    BY <1>3
  <2> QED
    BY <2>1
<1>5. TicketsTrue(E) /\ PayloadsTrue(E, D) /\ PathsTrue(E)
  BY <1>2, <1>3, <1>4 DEF TicketsTrue, PayloadsTrue, PathsTrue
<1>6. Ownership
  BY <1>2, <1>3 DEF Ownership, Ordered, StraysTrue, PollTrue
<1>7. NoPayloadTwice /\ DeadPathBounded /\ OneLiveTicketPerPair
  BY <1>2, <1>3 DEF NoPayloadTwice, DeadPathBounded, OneLiveTicketPerPair
<1> QED
  BY <1>1, <1>4, <1>5, <1>6, <1>7 DEF P2PInv

\* A step extends the history or leaves it alone.
LEMMA InvNext == P2PInv /\ [P2PNext]_vars => P2PInv'
<1> SUFFICES ASSUME P2PInv, [P2PNext]_vars PROVE P2PInv'
  OBVIOUS
<1>1. TypeInv /\ TypeInv' /\ Grows /\ Flow
  BY TypeNext, FlowNext DEF P2PInv
<1>2. PICK E \in [1..issued -> Ticket], D \in [1..payloads -> 1..issued] :
        TicketsTrue(E) /\ PayloadsTrue(E, D) /\ PathsTrue(E)
  BY DEF P2PInv
<1>3. Ownership /\ NoPayloadTwice /\ DeadPathBounded /\ OneLiveTicketPerPair
  BY DEF P2PInv
<1>4. PICK F \in [1..issued' -> Ticket] : Later(E, F)
  BY <1>1, LaterExists
<1>5. TicketsTrue(F)'
  BY <1>1, <1>2, <1>4, TicketsNext
<1>6. Ownership' /\ OneLiveTicketPerPair'
  BY <1>1, <1>2, <1>3, OwnershipNext DEF Flow
<1>7. PathsTrue(F)' /\ DeadPathBounded'
  BY <1>1, <1>2, <1>3, <1>4, PathsNext
<1>8. PICK G \in [1..payloads' -> 1..issued'] : LaterPayload(D, G)
  <2>1. \A m \in net' : m.ticket \in 1..issued'
    BY <1>5 DEF TicketsTrue
  <2> QED
    BY <1>1, <1>2, <2>1, LaterPayloadExists
<1>9. PayloadsTrue(F, G)' /\ NoPayloadTwice'
  BY <1>1, <1>2, <1>3, <1>4, <1>5, <1>8, PayloadsNext
<1> QED
  BY <1>1, <1>4, <1>5, <1>6, <1>7, <1>8, <1>9 DEF P2PInv

\* The inductive invariant holds of every behaviour.
THEOREM P2PInvariant == P2PSpec => []P2PInv
<1>1. P2PInit => P2PInv
  BY InvInit
<1>2. P2PInv /\ [P2PNext]_vars => P2PInv'
  BY InvNext
<1> QED
  BY <1>1, <1>2, PTL DEF P2PSpec

\* The maps of coordinator, runtime and selector have their types: no client is
\* its own candidate or path, and no key lies outside what was issued or sent.
THEOREM P2PTypeCorrect == P2PSpec => []P2PTypeOK
<1>1. ASSUME P2PInv PROVE P2PTypeOK
  <2>1. TypeInv
    BY <1>1 DEF P2PInv
  <2>2. 1..issued \subseteq 1..MaxTickets /\ 1..payloads \subseteq 1..MaxPayloads
    BY <2>1, Numbers DEF TypeInv, WorldOK
  <2>3. IsMap(tickets, 1..MaxTickets, Ticket)
    BY <2>1, <2>2, Widen DEF TypeInv, WorldOK
  <2>4. ASSUME NEW c \in Client
        PROVE  /\ IsMap(known[c], 1..MaxTickets, Ticket)
               /\ IsMap(candidates[c], Client \ {c}, Endpoint)
               /\ DOMAIN pending[c] \subseteq 1..probes
               /\ IsMap(lastIssued[c], Client, 0..clock)
               /\ IsMap(direct[c], Client \ {c}, [endpoint : Endpoint, until : Nat])
               /\ IsMap(replay[c], 1..MaxPayloads, Nat)
               /\ poll[c].pc \in {"idle", "candidates", "issue", "probe"}
               /\ recv[c].pc \in {"idle", "verify"}
    <3>1. MapsOK(c) /\ PathsOK(c) /\ PollOK(c) /\ RecvOK(c)
      BY <2>1 DEF TypeInv
    <3>2. IsMap(known[c], 1..MaxTickets, Ticket) /\ IsMap(replay[c], 1..MaxPayloads, Nat)
      BY <2>2, <3>1, Widen DEF MapsOK, PathsOK
    <3>3. DOMAIN pending[c] \subseteq 1..probes
      BY <3>1 DEF MapsOK, IsMap
    <3>4. /\ poll[c].pc \in {"idle", "candidates", "issue", "probe"}
          /\ recv[c].pc \in {"idle", "verify"}
      BY <3>1 DEF PollOK, RecvOK, PollState, RecvState
    <3> QED
      BY <3>1, <3>2, <3>3, <3>4 DEF MapsOK, PathsOK, Path
  <2> QED
    BY <2>1, <2>3, <2>4 DEF P2PTypeOK, TypeInv, WorldOK
<1> QED
  BY <1>1, P2PInvariant, PTL

\* HandleDirectPayload never writes one payload to the TUN twice, whatever the
\* network repeats and whenever the replay cache is pruned, because a key leaves
\* the cache only when its ticket has expired for the loop that reads the time.
THEOREM NoPayloadEverTwice == P2PSpec => []NoPayloadTwice
<1>1. P2PInv => NoPayloadTwice
  BY DEF P2PInv
<1> QED
  BY <1>1, P2PInvariant, PTL

\* MarkDirectHealthy cannot keep a path to a process that is gone: nothing that
\* process sent verifies later than the lifetime of the last ticket it had.
THEOREM DeadPathsAlwaysBounded == P2PSpec => []DeadPathBounded
<1>1. P2PInv => DeadPathBounded
  BY DEF P2PInv
<1> QED
  BY <1>1, P2PInvariant, PTL

\* issueNeededTickets gives a pair no second live ticket, whatever requests fail
\* and whoever restarts, but for requests that arrive after the next list.
THEOREM OneLiveTicketAlways == P2PSpec => []OneLiveTicketPerPair
<1>1. P2PInv => OneLiveTicketPerPair
  BY DEF P2PInv
<1> QED
  BY <1>1, P2PInvariant, PTL

==============================================================================
