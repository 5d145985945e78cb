--------------------------- MODULE LifecycleProofs ---------------------------
(***************************************************************************)
(* Proofs about clients and coordinator over the life of leases.           *)
(*                                                                         *)
(* The argument is about time.  A client was last heard of when its lease  *)
(* was renewed or, if its coordinator has been restarted since, at that    *)
(* restart at the latest.  From then on its next heartbeat starts within   *)
(* one timeout and one interval, and each failure adds at most Pace        *)
(* (Patience); it gives up at the third failure, and a request takes no    *)
(* longer than the timeout, so it is gone before the lease is over if the  *)
(* lease covers the retries.  The flags do not see to that, so             *)
(* LeaseCoversRetries is a hypothesis of the theorems that need it.        *)
(*                                                                         *)
(* Last, every step is a step of Registry, leaves it alone or is a restart *)
(* of the coordinator, so that what RegistryProofs shows of leases and     *)
(* tokens holds over restarts too, for all flags.                          *)
(***************************************************************************)
EXTENDS Lifecycle, RegistryProofs, SequenceTheorems

UpState ==
    [pc : {"up"}, life : Nat, epoch : Nat, token : Nat, ip : Addr, due : Nat, tick : Nat,
     heard : BOOLEAN, failures : 0..2]

ClientState == [pc : {"down"}, life : Nat] \cup UpState

\* The time in which a client that has failed f times starts the next heartbeat.
Patience(f) ==
    IF f = 0 THEN Timeout + HeartbeatInterval
    ELSE IF f = 1 THEN Timeout + HeartbeatInterval + Pace
    ELSE Timeout + HeartbeatInterval + Pace + Pace

\* The heartbeat of client n is due in time for what was heard of it at time s.
DueBy(n, s) ==
    /\ clients[n].due <= s + Patience(clients[n].failures)
    /\ clients[n].heard => clients[n].due <= s

\* The client of node n holds the lease in the registry,
Leased(n) ==
    /\ n \in DOMAIN peers
    /\ peers[n].SessionToken = clients[n].token
    /\ peers[n].VirtualIP = clients[n].ip
    /\ DueBy(n, peers[n].LastSeen)

\* or its coordinator was restarted and the session is gone.
Orphaned(n) ==
    /\ clients[n].token \notin DOMAIN byToken
    /\ DueBy(n, boots[clients[n].epoch + 1])

\* A heartbeat is never far off and never overdue for more than a timeout, and the
\* tick after it is at most an interval away.
Timely(n) ==
    /\ clients[n].due <= clock + Patience(0)
    /\ clients[n].heard => clients[n].due <= clock
    /\ clock <= clients[n].due + Timeout
    /\ clients[n].tick <= clients[n].due + HeartbeatInterval

ProcessInv(n) ==
    /\ clients[n].token \in 1..minted /\ clients[n].epoch \in 1..Epoch
    /\ Timely(n)
    /\ clients[n].epoch = Epoch => Leased(n)
    /\ clients[n].epoch # Epoch => Orphaned(n)

LifecycleInv ==
    /\ RegistryInv
    /\ clock \in 0..MaxTime
    /\ boots \in Seq(Nat) /\ Epoch >= 1
    /\ clients \in [Node -> ClientState]
    /\ \A n \in Node : Running(n) => ProcessInv(n)

\* The constants, and the patience of a client, in the form the proofs use.
LEMMA Durations ==
    /\ HeartbeatInterval \in Nat \ {0} /\ Timeout \in Nat /\ LeaseTTL \in Nat /\ MaxTime \in Nat
    /\ \A t \in 0..MaxTime : t \in Time /\ t \in Nat
    /\ Pace \in Nat /\ HeartbeatInterval <= Pace /\ Timeout <= Pace
    /\ Patience(0) = Timeout + HeartbeatInterval /\ Pace <= Patience(0)
    /\ \A f : Patience(f) \in Nat /\ Patience(0) <= Patience(f)
    /\ \A f \in 0..1 : Patience(f + 1) = Patience(f) + Pace
<1>1. /\ HeartbeatInterval \in Nat \ {0} /\ Timeout \in Nat /\ LeaseTTL \in Nat /\ MaxTime \in Nat
      /\ \A t \in 0..MaxTime : t \in Time /\ t \in Nat
    BY LifecycleAssumption
<1>2. Pace \in Nat /\ HeartbeatInterval <= Pace /\ Timeout <= Pace
      /\ Pace <= Timeout + HeartbeatInterval
    BY <1>1 DEF Pace
<1> QED BY <1>1, <1>2 DEF Patience

\* A lease that covers the retries outlasts the patience of a client.
LEMMA Margin ==
    ASSUME LeaseCoversRetries, NEW f
    PROVE  Patience(f) + Timeout < LeaseTTL
    BY Durations DEF LeaseCoversRetries, maxHeartbeatFailures, Patience

\* Before the first client.
LEMMA LifecycleInit == Init => LifecycleInv
<1> SUFFICES ASSUME Init PROVE LifecycleInv
    OBVIOUS
<1>1. RegistryInv
    BY InitInv DEF Init
<1>2. clock \in 0..MaxTime /\ boots \in Seq(Nat) /\ Epoch >= 1
    BY Durations DEF Init, Epoch
<1>3. clients \in [Node -> ClientState] /\ \A n \in Node : ~Running(n)
    BY DEF Init, Down, ClientState, UpState, Running
<1> QED BY <1>1, <1>2, <1>3 DEF LifecycleInv

\* What is known of a running client.
LEMMA ClientFacts ==
    ASSUME LifecycleInv, NEW n \in Node, Running(n)
    PROVE  clients[n] \in UpState /\ ProcessInv(n)
<1>1. clients[n].pc = "up" /\ clients[n] \in ClientState /\ ProcessInv(n)
    BY DEF LifecycleInv, Running
<1>2. ASSUME NEW c \in [pc : {"down"}, life : Nat] PROVE c.pc # "up"
    OBVIOUS
<1> QED BY <1>1, <1>2 DEF ClientState

\* The types of the rest.
LEMMA StateFacts ==
    ASSUME LifecycleInv
    PROVE  /\ clock \in Nat /\ clock \in Time /\ clock \in 0..MaxTime
           /\ Epoch \in Nat /\ Epoch >= 1 /\ minted \in Nat
           /\ \A i \in 1..Epoch : boots[i] \in Nat
           /\ \A n \in DOMAIN peers : peers[n] \in Peer /\ peers[n].LastSeen \in Nat /\ n \in Node
<1>1. clock \in Nat /\ clock \in Time /\ clock \in 0..MaxTime
    BY Durations DEF LifecycleInv
<1>2. Epoch \in Nat /\ Epoch >= 1 /\ \A i \in 1..Epoch : boots[i] \in Nat
    BY LenProperties, ElementOfSeq DEF LifecycleInv, Epoch
<1>3. minted \in Nat /\ \A n \in DOMAIN peers : peers[n] \in Peer /\ n \in Node
    BY SessionsAssumption DEF LifecycleInv, RegistryInv, RegistryTypeOK, IsMap
<1>4. \A n \in DOMAIN peers : peers[n].LastSeen \in Nat
    BY <1>3, TimeAssumption DEF Peer
<1> QED BY <1>1, <1>2, <1>3, <1>4

\* The lease of a client is never over: it gives up first.
LEMMA LeaseOutlastsClient ==
    ASSUME LeaseCoversRetries, LifecycleInv, NEW n \in Node, Running(n), clients[n].epoch = Epoch
    PROVE  n \in DOMAIN peers /\ clock < peers[n].LastSeen + LeaseTTL
<1> DEFINE d == clients[n].due
           s == peers[n].LastSeen
           p == Patience(clients[n].failures)
<1>1. n \in DOMAIN peers /\ d <= s + p /\ clock <= d + Timeout /\ d \in Nat
    BY ClientFacts DEF ProcessInv, Leased, DueBy, Timely, UpState
<1>2. clock \in Nat /\ s \in Nat
    BY <1>1, StateFacts
<1>3. p \in Nat /\ p + Timeout < LeaseTTL /\ Timeout \in Nat /\ LeaseTTL \in Nat
    BY Durations, Margin
<1> HIDE DEF d, s, p
<1>4. clock < s + LeaseTTL
    BY <1>1, <1>2, <1>3
<1> QED BY <1>1, <1>4 DEF s

\* Nor does an orphan live as long as a lease.
LEMMA OrphanLeaves ==
    ASSUME LeaseCoversRetries, LifecycleInv, NEW n \in Node, Orphan(n)
    PROVE  clock < boots[clients[n].epoch + 1] + LeaseTTL
<1> DEFINE d == clients[n].due
           e == clients[n].epoch
           b == boots[e + 1]
           p == Patience(clients[n].failures)
<1>1. Running(n) /\ e # Epoch
    BY DEF Orphan
<1>2. d <= b + p /\ clock <= d + Timeout /\ d \in Nat /\ e \in 1..Epoch
    BY <1>1, ClientFacts DEF ProcessInv, Orphaned, DueBy, Timely, UpState
<1>3. clock \in Nat /\ b \in Nat
  <2>1. e + 1 \in 1..Epoch
    BY <1>1, <1>2, StateFacts
  <2> QED BY <2>1, StateFacts
<1>4. p \in Nat /\ p + Timeout < LeaseTTL /\ Timeout \in Nat /\ LeaseTTL \in Nat
    BY Durations, Margin
<1> HIDE DEF d, b, p
<1>5. clock < b + LeaseTTL
    BY <1>2, <1>3, <1>4
<1> QED BY <1>5 DEF b

------------------------------------------------------------------------------
(* Clients *)

\* A client that a step leaves alone, while no other lease ends.
LEMMA BystanderKeeps ==
    ASSUME LifecycleInv, NEW n \in Node, Running(n), LeasesKept, clients'[n] = clients[n],
           UNCHANGED <<clock, boots>>, n \in DOMAIN peers => peers'[n] = peers[n]
    PROVE  ProcessInv(n)'
<1>1. ProcessInv(n)
    BY ClientFacts
<1>2. Epoch' = Epoch /\ minted \in Nat /\ minted' \in Nat /\ minted <= minted'
      /\ DOMAIN peers \subseteq DOMAIN peers'
      /\ \A t \in 1..minted : t \in DOMAIN byToken' => t \in DOMAIN byToken
    BY StateFacts DEF Epoch, LeasesKept
<1>3. clients'[n].token \in 1..minted'
    BY <1>1, <1>2 DEF ProcessInv
<1>4. clients'[n].epoch = Epoch' => Leased(n)'
    BY <1>1, <1>2 DEF ProcessInv, Leased, DueBy
<1>5. clients'[n].epoch # Epoch' => Orphaned(n)'
    BY <1>1, <1>2 DEF ProcessInv, Orphaned, DueBy
<1>6. clients'[n].epoch \in 1..Epoch' /\ Timely(n)'
    BY <1>1, <1>2 DEF ProcessInv, Timely
<1> QED BY <1>3, <1>4, <1>5, <1>6 DEF ProcessInv

\* A step of one client: the rest of the invariant.
LEMMA ClientFrame ==
    ASSUME LifecycleInv, NEW n \in Node, NEW state \in ClientState, Become(n, state),
           RegistryInv', LeasesKept, UNCHANGED <<clock, boots>>,
           \A m \in DOMAIN peers \ {n} : peers'[m] = peers[m],
           state.pc = "up" => ProcessInv(n)'
    PROVE  LifecycleInv'
<1>1. clients' \in [Node -> ClientState] /\ clients'[n] = state
      /\ \A m \in Node \ {n} : clients'[m] = clients[m]
    BY DEF LifecycleInv, Become
<1>2. ASSUME NEW m \in Node, Running(m)' PROVE ProcessInv(m)'
  <2>1. CASE m = n
    BY <1>1, <1>2, <2>1 DEF Running
  <2>2. CASE m # n
    <3>1. Running(m) /\ clients'[m] = clients[m]
      BY <1>1, <1>2, <2>2 DEF Running
    <3> QED BY <2>2, <3>1, BystanderKeeps
  <2> QED BY <2>1, <2>2
<1>3. clock' \in 0..MaxTime /\ boots' \in Seq(Nat) /\ (Epoch >= 1)'
    BY DEF LifecycleInv, Epoch
<1> QED BY <1>1, <1>2, <1>3 DEF LifecycleInv

\* A client starts: its lease is renewed or granted at this moment.
LEMMA StartKeepsInv ==
    ASSUME LifecycleInv, NEW n \in Node, ClientStarts(n)
    PROVE  LifecycleInv'
<1> DEFINE p == peers'[n]
<1>1. clock \in Time /\ clock \in Nat
    BY StateFacts
<1>2. /\ RegistryInv' /\ LeasesKept /\ n \in DOMAIN peers' /\ p.LastSeen = clock
      /\ \A m \in DOMAIN peers \ {n} : peers'[m] = peers[m]
  <2>1. CASE RegisterAgain(n, clock)
    <3>1. /\ n \in DOMAIN peers /\ peers' = Put(peers, n, [peers[n] EXCEPT !.LastSeen = clock])
          /\ UNCHANGED <<allocVars, indexVars>>
      BY <2>1 DEF RegisterAgain
    <3>2. RegistryInv' /\ LeasesKept
      BY <1>1, <3>1, RenewKeeps DEF LifecycleInv
    <3>3. p.LastSeen = clock /\ \A m \in DOMAIN peers \ {n} : peers'[m] = peers[m]
      BY <3>1, StateFacts DEF Put, Peer
    <3> QED BY <3>1, <3>2, <3>3 DEF Put
  <2>2. CASE RegisterNew(n, clock)
    <3>1. RegistryInv' /\ LeasesKept
      BY <1>1, <2>2, RegisterKeeps DEF LifecycleInv
    <3>2. peers' = Put(peers, n, [NodeID |-> n, VirtualIP |-> byNode'[n],
                                  SessionToken |-> minted + 1, LastSeen |-> clock])
      BY <2>2 DEF RegisterNew, Insert
    <3> QED BY <3>1, <3>2 DEF Put
  <2> QED BY <2>1, <2>2 DEF ClientStarts
<1>3. /\ p \in Peer /\ p.SessionToken \in 1..minted' /\ p.SessionToken \in Nat /\ p.VirtualIP \in Addr
      /\ minted' \in Nat
  <2>1. p \in Peer /\ p.SessionToken \in DOMAIN byToken' /\ DOMAIN byToken' \subseteq 1..minted'
    BY <1>2 DEF RegistryInv, RegistryTypeOK, IsMap, IndexesAgree, LeasesBounded
  <2> QED BY <1>2, <2>1 DEF Peer, LeasesKept
<1>4. clients[n].life \in Nat
    BY DEF LifecycleInv, ClientState, UpState
<1> DEFINE start(due) == [pc |-> "up", life |-> clients[n].life + 1, epoch |-> Epoch,
                          token |-> p.SessionToken, ip |-> p.VirtualIP,
                          due |-> due, tick |-> due + HeartbeatInterval, heard |-> FALSE,
                          failures |-> 0]
<1>5. PICK delay \in 0..Timeout : Become(n, start(clock + delay + HeartbeatInterval))
    BY DEF ClientStarts
<1> DEFINE due == clock + delay + HeartbeatInterval
           state == start(due)
<1>6. UNCHANGED <<clock, boots>> /\ Epoch' = Epoch /\ Epoch \in Nat /\ Epoch >= 1
    BY StateFacts DEF ClientStarts, Epoch
<1>7. state \in ClientState
    BY <1>1, <1>3, <1>4, <1>6, Durations DEF ClientState, UpState
<1>8. clients'[n] = state
    BY <1>5 DEF Become, LifecycleInv
<1> HIDE DEF p
<1>9. /\ clients'[n].token = p.SessionToken /\ clients'[n].ip = p.VirtualIP
      /\ clients'[n].epoch = Epoch' /\ clients'[n].failures = 0
      /\ clients'[n].due = due /\ clients'[n].heard = FALSE
      /\ clients'[n].tick = due + HeartbeatInterval
    BY <1>6, <1>8
<1>10. /\ due <= clock + Patience(0) /\ clock <= due + Timeout
       /\ due + HeartbeatInterval <= due + HeartbeatInterval
    BY <1>1, Durations
<1> HIDE DEF due
<1>11. Timely(n)' /\ Leased(n)'
    BY <1>2, <1>6, <1>9, <1>10 DEF Timely, Leased, DueBy, p
<1>12. ProcessInv(n)'
    BY <1>3, <1>6, <1>9, <1>11 DEF ProcessInv
<1> QED BY <1>2, <1>5, <1>6, <1>7, <1>12, ClientFrame DEF due

\* A client that is gone claims nothing.
LEMMA ExitKeepsInv ==
    ASSUME LifecycleInv, NEW n \in Node, Running(n), Become(n, Down(clients[n].life)),
           RegistryInv', LeasesKept, \A m \in DOMAIN peers \ {n} : peers'[m] = peers[m],
           UNCHANGED <<clock, boots>>
    PROVE  LifecycleInv'
<1>1. Down(clients[n].life) \in ClientState /\ Down(clients[n].life).pc = "down"
    BY ClientFacts DEF Down, ClientState, UpState
<1> QED BY <1>1, ClientFrame

\* A session that resolves is the one of the client's own lease.
LEMMA TouchFacts ==
    ASSUME LifecycleInv, NEW n \in Node, Running(n), TouchByToken(clients[n].token, clock)
    PROVE  /\ clients[n].epoch = Epoch /\ RegistryInv' /\ LeasesKept
           /\ \A m \in DOMAIN peers \ {n} : peers'[m] = peers[m]
           /\ n \in DOMAIN peers /\ peers'[n].LastSeen = clock
           /\ peers'[n].SessionToken = peers[n].SessionToken
           /\ peers'[n].VirtualIP = peers[n].VirtualIP
<1>1. clients[n].token \in DOMAIN byToken
    BY DEF TouchByToken, Known
<1>2. clients[n].epoch = Epoch /\ Leased(n)
    BY <1>1, ClientFacts DEF ProcessInv, Orphaned
<1>3. n \in DOMAIN peers /\ byToken[clients[n].token] = n
    BY <1>2 DEF Leased, LifecycleInv, RegistryInv, IndexesAgree
<1>4. /\ peers' = Put(peers, n, [peers[n] EXCEPT !.LastSeen = clock])
      /\ UNCHANGED <<allocVars, indexVars>>
    BY <1>3 DEF TouchByToken
<1>5. RegistryInv' /\ LeasesKept
    BY <1>3, <1>4, RenewKeeps, StateFacts DEF LifecycleInv
<1>6. /\ \A m \in DOMAIN peers \ {n} : peers'[m] = peers[m]
      /\ peers'[n] = [peers[n] EXCEPT !.LastSeen = clock] /\ peers[n] \in Peer
    BY <1>3, <1>4, StateFacts DEF Put
<1> QED BY <1>2, <1>3, <1>5, <1>6 DEF Peer

\* The registry does not hear of a heartbeat.
LEMMA UnheardFacts ==
    ASSUME LifecycleInv, UNCHANGED registryVars
    PROVE  /\ RegistryInv' /\ LeasesKept /\ peers' = peers /\ byToken' = byToken
           /\ \A S : \A m \in DOMAIN peers \ S : peers'[m] = peers[m]
<1>1. RegistryInv' /\ LeasesKept
    BY RegistryRests DEF LifecycleInv
<1> QED BY <1>1 DEF registryVars, indexVars

\* The coordinator handles a heartbeat: its lease counts from this moment.
LEMMA HeardKeepsInv ==
    ASSUME LifecycleInv, NEW n \in Node, BeatHeard(n)
    PROVE  LifecycleInv'
<1> DEFINE c == clients[n]
           state == [c EXCEPT !.heard = TRUE]
<1>1. /\ Running(n) /\ c.due <= clock /\ c \in UpState /\ ProcessInv(n)
      /\ TouchByToken(c.token, clock) /\ Become(n, state) /\ UNCHANGED <<clock, boots>>
    BY ClientFacts DEF BeatHeard, Beat
<1>2. state \in ClientState /\ clients'[n] = state
    BY <1>1 DEF ClientState, UpState, Become, LifecycleInv
<1>3. /\ state.due = c.due /\ state.tick = c.tick /\ state.failures = c.failures
      /\ state.token = c.token /\ state.ip = c.ip /\ state.epoch = c.epoch /\ c.due \in Nat
    BY <1>1 DEF UpState
<1>4. /\ c.epoch = Epoch /\ RegistryInv' /\ LeasesKept /\ n \in DOMAIN peers'
      /\ \A m \in DOMAIN peers \ {n} : peers'[m] = peers[m]
      /\ peers'[n].LastSeen = clock /\ peers'[n].SessionToken = peers[n].SessionToken
      /\ peers'[n].VirtualIP = peers[n].VirtualIP
    BY <1>1, TouchFacts DEF LeasesKept
<1>5. Epoch' = Epoch /\ c.token \in 1..minted' /\ c.epoch \in 1..Epoch'
    BY <1>1, <1>4, StateFacts DEF Epoch, ProcessInv, LeasesKept
<1> HIDE DEF state
<1>6. c.due <= clock + Patience(c.failures)
  <2> DEFINE d == c.due
             a == Patience(c.failures)
  <2>1. d \in Nat /\ a \in Nat /\ clock \in Nat /\ d <= clock
    BY <1>1, <1>3, Durations, StateFacts
  <2> HIDE DEF d, a
  <2>2. d <= clock + a
    BY <2>1
  <2> QED BY <2>2 DEF d, a
<1>7. Timely(n)'
    BY <1>1, <1>2, <1>3 DEF ProcessInv, Timely
<1>8. Leased(n)'
    BY <1>1, <1>2, <1>3, <1>4, <1>6 DEF ProcessInv, Leased, DueBy
<1>9. ProcessInv(n)'
    BY <1>2, <1>3, <1>4, <1>5, <1>7, <1>8 DEF ProcessInv
<1> QED BY <1>1, <1>2, <1>4, <1>9, ClientFrame DEF state

\* The loop waits for the ticker: the next heartbeat starts no earlier than now and
\* no later than Pace after the last one.
LEMMA AwaitFacts ==
    ASSUME LifecycleInv, NEW n \in Node, Beat(n), NEW f \in 0..2, AwaitTick(n, f)
    PROVE  \E start \in Nat, t \in Nat :
            /\ clock <= start /\ start <= clock + HeartbeatInterval
            /\ start <= clients[n].due + Pace /\ t <= start + HeartbeatInterval
            /\ Become(n, [clients[n] EXCEPT !.due = start, !.tick = t, !.heard = FALSE,
                                            !.failures = f])
<1> DEFINE c == clients[n]
           start == IF c.tick > clock THEN c.tick ELSE clock
<1>1. c \in UpState /\ c.due <= clock /\ Timely(n)
    BY ClientFacts DEF Beat, ProcessInv
<1>2. /\ c.due \in Nat /\ c.tick \in Nat /\ clock \in Nat
      /\ clock <= c.due + Timeout /\ c.tick <= c.due + HeartbeatInterval
    BY <1>1, StateFacts DEF Timely, UpState
<1>3. PICK t \in (start + 1)..(start + HeartbeatInterval) :
        Become(n, [c EXCEPT !.due = start, !.tick = t, !.heard = FALSE, !.failures = f])
    BY DEF AwaitTick
<1>4. /\ start \in Nat /\ clock <= start /\ start <= clock + HeartbeatInterval
      /\ start <= c.due + Pace
    BY <1>1, <1>2, Durations
<1>5. t \in Nat /\ t <= start + HeartbeatInterval
    BY <1>3, <1>4, Durations
<1> HIDE DEF start
<1> QED BY <1>3, <1>4, <1>5

\* The client goes on after a heartbeat: either the coordinator has heard it, or
\* there is one failure more.
LEMMA GoOnKeepsInv ==
    ASSUME LifecycleInv, NEW n \in Node, Beat(n), NEW f \in 0..2, AwaitTick(n, f),
           clients[n].heard \/ f = clients[n].failures + 1,
           UNCHANGED <<clock, boots, registryVars>>
    PROVE  LifecycleInv'
<1> DEFINE c == clients[n]
<1>1. /\ Running(n) /\ c.due <= clock /\ c \in UpState /\ ProcessInv(n)
    BY ClientFacts DEF Beat
<1>2. /\ clock \in Nat /\ HeartbeatInterval \in Nat /\ Timeout \in Nat /\ Epoch' = Epoch
      /\ Epoch \in Nat /\ minted \in Nat
    BY Durations, StateFacts DEF Epoch
<1>3. PICK start \in Nat, t \in Nat :
        /\ clock <= start /\ start <= clock + HeartbeatInterval
        /\ start <= c.due + Pace /\ t <= start + HeartbeatInterval
        /\ Become(n, [c EXCEPT !.due = start, !.tick = t, !.heard = FALSE, !.failures = f])
    BY AwaitFacts
<1> DEFINE state == [c EXCEPT !.due = start, !.tick = t, !.heard = FALSE, !.failures = f]
<1>4. /\ state \in ClientState
      /\ state.due = start /\ state.tick = t /\ state.heard = FALSE /\ state.failures = f
      /\ state.token = c.token /\ state.ip = c.ip /\ state.epoch = c.epoch
    BY <1>1, <1>3 DEF ClientState, UpState
<1>5. clients'[n] = state
    BY <1>3 DEF Become, LifecycleInv
<1>6. /\ RegistryInv' /\ LeasesKept /\ peers' = peers /\ byToken' = byToken /\ minted' = minted
      /\ \A m \in DOMAIN peers \ {n} : peers'[m] = peers[m]
    BY UnheardFacts DEF registryVars, indexVars
<1> HIDE DEF state
<1>7. Timely(n)'
  <2>1. start <= clock + Patience(0) /\ clock <= start + Timeout
    BY <1>2, <1>3, Durations
  <2> QED BY <1>3, <1>4, <1>5, <2>1 DEF Timely
<1>8. ASSUME NEW s \in Nat, DueBy(n, s) PROVE start <= s + Patience(f)
  <2> DEFINE d == c.due
             a == Patience(c.failures)
             b == Patience(f)
  <2>1. d \in Nat /\ a \in Nat /\ b \in Nat /\ Pace \in Nat /\ c.failures \in 0..2 /\ start <= d + Pace
    BY <1>1, <1>3, Durations DEF UpState
  <2>2. CASE c.heard
    <3>1. d <= s /\ Pace <= b
      BY <1>8, <2>2, Durations DEF DueBy
    <3> HIDE DEF d, a, b
    <3>2. start <= s + b
      BY <2>1, <3>1
    <3> QED BY <3>2 DEF b
  <2>3. CASE f = c.failures + 1
    <3>1. d <= s + a /\ b = a + Pace
      BY <1>8, <2>1, <2>3, Durations DEF DueBy
    <3> HIDE DEF d, a, b
    <3>2. start <= s + b
      BY <2>1, <3>1
    <3> QED BY <3>2 DEF b
  <2> QED BY <2>2, <2>3
<1>9. c.epoch = Epoch => Leased(n)'
  <2> SUFFICES ASSUME c.epoch = Epoch PROVE Leased(n)'
    OBVIOUS
  <2>1. Leased(n) /\ peers[n].LastSeen \in Nat
    BY <1>1, StateFacts DEF ProcessInv, Leased
  <2>2. start <= peers[n].LastSeen + Patience(f)
    BY <1>8, <2>1 DEF Leased
  <2> QED BY <1>4, <1>5, <1>6, <2>1, <2>2 DEF Leased, DueBy
<1>10. c.epoch # Epoch => Orphaned(n)'
  <2> SUFFICES ASSUME c.epoch # Epoch PROVE Orphaned(n)'
    OBVIOUS
  <2>1. Orphaned(n) /\ c.epoch + 1 \in 1..Epoch
    BY <1>1, <1>2 DEF ProcessInv
  <2>2. boots[c.epoch + 1] \in Nat
    BY <2>1, StateFacts
  <2>3. start <= boots[c.epoch + 1] + Patience(f)
    BY <1>8, <2>1, <2>2 DEF Orphaned
  <2> QED BY <1>4, <1>5, <1>6, <2>1, <2>3 DEF Orphaned, DueBy
<1>11. ProcessInv(n)'
    BY <1>1, <1>2, <1>4, <1>5, <1>6, <1>7, <1>9, <1>10 DEF ProcessInv
<1> QED BY <1>3, <1>4, <1>6, <1>11, ClientFrame DEF state

\* Every step of a client.
LEMMA ClientKeepsInv ==
    ASSUME LifecycleInv, NEW n \in Node, Client(n)
    PROVE  LifecycleInv'
<1>1. CASE ClientStarts(n)
    BY <1>1, StartKeepsInv
<1>2. CASE ClientExits(n)
  <2>1. /\ Running(n) /\ Become(n, Down(clients[n].life)) /\ UNCHANGED <<clock, boots, registryVars>>
    BY <1>2 DEF ClientExits, serverVars
  <2>2. RegistryInv' /\ LeasesKept /\ \A m \in DOMAIN peers \ {n} : peers'[m] = peers[m]
    BY <2>1, UnheardFacts
  <2> QED BY <2>1, <2>2, ExitKeepsInv
<1>3. CASE SayHello(n)
  <2>1. UNCHANGED <<clock, clients, registryVars, boots>>
    BY <1>3 DEF SayHello, clientVars
  <2> QED BY <2>1, UnheardFacts, BystanderKeeps DEF LifecycleInv, Running, Epoch
<1>4. CASE BeatOK(n)
  <2>1. /\ Beat(n) /\ clients[n].heard /\ AwaitTick(n, 0) /\ UNCHANGED <<clock, boots, registryVars>>
    BY <1>4 DEF BeatOK, serverVars
  <2>2. 0 \in 0..2
    OBVIOUS
  <2> QED BY <2>1, <2>2, GoOnKeepsInv
<1>5. CASE BeatFails(n)
  <2>1. /\ Beat(n) /\ Running(n) /\ FailureCounts(n) /\ UNCHANGED <<clock, boots, registryVars>>
    BY <1>5 DEF BeatFails, Beat, serverVars
  <2>2. clients[n].failures \in 0..2
    BY <2>1, ClientFacts DEF UpState
  <2>3. CASE clients[n].failures + 1 >= 3
    <3>1. Become(n, Down(clients[n].life))
      BY <2>1, <2>3 DEF FailureCounts, maxHeartbeatFailures
    <3>2. RegistryInv' /\ LeasesKept /\ \A m \in DOMAIN peers \ {n} : peers'[m] = peers[m]
      BY <2>1, UnheardFacts
    <3> QED BY <2>1, <3>1, <3>2, ExitKeepsInv
  <2>4. CASE ~(clients[n].failures + 1 >= 3)
    <3> DEFINE f == clients[n].failures + 1
    <3>1. f \in 0..2 /\ AwaitTick(n, f)
      BY <2>1, <2>2, <2>4 DEF FailureCounts, maxHeartbeatFailures
    <3> QED BY <2>1, <3>1, GoOnKeepsInv
  <2> QED BY <2>3, <2>4
<1>6. CASE BeatRejected(n)
  <2>1. /\ Running(n) /\ Become(n, Down(clients[n].life)) /\ UNCHANGED <<clock, boots, registryVars>>
    BY <1>6 DEF BeatRejected, Beat, serverVars
  <2>2. RegistryInv' /\ LeasesKept /\ \A m \in DOMAIN peers \ {n} : peers'[m] = peers[m]
    BY <2>1, UnheardFacts
  <2> QED BY <2>1, <2>2, ExitKeepsInv
<1> QED BY <1>1, <1>2, <1>3, <1>4, <1>5, <1>6, HeardKeepsInv DEF Client

------------------------------------------------------------------------------
(* The coordinator and time *)

\* A step that only concerns endpoints.
LEMMA EndpointKeepsInv ==
    ASSUME LifecycleInv, UNCHANGED <<clock, clients, registryVars, boots>>
    PROVE  LifecycleInv'
    BY UnheardFacts, BystanderKeeps DEF LifecycleInv, Running, Epoch

\* A sweep takes no lease of a running client.
LEMMA SweepKeepsInv ==
    ASSUME LeaseCoversRetries, LifecycleInv, SweepExpire
    PROVE  LifecycleInv'
<1> DEFINE E == Expired(clock - LeaseTTL)
<1>1. ExpireBefore(clock - LeaseTTL) /\ UNCHANGED <<clock, clients, boots>>
    BY DEF SweepExpire, clientVars
<1>2. RegistryInv'
    BY <1>1, ExpireInv DEF LifecycleInv
<1>3. /\ peers' = Drop(peers, E) /\ minted' = minted
      /\ \E T : byToken' = Drop(byToken, T)
    BY <1>1 DEF ExpireBefore
<1>4. ASSUME NEW n \in Node, Running(n) PROVE ProcessInv(n)'
  <2>1. ProcessInv(n)
    BY <1>4, ClientFacts
  <2>2. clients[n].epoch = Epoch => Leased(n)'
    <3> SUFFICES ASSUME clients[n].epoch = Epoch PROVE Leased(n)'
      OBVIOUS
    <3>1. n \in DOMAIN peers /\ clock < peers[n].LastSeen + LeaseTTL /\ Leased(n)
      BY <1>4, <2>1, LeaseOutlastsClient DEF ProcessInv
    <3>2. n \notin E
      BY <3>1, StateFacts, Durations DEF Expired
    <3> HIDE DEF E
    <3>3. n \in DOMAIN peers' /\ peers'[n] = peers[n]
      BY <1>3, <3>1, <3>2 DEF Drop, Restrict
    <3> QED BY <1>1, <3>1, <3>3 DEF Leased, DueBy
  <2>3. clients[n].epoch # Epoch => Orphaned(n)'
    <3>1. DOMAIN byToken' \subseteq DOMAIN byToken
      BY <1>3 DEF Drop, Restrict
    <3> QED BY <1>1, <2>1, <3>1 DEF ProcessInv, Orphaned, DueBy
  <2> QED BY <1>1, <1>3, <2>1, <2>2, <2>3 DEF ProcessInv, Timely, Epoch
<1> QED BY <1>1, <1>2, <1>4 DEF LifecycleInv, Running, Epoch

\* A restarted coordinator has an empty registry.
LEMMA RestartInv ==
    ASSUME RegistryInv, CoordinatorRestarts
    PROVE  RegistryInv'
<1>1. /\ minted' = minted /\ peers' = Empty /\ byIP' = Empty /\ byToken' = Empty
      /\ byNode' = Empty /\ used' = Empty /\ next' = 2
    BY DEF CoordinatorRestarts
<1>2. minted \in 0..MaxSessions
    BY DEF RegistryInv, RegistryTypeOK
<1> QED BY <1>1, <1>2, PrefixAssumption
        DEF RegistryInv, RegistryTypeOK, IndexesAgree, CursorAboveLeases, LeasesBounded, Empty, IsMap

\* A restarted coordinator has an empty registry and does not know the old
\* sessions; all clients are orphans from this moment on.
LEMMA RestartKeepsInv ==
    ASSUME LifecycleInv, CoordinatorRestarts
    PROVE  LifecycleInv'
<1>1. /\ boots' = Append(boots, clock) /\ UNCHANGED <<clock, clients, minted>>
      /\ byToken' = Empty
    BY DEF CoordinatorRestarts, clientVars
<1>2. RegistryInv'
    BY RestartInv DEF LifecycleInv
<1>3. /\ boots' \in Seq(Nat) /\ Epoch' = Epoch + 1 /\ Epoch \in Nat /\ Epoch >= 1
      /\ \A i \in 1..Epoch : boots'[i] = boots[i]
      /\ boots'[Epoch + 1] = clock
    BY <1>1, AppendProperties, StateFacts DEF LifecycleInv, Epoch
<1>4. ASSUME NEW n \in Node, Running(n) PROVE ProcessInv(n)'
  <2> DEFINE e == clients[n].epoch
             f == clients[n].failures
             d == clients[n].due
  <2>1. ProcessInv(n) /\ e \in 1..Epoch /\ d \in Nat /\ e # Epoch'
    BY <1>3, <1>4, ClientFacts DEF ProcessInv, UpState
  <2>2. d <= boots'[e + 1] + Patience(f) /\ (clients[n].heard => d <= boots'[e + 1])
    <3>1. CASE e = Epoch
      <4>1. /\ d <= clock + Patience(0) /\ boots'[e + 1] = clock
            /\ clients[n].heard => d <= clock
        BY <1>3, <2>1, <3>1 DEF ProcessInv, Timely
      <4>2. Patience(f) \in Nat /\ Patience(0) \in Nat /\ Patience(0) <= Patience(f) /\ clock \in Nat
        BY Durations, StateFacts
      <4> DEFINE a == Patience(f)
                 b == Patience(0)
      <4> HIDE DEF a, b, d, e, f
      <4>3. d <= clock + a
        BY <2>1, <4>1, <4>2 DEF a, b
      <4> QED BY <4>1, <4>3 DEF a
    <3>2. CASE e # Epoch
      <4>1. e + 1 \in 1..Epoch
        BY <1>3, <2>1, <3>2
      <4>2. boots'[e + 1] = boots[e + 1]
        BY <1>3, <4>1
      <4> QED BY <2>1, <3>2, <4>2 DEF ProcessInv, Orphaned, DueBy
    <3> QED BY <3>1, <3>2
  <2>3. Orphaned(n)'
    BY <1>1, <2>2 DEF Orphaned, DueBy, Empty
  <2>4. e \in 1..Epoch' /\ Timely(n)' /\ clients'[n].token \in 1..minted'
    BY <1>1, <1>3, <2>1 DEF ProcessInv, Timely
  <2> QED BY <1>1, <2>1, <2>3, <2>4 DEF ProcessInv
<1>5. (Epoch >= 1)'
    BY <1>3
<1> QED BY <1>1, <1>2, <1>3, <1>4, <1>5 DEF LifecycleInv, Running

\* Time passes, but not beyond the end of a request.
LEMMA TimePassesKeepsInv ==
    ASSUME LifecycleInv, Tick
    PROVE  LifecycleInv'
<1>1. /\ clock' = clock + 1 /\ clock \in Nat /\ clock' \in 0..MaxTime
      /\ UNCHANGED <<clients, boots, registryVars>>
      /\ \A n \in Node : Running(n) => clock < clients[n].due + Timeout
    BY StateFacts, Durations DEF Tick, clientVars, serverVars
<1>2. RegistryInv' /\ peers' = peers /\ byToken' = byToken /\ minted' = minted
    BY <1>1, UnheardFacts DEF registryVars, indexVars
<1>3. ASSUME NEW n \in Node, Running(n) PROVE ProcessInv(n)'
  <2> DEFINE d == clients[n].due
             q == Patience(0)
  <2>1. /\ ProcessInv(n) /\ d \in Nat /\ d <= clock + q /\ clock < d + Timeout
        /\ q \in Nat /\ Timeout \in Nat
    BY <1>1, <1>3, ClientFacts, Durations DEF ProcessInv, Timely, UpState
  <2> HIDE DEF d, q
  <2>2. d <= (clock + 1) + q /\ clock + 1 <= d + Timeout /\ (d <= clock => d <= clock + 1)
    BY <1>1, <2>1
  <2>3. Timely(n)'
    BY <1>1, <2>1, <2>2 DEF ProcessInv, Timely, d, q
  <2>4. clients'[n] = clients[n] /\ boots' = boots /\ Epoch' = Epoch
    BY <1>1 DEF Epoch
  <2>5. clients[n].epoch = Epoch => Leased(n)'
    BY <1>2, <2>1, <2>4 DEF ProcessInv, Leased, DueBy
  <2>6. clients[n].epoch # Epoch => Orphaned(n)'
    BY <1>2, <2>1, <2>4 DEF ProcessInv, Orphaned, DueBy
  <2> QED BY <1>2, <2>1, <2>3, <2>4, <2>5, <2>6 DEF ProcessInv
<1> QED BY <1>1, <1>2, <1>3 DEF LifecycleInv, Running, Epoch

------------------------------------------------------------------------------
(* The theorems *)

\* The invariant holds throughout.
LEMMA LifecycleInvariant == LeaseCoversRetries /\ Spec => []LifecycleInv
<1> SUFFICES ASSUME LeaseCoversRetries PROVE Spec => []LifecycleInv
    OBVIOUS
<1>1. LifecycleInv /\ [Next]_vars => LifecycleInv'
  <2> SUFFICES ASSUME LifecycleInv, [Next]_vars PROVE LifecycleInv'
    OBVIOUS
  <2>1. ASSUME NEW n \in Node, Client(n) PROVE LifecycleInv'
    BY <2>1, ClientKeepsInv
  <2>2. ASSUME NEW n \in Node, SweepForget(n) PROVE LifecycleInv'
    BY <2>2, EndpointKeepsInv DEF SweepForget, clientVars
  <2>3. ASSUME NEW f \in frames, LateHello(f) PROVE LifecycleInv'
    BY <2>3, EndpointKeepsInv DEF LateHello
  <2>4. CASE UNCHANGED vars
    BY <2>4, EndpointKeepsInv DEF vars, clientVars, serverVars
  <2> QED BY <2>1, <2>2, <2>3, <2>4, SweepKeepsInv, RestartKeepsInv, TimePassesKeepsInv DEF Next
<1> QED BY <1>1, LifecycleInit, PTL DEF Spec

\* If the lease covers the retries, a client whose coordinator lives has a live
\* session, whichever requests, answers and frames are lost: heartbeatLoop gives up
\* before the sweeper reclaims the lease.
THEOREM ClientAlwaysLeavesFirst == LeaseCoversRetries /\ Spec => []ClientLeavesFirst
<1>1. ASSUME LifecycleInv PROVE ClientLeavesFirst
  <2> SUFFICES ASSUME NEW n \in Node, Running(n), ~Orphan(n) PROVE Known(clients[n].token)
    BY DEF ClientLeavesFirst
  <2>1. Leased(n)
    BY <1>1, ClientFacts DEF Orphan, ProcessInv
  <2> QED BY <1>1, <2>1 DEF Leased, LifecycleInv, RegistryInv, IndexesAgree, Known
<1> QED BY <1>1, LifecycleInvariant, PTL

\* If the lease covers the retries, two clients use one virtual IP only after a
\* restart of the coordinator, and for less than a lease.
THEOREM ConflictsNeverLast == LeaseCoversRetries /\ Spec => []NoLastingConflict
<1> SUFFICES ASSUME LeaseCoversRetries PROVE Spec => []NoLastingConflict
    OBVIOUS
<1>1. LifecycleInv => NoLastingConflict
  <2> SUFFICES ASSUME LifecycleInv PROVE NoLastingConflict
    OBVIOUS
  <2> SUFFICES ASSUME NEW m \in Node, NEW n \in Node, m # n, Running(m), Running(n),
                      clients[m].ip = clients[n].ip
               PROVE  \E o \in {m, n} :
                        Orphan(o) /\ clock < boots[clients[o].epoch + 1] + LeaseTTL
    BY DEF NoLastingConflict
  <2>1. Orphan(m) \/ Orphan(n)
    <3> SUFFICES ASSUME ~Orphan(m), ~Orphan(n) PROVE FALSE
      OBVIOUS
    <3>1. Leased(m) /\ Leased(n)
      BY ClientFacts DEF Orphan, ProcessInv
    <3> QED BY <3>1 DEF Leased, LifecycleInv, RegistryInv, IndexesAgree
  <2> QED BY <2>1, OrphanLeaves
<1> QED BY <1>1, LifecycleInvariant, PTL

------------------------------------------------------------------------------
(* The registry over the restarts of the coordinator, whatever the flags *)

BaseInv == RegistryInv /\ clock \in 0..MaxTime

\* A step of clients and coordinator is one call of the registry, none, or a
\* restart.
LEMMA RegistryStepOrRestart ==
    ASSUME BaseInv, [Next]_vars
    PROVE  [RegistryNext]_registryVars \/ CoordinatorRestarts
<1>1. clock \in Time /\ RegistryInv
    BY Durations DEF BaseInv
<1>2. \A t : Known(t) => t \in Token
    BY <1>1 DEF Known, RegistryInv, RegistryTypeOK, IsMap
<1>3. ASSUME NEW n \in Node, ClientStarts(n) PROVE [RegistryNext]_registryVars
    BY <1>1, <1>3 DEF ClientStarts, RegistryNext
<1>4. ASSUME NEW n \in Node, BeatHeard(n) PROVE [RegistryNext]_registryVars
  <2>1. TouchByToken(clients[n].token, clock)
    BY <1>4 DEF BeatHeard
  <2>2. clients[n].token \in Token
    BY <1>2, <2>1 DEF TouchByToken
  <2> QED BY <1>1, <2>1, <2>2 DEF RegistryNext
<1>5. ASSUME NEW n \in Node,
             ClientExits(n) \/ SayHello(n) \/ BeatOK(n) \/ BeatFails(n) \/ BeatRejected(n)
             \/ SweepForget(n)
      PROVE  UNCHANGED registryVars
    BY <1>5 DEF ClientExits, SayHello, BeatOK, BeatFails, BeatRejected, SweepForget, serverVars
<1>6. ASSUME NEW f, LateHello(f) PROVE UNCHANGED registryVars
    BY <1>6 DEF LateHello
<1>7. CASE Tick \/ UNCHANGED vars
    BY <1>7 DEF Tick, vars, serverVars
<1>8. CASE SweepExpire
  <2> DEFINE cutoff == clock - LeaseTTL
  <2>1. ExpireBefore(cutoff)
    BY <1>8 DEF SweepExpire
  <2>2. clock \in 0..MaxTime /\ MaxTime \in Nat /\ LeaseTTL \in Nat /\ cutoff \in Int
    BY Durations DEF BaseInv
  <2>3. CASE cutoff >= 0
    <3>1. cutoff \in 0..MaxTime
      BY <2>2, <2>3
    <3>2. cutoff \in Time
      BY <3>1, Durations
    <3> HIDE DEF cutoff
    <3> QED BY <2>1, <3>2 DEF RegistryNext
  <2>4. CASE cutoff < 0
    <3> HIDE DEF cutoff
    <3> QED BY <1>1, <2>1, <2>2, <2>4, EarlySweep
  <2> QED BY <2>2, <2>3, <2>4
<1> QED BY <1>3, <1>4, <1>5, <1>6, <1>7, <1>8 DEF Next, Client

\* The invariant of the registry and the range of the clock.
LEMMA BaseInvariant == Spec => []BaseInv
<1>1. Init => BaseInv
    BY InitInv, Durations DEF Init, BaseInv
<1>2. BaseInv /\ [Next]_vars => BaseInv'
  <2> SUFFICES ASSUME BaseInv, [Next]_vars PROVE BaseInv'
    OBVIOUS
  <2>1. RegistryInv'
    BY RegistryStepOrRestart, NextInv, RestartInv DEF BaseInv
  <2>2. clock' = clock \/ Tick
    BY DEF Next, Client, ClientStarts, ClientExits, SayHello, BeatHeard, BeatOK, BeatFails,
           BeatRejected, LateHello, SweepExpire, SweepForget, CoordinatorRestarts, vars
  <2>3. clock' \in 0..MaxTime
    BY <2>2, Durations DEF BaseInv, Tick
  <2> QED BY <2>1, <2>3 DEF BaseInv
<1> QED BY <1>1, <1>2, PTL DEF Spec

\* Restarts included, the maps of the running coordinator agree and no two of its
\* leases share an address or a token.
THEOREM LifecycleIndexesAgree == Spec => [](IndexesAgree /\ LeasesDistinct)
<1>1. BaseInv => IndexesAgree
    BY DEF BaseInv, RegistryInv
<1>2. IndexesAgree => LeasesDistinct
    BY DEF IndexesAgree, LeasesDistinct
<1> QED BY <1>1, <1>2, BaseInvariant, PTL

\* A session that ended, by a sweep or by a restart of the coordinator, is never
\* accepted again, and a heartbeat or a hello never finds another node's lease.
THEOREM SessionsNeverRevive == Spec => TokensNeverRevive
<1>1. BaseInv /\ [Next]_vars =>
        [\A t \in 1..minted : t \in DOMAIN byToken' =>
            t \in DOMAIN byToken /\ byToken'[t] = byToken[t]]_registryVars
  <2> SUFFICES ASSUME BaseInv, [Next]_vars, NEW t \in 1..minted, t \in DOMAIN byToken'
               PROVE  t \in DOMAIN byToken /\ byToken'[t] = byToken[t]
    OBVIOUS
  <2>1. CASE [RegistryNext]_registryVars
    BY <2>1, TokensStep DEF BaseInv
  <2>2. CASE CoordinatorRestarts
    BY <2>2 DEF CoordinatorRestarts, Empty
  <2> QED BY <2>1, <2>2, RegistryStepOrRestart
<1> QED BY <1>1, BaseInvariant, PTL DEF Spec, TokensNeverRevive

\* As long as a node's lease lives, every answer to it names the same address and
\* the same token, whoever else registers, expires or restarts.
THEOREM LifecycleLeasesStable == Spec => LeaseStable
<1>1. BaseInv /\ [Next]_vars =>
        [\A n \in DOMAIN peers \cap DOMAIN peers' :
            /\ peers'[n].VirtualIP = peers[n].VirtualIP
            /\ peers'[n].SessionToken = peers[n].SessionToken]_registryVars
  <2> SUFFICES ASSUME BaseInv, [Next]_vars, NEW n \in DOMAIN peers \cap DOMAIN peers'
               PROVE  /\ peers'[n].VirtualIP = peers[n].VirtualIP
                      /\ peers'[n].SessionToken = peers[n].SessionToken
    OBVIOUS
  <2>1. CASE [RegistryNext]_registryVars
    BY <2>1, LeaseStep DEF BaseInv
  <2>2. CASE CoordinatorRestarts
    BY <2>2 DEF CoordinatorRestarts, Empty
  <2> QED BY <2>1, <2>2, RegistryStepOrRestart
<1> QED BY <1>1, BaseInvariant, PTL DEF Spec, LeaseStable

\* The clients see the abstract lease table, which a restart empties without
\* forgetting which sessions there were.
THEOREM LifecycleImplementsLeaseTable ==
    Spec => Table!Init /\ [][Table!Next \/ CoordinatorRestarts]_(Table!tableVars)
<1>1. Init => Table!Init
    BY DEF Init, RegistryInit, Table!Init, Table!Empty, Empty
<1>2. BaseInv /\ [Next]_vars => [Table!Next \/ CoordinatorRestarts]_(Table!tableVars)
    BY RegistryStepOrRestart, TableStep DEF BaseInv
<1> QED BY <1>1, <1>2, BaseInvariant, PTL DEF Spec
==============================================================================
