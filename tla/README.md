# xray-mesh: a TLA+ verification project

xray-mesh is a virtual LAN. A **coordinator** (`cmd/server`) leases virtual IPv4
addresses to **clients** (`cmd/client`), relays their packets over UDP, and helps
pairs of clients to find a direct UDP path. This directory holds TLA+ models of the
parts of that system that keep state, the TLC runs that check them on small
instances, and TLAPS proofs of nearly all of their safety properties for every instance.
`PROJECT.json` is the machine-readable index: components, runs, mutants, hazards,
findings, theorems, and for every definition the lines of code it stands for.

## 1. Inventory

| Component | State | Operations | Interacts with |
|---|---|---|---|
| Virtual-IP allocator (`internal/mesh/allocator.go`) | `byNode`, `used`, cursor `next` | Allocate, Release | owned by the registry |
| Peer registry (`internal/mesh/registry.go`) | `peers`, `byIP`, `byToken` | Register, TouchByToken, ExpireBefore, lookups | HTTP handlers, relay, sweeper |
| UDP relay (`internal/transport/relay.go`) | `endpoints`, `discovery` | one datagram: authenticate, bind, guard, fan out or unicast; ForgetPeer | registry; sweeper |
| Discovery guard (same file) | per peer: token bucket, fingerprints seen | guardDiscovery | relay |
| Probe-ticket manager (`internal/p2p/tickets.go`) | `tickets` | Issue, ListForNode, ForgetNode, Prune | handlers, sweeper |
| Coordinator process (`cmd/server/main.go`) | none of its own | HTTP handlers, lease sweeper | all of the above |
| Client P2P runtime (`cmd/client/p2p_runtime.go`, `direct_*.go`) | tickets, candidates, pending probes, issue times, replay cache | poll loop, hello loop, receive loop, TUN loop | coordinator by HTTP, peers by UDP |
| Probe and payload protocol (`internal/p2p/probe.go`, `data.go`) | none | make and verify probes, acknowledgements, payloads | P2P runtime |
| Path selector (`internal/p2p/selector.go`) | per peer: endpoint, healthy until | MarkDirectHealthy, MarkDirectFailed, Select | P2P runtime |
| Client process (`cmd/client/main.go`) | services started, deferred calls, context | register, start services, select, shut down | everything on the client |
| Client heartbeat (`cmd/client/heartbeat.go`) | failure count | one heartbeat per tick, give up | coordinator; client process by a channel |
| Xray supervisor (`internal/xray/process.go`) | child process, its context, `done`, `waitErr` | Validate, Start, Wait, Close | client process |
| Xray TUN profile (`internal/xray/tun_profile.go`) | a temporary file | routes around the protected prefixes; write, remove | client process |
| Health status (`internal/health/status.go`) | states of mesh and Xray | SetMesh, SetXray | client process, TUN goroutine, status server |
| Traffic classifier (`internal/router/classifier.go`) | none | Classify | TUN loop |
| Deployment check (`cmd/meshcheck`) | phase, reference counter, firewall chain | measure, install, confirm, roll back | client's status, iptables, ping |
| Frame codec, IPv4 parser, telemetry, TUN device | none or counters | see section 8 | |

What is hard here:

* **Staleness across locks.** Registry, relay and ticket manager have a mutex each
  and nobody holds two. The relay keeps a *copy* of the peer it authenticated, a
  handler keeps the answer to "is the target registered?", the sweeper keeps the
  list of peers it removed, and all three act on it later.
* **Ordering.** Timestamps are read before a lock is taken.
* **Indexes kept by hand.** One lease is recorded in five maps.
* **Boundaries.** A full pool, a cursor that only goes up, a capacity that overflows.
* **Unreliable delivery.** Between clients everything is UDP; HTTP requests time out
  and may still be carried out.
* **Eventual clean-up and convergence.** Forgetting relies on one loop over a list
  that cannot be made a second time; the direct path needs four things to come
  together while each of them may fail.
* **Leases against crashes.** A client must be gone before its address is leased again,
  whatever is lost between it and the coordinator; a coordinator that restarts has
  forgotten all leases while its clients run on.
* **Leaving.** A client can end at any point of its start-up and on any of five
  events, several of which may be pending at once, and has a child process, a file and a
  listener to undo. The deployment check changes the host's firewall with commands of
  which any may fail or be killed half-done.

What makes the components correct: one address and one token per lease and
exhaustion only when the pool is full (allocator, registry); no state of a lease
left after it, and no lease taken early (sweeper, relay, tickets); a bounded
fan-out that reaches everybody (relay, discovery guard); no payload delivered
twice, one ticket per pair, no traffic for ever to a process that is gone, and a
direct path in the end (P2P); no address in use twice, and endpoints that settle
(clients and coordinator together); nothing left behind and no failure taken for a
shutdown (client process); exactly the unprotected addresses routed (TUN profile); a
verdict that means what it says, and a firewall that is gone afterwards (deployment
check).

## 2. Modules

```
GoMap                        Go maps as functions
  Allocator                  the address pool
    Registry                 leases and indexes     -- implements --> LeaseTable
      RegistryProofs         TLAPS proofs
      MCRegistry             instance for TLC
      Lifecycle              leases, heartbeats, endpoints, restarts, with time
        LifecycleProofs      TLAPS proofs (with RegistryProofs)
        MCLifecycle          instance for TLC
  Discovery                  one call of guardDiscovery
    DiscoveryLimiter         one peer's packets against it
      LimiterProofs          TLAPS proofs
  Tickets                    the ticket manager
  Relay = Registry + Discovery + the relay goroutine
    Coordinator = Relay + Tickets + sweeper + HTTP handlers
      CoordinatorProofs      TLAPS proofs (with RegistryProofs)
      MCCoordinator          instance for TLC
  P2P = Tickets + clients + network
    P2PProofs                TLAPS proofs
ClientProcess                run() of one client with its goroutines and the Xray child
  ClientProofs               TLAPS proofs
FullTunnel                   routes of the generated profile
  FullTunnelProofs           TLAPS proofs
Meshcheck                    the deployment check, iptables and the client it observes
  MeshcheckProofs            TLAPS proofs
  MCMeshcheck                instance for TLC
```

**Allocator, Registry.** One action per method; a method runs under the registry's
lock, so it is one step. Variables have the names of the Go fields. The two loops of
`Allocate` are `AllocateFresh` and `AllocateReused`; the offset is the least one that
is free. `Modulus` stands for 2^32 and the capacity is computed modulo it. A
registration is one of `RegisterAgain`, `RegisterNew`, `RegisterTokenFails` (random
bytes fail after the address was allocated: the address is released but the cursor
has moved) or nothing (`PoolExhausted`). `seenAt` and `cutoff` range over all of
`Time`, because the callers read the clock before the lock is taken.

**LeaseTable** is the abstract specification: leases, no indexes, no cursor. A grant
takes *any* usable address nobody holds and a token never used before.

**Discovery, DiscoveryLimiter.** The guard is a function of the limiter's state, the
packet's fingerprint and the time. Bucket units make fractional refills integral.

**Tickets.** What each method does while it holds the mutex.

**Relay.** The goroutine handles a datagram in the steps between which locks are
free: `RelayReceive` (GetByToken), `RelayBind`, `RelayGuard`, `RelayList`, `RelayFan`
and `RelayFanSend` per peer, or `RelayLookup` and `RelayDeliver`. The variable `relay`
is what it holds. `late` is a history variable: relay state that was written for a
session that had already ended.

**Coordinator.** Sweeper steps: `SweepExpire` (a tick is received, `ExpireBefore`),
then for each expired peer `SweepEndpoint` and `SweepDiscovery` (the two locks of
`ForgetPeer`) and `SweepTickets`, then `SweepPrune`. The ticker's channel holds one
tick and its time may be old. Handlers: one action per stretch between locks.
Clients are inputs: any request or frame with any token ever handed out.

**P2P.** Two or more clients, each with a poll loop (`PollTickets`, `PollCandidates`,
`IssueTicket`, `SendProbe` and their failures), a hello loop, a receive loop
(`Receive` reads ticket and time; `AnswerProbe`, `AcceptAck`, `AcceptPayload` or
`DropDatagram` acts on them) and a TUN loop (`SendDirect`, `SendFails`,
`HealthExpires`). `net` only grows: any datagram may arrive late, repeatedly, out of
order or never. A request the client gives up on may be carried out later
(`stray`, `StrayIssue`). A client may lose its lease (`LeaseExpires`) and restart with
a new socket and an empty memory (`Restart`).

**Lifecycle.** Clients and coordinator over several leases, with explicit time. A client
registers and sends a heartbeat whenever its ticker says so. The coordinator handles the
request (`BeatHeard`) some time before the timeout, or never; the answer arrives (`BeatOK`,
`BeatRejected`) or is lost (`BeatFails`), so a heartbeat that failed for the client may have
renewed the lease. Then the loop waits for its ticker (`AwaitTick`): a tick that fired during a
slow request starts the next heartbeat at once, further ones were dropped. A client gives up
after three failures or one 401 and may be restarted. Clients with `-tun` (`Tunnelled`) send
frames to the relay, and those with `-p2p-probe` (`Probing`) keep doing so; a frame of a process
that is gone may still be under way. The coordinator sweeps in two steps (`SweepExpire`,
`SweepForget` by node ID) and may restart with empty maps. The registry is the module Registry
itself, with one action per request.

**ClientProcess.** `run()` from registration to the last deferred call: a stage per service
it starts (`Register` ... `Spawn`), the five cases of its select, and the stack `defers`,
popped by `CloseCancel`/`CloseWait`, `RemoveConfig`, `Shutdown` and `Stop`. The other
goroutines are the heartbeat loop, the TUN goroutine, the status server and the two
goroutines around the child (`Publish` is the one in `Process.Start`, `ForwardWait` the one
in `run()`). Every stage can fail; a signal can come at any time; the child can end by
itself, with or without an error, at any time. Everything stops when `run()` has returned.

**FullTunnel.** From every combination of mesh prefix, gateway, coordinator and relay
addresses: the loop of `resolveProtectedPrefixes` (`Collect`, one step per prefix, with the
skip of addresses that are not IPv4 that `resolveHostIPv4` makes before), the
gateway that `BuildFullTunnelConfig` adds, and the loops of `IPv4RoutesExcluding`. A step
`Subtract` is one call of `subtractPrefix`: its prefix stays, goes, or its halves are to be
called for next. `work` is the call stack and the rest of the loop in the order of the calls,
`next` the list being built; `Exclude` ends one protected prefix and `Sort` is `sort.Slice`,
any permutation that is in order. A prefix is an address of `Width` bits and a length.

**Meshcheck.** One action per status request, ping or iptables command of `cmd/meshcheck`,
through the phases baseline, direct path, fallback, clean-up and recovery. iptables is
modelled by what its six commands need and do (`Applicable`, `Effect`), the client by its
counter and its choice of path, which other traffic changes at will.

### Abstractions

* Tokens, tickets and nonces are numbered in the order they are made; 256 random bits
  are taken not to collide. HMAC and AES-GCM are taken to work, so only what a holder
  of the ticket made verifies; wire formats are left out.
* Node IDs are numbers, because the code compares and sorts the strings.
* A UDP address is the session whose frame carried it (Relay) or a client process
  `<<node, life>>` (P2P).
* A payload is its kind (hello, malformed, unicast, discovery) and the addresses or the
  fingerprint that decide what happens to it. Frames dropped without touching state
  are not steps.
* The rounding of the bucket's float is left out.
* In P2P the coordinator answers a request in one step; its internal races are the
  subject of Coordinator. Likewise `SendDirectPayload` is one step.
* P2P has one clock, while in the program coordinator and clients judge the expiry of tickets and
  the age of candidates by their own. So `OneLiveTicketPerPair` supposes clocks that agree: a
  client that is ahead drops a ticket that still lives at the coordinator and issues another.
  The bound of `DeadPathBounded` holds up to the difference of the clocks. `NoPayloadTwice`
  compares only times of one receiver. With one clock the check on candidates observed more
  than five seconds in the future (p2p_runtime.go:290) never refuses any, so it is left out;
  with several it keeps a client whose clock is behind from having candidates.
* In Lifecycle a request or frame is handled in one step, and timers fire on time: a client
  whose host stops it for longer than a lease is outside the model. A heartbeat the coordinator
  handles after the client's timeout is left out; it can only lengthen the lease. There is
  one clock too, but leases are judged by the coordinator's alone and of a client only durations
  matter.
* In ClientProcess a goroutine's step ends at a channel, the context, the tracker or an
  operating-system effect. What the commands of `Configure` and the Xray configuration
  test find wrong is one failure.
* Addresses in FullTunnel have `Width` bits, as a function from positions to bits, and a name
  resolves to at most `MaxResolved` of them; that it may resolve to another one later is not
  modelled. All prefixes are valid and IPv4, as the callers make sure. A host may have an
  address that is not IPv4 for netip (`NotIPv4`), which is skipped: the properties are
  about the IPv4 addresses that are kept.
* In Meshcheck deadlines may pass at any time and measured times are left out. The pings of
  the baseline phase, and the ones collected after a direct path was seen, are one step.
* `GetByToken`, `List` and other reads are operators, not actions.

## 3. Runs

Deadlock checking is on everywhere: all models can always take a step.

| Run | Instance | Shows |
|---|---|---|
| `registry` | 4 nodes, 3 usable addresses of a /0 prefix (`Size = Modulus`), 5 sessions, times 0..2 | types, `IndexesAgree`, `LeasesDistinct`, `ReservedNeverLeased`, `ExhaustedMeansFull`, `TokensNeverRevive`, `LeaseStable`, and that Registry implements LeaseTable |
| `discovery_limiter` | 4 fingerprints, a packet costs 2 units, refill 1, burst 2, window 3, times 0..8 | `RateBound`, `DuplicatesSuppressed`, `SeenBounded` |
| `coordinator_relay` | 2 nodes, 3 sessions, discovery and unicast frames, registrations and heartbeats, times 0..2, lease 2 | `RelayStateExplained` (`EndpointsExplained` and `DiscoveryExplained`), `NoEarlyExpiry`, `FanoutComplete` |
| `coordinator_forget` | 2 nodes, registrations, one ticket issued, lists, times 0..2, fair | `TicketsExplained`, `ExpiredStateForgotten` |
| `p2p_paths` | 2 clients, one may restart; 1 ticket, 1 probe, 1 payload, times 0..1 | `NoPayloadTwice`, `DeadPathBounded` |
| `p2p_tickets` | 2 clients, the issuing one may restart; 3 tickets, times 0..2, no probes | `OneLiveTicketPerPair` |
| `p2p_converge` | 2 clients, clock stopped, fair | `ProbingConverges` |
| `lifecycle` | 2 nodes, one of which may restart, one usable address, 3 sessions, a coordinator that may restart once; lease 10, heartbeat 1, timeout 2, times 0..11, fair | `ClientLeavesFirst`, `NoLastingConflict`, `EndpointSettles` |
| `client_process` | every combination of services, fair | `NothingLeftBehind`, `ConfigOutlivesChild`, `CleanExitWasAskedFor`, `GivesUpWhenLeaseIsLost`, `ShutdownTerminates` |
| `full_tunnel` | 3-bit addresses, none or one per host, IPv4 or not, all inputs | `CoverIsExact`, `CoverIsCanonical`, `NoRecursiveRouting` |
| `meshcheck` | a relay with two addresses, 2 samples, 6 direct payloads, fair | `RelayStaysReachable`, `FallbackIsReal`, `PassedMeansRecovered`, `LeftoversExplained`, `BlockingEnds` |

One more run, `endpoint_race`, is expected to end in a violation: the first finding of section 5.
The type invariants of Registry, DiscoveryLimiter, Coordinator, P2P and ClientProcess are
checked by the first run of each.

Why the bounds are enough for what they are asked:

* `registry`: more nodes than addresses, so the pool runs full, and more sessions than
  addresses, so released addresses are leased again below the cursor. The times
  0, 1, 2 give a lease before, at and after a cutoff. The /0 prefix is the hard
  case of the arithmetic; the other prefixes are covered by the proofs and occur in the
  coordinator runs.
* `discovery_limiter`: four different packets exceed what a burst of two plus the refill
  of a window lets through, a refill of one unit of time is half a packet, and the
  clock passes the window more than twice. Five packets of history.
* `coordinator_*`: a lease is 2 and the clock reaches 2, so leases expire and nodes
  register again while a frame, a ticket request or an older tick is still being worked
  on; that is the smallest instance with every race. Two nodes suffice there, because
  the sweeper's state is per peer (its loop over two expired peers is included). One HTTP
  request is in progress at a time: handlers share nothing but the components, whose calls
  in any order and with any timestamp are in `registry`. A list of the fan-out has one
  entry; a list of any length is covered by the theorem `FanoutAlwaysComplete`
  (section 6). `FanoutComplete` is about broadcasts without an error; what an error
  does is described in section 5.
* `p2p_paths`: one ticket that expires at time 1, one payload. The repetition of a payload
  before, at and after expiry and pruning needs no second one. Path health set just
  before the ticket expires by a datagram of a process that is gone is reached.
* `p2p_tickets`: three tickets, so an expired one, its successor and one of an abandoned
  request can meet.
* `p2p_converge`: the clock is stopped, which says that the handshake fits into the
  lifetimes; with a clock that runs, a schedule that lets every ticket expire before its
  probe leaves is legal, and convergence is then a question of speed.
* `lifecycle`: one address for two nodes makes every reuse a possible conflict. The timeout is
  longer than the interval, so ticks fire during a request and are dropped. The lease is
  the least that satisfies `LeaseCoversRetries` (2 + 1 + 2 * 2 + 2 < 10; with a lease of 9
  `ClientLeavesFirst` fails), so the last heartbeat and the sweep are as close as they can be;
  the clock passes one lease. Both nodes send frames and node 1, which may be restarted, has the
  hello loop. The bounds stop restarts and clock, never a heartbeat or a frame.
* `client_process`: no bound but the three failures of the code.
* `full_tunnel`: with 3 bits there are whole space, halves, nested, equal and adjacent
  prefixes and single addresses, four of them in every combination; every level of the
  recursion is like the next. Other widths and hosts with several addresses are covered by the
  theorems (section 6).
* `meshcheck`: two relay addresses, so that the order of rules matters; two samples, so that
  a confirmation can be interrupted; six direct payloads, so that traffic can arrive
  in every phase.

Each property of a passing run has a *mutant*: an operator, defined next to the
definition it replaces and marked "Mutant of ...", that makes a plausible mistake. With
it in place TLC finds the property violated, so the property does depend on the code.

## 4. Fairness

* `FairCoordinatorSpec`: weak fairness of the sweeper's steps, of the relay once it
  holds a datagram and of each handler once it holds a request. These are goroutines that
  never wait for a remote party at those points; the Go scheduler runs them. Nothing
  is assumed of clients, and the clock may stop.
* `FairP2PSpec`: weak fairness of the hello, poll and receive loops (a request that is not
  answered ends with the HTTP client's timeout), and strong fairness of the
  *successful* outcome of requests, writes and receptions of probes and acknowledgements:
  what is tried again and again succeeds in the end. That is the usual assumption on a
  lossy network; without it nothing can be promised. Nothing is assumed of the clock,
  of the TUN loop or of restarts.
* `Lifecycle!FairSpec`: weak fairness of the arrival of hello frames, for the clients in
  `Probing` alone: `relayHelloLoop` sends one every ten seconds as long as the client runs, and
  not all of them are lost. Without `-p2p-probe` there is no such loop: `runTUN` writes one
  hello (client main.go:373) and a client without `-tun` none, so of those nothing is assumed and
  nothing is claimed. Nothing is assumed of heartbeats, sweeps, starts or the clock.
* `ClientProcess!FairSpec`: weak fairness of `run()`, of the supervisor's goroutines and of
  the kill by os/exec. The requests of start-up have timeouts; the configuration test alone
  may take for ever, unless the context is cancelled, and is fair only then. Heartbeats,
  TUN and child may do nothing for ever.
* `Meshcheck!FairSpec`: weak fairness of the check's own steps (commands, pings and requests
  end by themselves or by their timeouts) and of the deadlines of its two kinds of phase.
  The client and the network need not do anything.

## 5. Findings

All are disagreements between a sentence about the program and what it does. The first
is a run that ends in a counterexample.

* `endpoint_race`. docs/peer-leases.md:49 says that when a peer exceeds the lease TTL
  "the coordinator removes all state tied to the lease", the relay endpoint among it.
  `handleDatagram` authenticates (relay.go:179) and binds later (relay.go:183). With
  `ExpireBefore` and `ForgetPeer` in between, the endpoint stays; no later sweep
  removes it, because the peer is no longer in the registry. `EndpointsExplained` shows
  that this is the only way.

The others were seen while modelling, some of them as counterexamples of other instances:

* Lease and heartbeat. docs/peer-leases.md:43 says that "the client exits after three consecutive
  failures rather than silently continuing with a lease that the coordinator may soon reclaim".
  The server's flags (main.go:56) only ask that the interval be shorter than the lease. With
  15 s and 25 s a single lost heartbeat lets the lease end while the client has two attempts
  left, and its address may be leased to somebody else (`lifecycle` with an interval of 3, a
  timeout of 1 and a lease of 5 violates `ClientLeavesFirst`). What it takes is `LeaseCoversRetries`,
  `2 * timeout + interval + 2 * max(timeout, interval) < lease`: a slow answer to the
  registration, the first heartbeat, two more, and the timeout of the last. The defaults
  (60, 15 and 5 seconds) satisfy it, and it is exact: with a lease one unit shorter TLC finds a
  counterexample for each of the intervals and timeouts 1/1, 1/2 and 2/1.
* Fan-out. docs/discovery-overlay.md:8 says discovery packets go "to every
  active peer except the sender". `broadcast` returns at the first delivery that fails
  (relay.go:317), and the peers after it in the list get nothing; a sender that repeats the packet
  within the duplicate window does not help them. `FanoutComplete` is what does hold: without
  an error, everybody with an endpoint is reached.
* Tickets. The comment on `ForgetNode` (tickets.go:127) says stale credentials
  "cannot outlive a peer". `issueProbeTicket` looks at both peers and stores the ticket
  afterwards; a sweep in between deletes too early. The ticket stays until it expires.
  `TicketsExplained` shows that this is the only way.
* Deleted tickets. The comment at p2p_runtime.go:269 says a just-issued local ticket is
  kept "until the next coordinator list has a chance to include it". `replaceTickets`
  keeps every local ticket until it expires, also when list after list lacks it because
  the coordinator deleted it with a peer's lease; meanwhile the client issues no
  ticket to the restarted peer.
* Endpoints. A node that registers again between `ExpireBefore` and `ForgetPeer` of its old
  lease, or whose old process has a frame under way, loses its relay endpoint. With
  `-p2p-probe` the hello loop brings it back (`EndpointSettles`); without, it is gone until the
  node sends a packet of its own, and nothing reaches it meanwhile.
* Protected hosts. An address for which `Is4` is false is skipped without an error
  (client main.go:327). If Go's resolver returned a host's address mapped into IPv6, the host
  would silently be unprotected; whether it does is not decided in this repository.
* Health. README.md:158 says `/healthz` returns 200 "only when every enabled runtime service
  is in the `running` state". After a failed heartbeat or a failed status server `run()`
  stops Xray without touching the tracker, and `onReady` may set the mesh to running after it
  was set to stopped; until the listener is closed `/healthz` then answers 200.
* Exit status. A heartbeat that fails because the context was cancelled counts; as the
  third failure in a row it competes with `ctx.Done()` in the select, and a client that
  was asked to stop may report an error.
* Firewall. `-N` that is killed after it took effect leaves an empty chain behind: the
  rollback is registered after it (firewall_linux.go:52). It blocks nothing.
* Timestamps. Of two overlapping registrations of a node the one with the older timestamp
  may be applied last (registry.go:42 is called with a time read before the lock), which
  shortens the lease by as much as a handler waits for a lock.
* Path health. docs/live-p2p-probes.md:27 says a path is marked healthy "only after a valid
  ACK"; since direct payloads exist, one of those marks it too (direct_runtime.go:99).

## 6. Proofs

Every safety property of the passing runs, invariant or action property, is a theorem. A run shows a property on its instance; its theorem shows it for
all values of the constants that satisfy the assumptions named below. The bounds of the
models (`MaxTime`, `MaxTickets`, ...) are constants too, so the theorems hold for every
bound. TLC evaluates every assumption in the run of its module. All proofs
have the same frame: an inductive invariant, a lemma that the initial states satisfy it, a
lemma for each action (or group of actions) that the action keeps it, and a temporal step.

### Registry

`RegistryProofs` proves, for every set of nodes, every prefix the allocator accepts,
every set of timestamps and every number of sessions:

| Theorem | Establishes |
|---|---|
| `TypeCorrect` | `RegistryTypeOK`, the cursor's range included |
| `IndexesAlwaysAgree` | the five maps describe the same leases |
| `CursorStaysAbove` | no address at or above the cursor is in use |
| `LeasesAlwaysDistinct` | no two nodes share an address or a token |
| `ReservedSafe` | network, gateway and broadcast address are never leased |
| `ExhaustionIsReal` | `ErrPoolExhausted` only when every usable address is leased |
| `DeadTokensStayDead` | a token that stopped resolving never resolves again |
| `LeasesAreStable` | a lease keeps its address and token until it is swept |
| `RegistryRefinement` | Registry implements LeaseTable |

Assumptions: `NodeAssumption` (node IDs are ordered), `PrefixAssumption` (what
`NewAllocator` checks: at least four addresses, inside the address space),
`TimeAssumption`, `SessionsAssumption`.

The inductive invariant `RegistryInv` is `RegistryTypeOK`, `IndexesAgree`,
`CursorAboveLeases` and `LeasesBounded` (every leased address is usable, every token in
the index was handed out). Distinctness alone is not inductive: that a registration
gives out an address nobody holds is decided by `used`, so it takes the agreement of
`used` with `peers`. A sweep deletes by address and token, so it takes the agreement of
all maps to know that it removes entries of expired peers only. The exhaustion
theorem needs the cursor's range: the two scans together cover 2..Size-2 only if the
cursor never passes the end. That tokens never revive needs `LeasesBounded`: the next
token is not yet in the index.

Among the lemmas on arithmetic, `LastOffset` shows that `capacity-1` in uint32
arithmetic is the offset of the broadcast address, the wrapped /0 prefix included;
`AddressInjective` that different offsets are different addresses. `AllocateFacts` says
what either loop of `Allocate` yields. Then one lemma per kind of step shows that
`RegistryInv` is preserved (`RenewInv`, `RegisterNewInv`, `TokenFailsInv`, `ExpireInv`),
and `NextInv` combines them. `StepFacts` carries the two action properties; the
refinement maps registrations to grants or renewals, a heartbeat to a renewal by
token, a sweep to a sweep and a failed registration to a stutter.

### Discovery guard

`LimiterProofs`, from `DiscoveryAssumption` (what `main` checks: rate and burst are positive,
the window is not negative) and `LimiterBounds`:

| Theorem | Establishes |
|---|---|
| `LimiterTypeCorrect` | `LimiterTypeOK` |
| `RateAlwaysBounded` | `RateBound`: burst plus sustained rate, over any stretch of time |
| `DuplicatesAlwaysSuppressed` | `DuplicatesSuppressed` |
| `SeenAlwaysBounded` | `SeenBounded` |

`RateBound` compares two packets of the past and says nothing of the bucket, so it is not
inductive. `Budget` is the potential that is: what was fanned out since any earlier packet,
plus what the bucket holds, is at most a full bucket plus the refill of the time between.
`SeenBudget` says the same of the fingerprints remembered since any moment; with
`SeenFresh` (no entry is a window older than the last refill) it bounds the map.
`Remembered` (what was fanned out within the window is in the map) is what pruning must not
break for `DuplicatesSuppressed`. The lemmas `PruneFacts`, `RefillFacts` and `GuardFacts` say
what one call of `guardDiscovery` does.

### Coordinator

`CoordinatorProofs`, for any number of nodes, concurrent handlers and datagrams, from the
registry's assumptions, `CoordinatorAssumption` (the checks `main` makes on its flags),
`TicketAssumption` and `DiscoveryAssumption`:

| Theorem | Establishes |
|---|---|
| `FanoutAlwaysComplete` | `FanoutComplete` |
| `CoordinatorTypeCorrect` | `CoordinatorTypeOK` |
| `CoordinatorIndexesAgree` | `IndexesAgree` in the whole process |
| `RelayStateAlwaysExplained` | `RelayStateExplained`, endpoints and discovery state |
| `TicketsAlwaysExplained` | `TicketsExplained` |
| `LeasesNeverEndEarly` | `NoEarlyExpiry` |
| `CoordinatorImplementsRegistry` | the process implements Registry |
| `CoordinatorImplementsLeaseTable` | and so LeaseTable, with distinct, stable leases and dead tokens that stay dead |

`FanoutAlwaysComplete` needs none of the assumptions on the constants. The
property is about the last step of a fan-out and says nothing of the steps before, so the
invariant `FanoutInv` is the loop invariant of `broadcast`: of the listed peers it is through
with, those that have an endpoint *now* are among the reached ones (`FanoutLoop`), and
the relay's record has the fields its step reads (`RelayShape`). The sweeper and the
handlers leave the record alone and only ever remove endpoints (`OthersOnlyForget`); the
one step that adds an endpoint is the relay's own bind, which cannot happen
during a fan-out. A peer that was skipped because it had no endpoint therefore still has none
when the fan-out ends. `FanoutEnds` shows that only an empty list ends it without an
error.

The others rest on one invariant of the process, `CoordinatorInv`: `RegistryInv`, the types,
the two "explained" properties, and `SessionsTrue`. The last one is what they lack by
themselves. The relay holds a session it read some time ago; `SessionsTrue` says that this
session has ended or is still the same node's, and so are the sessions of the endpoints.
An endpoint that loses its session to a sweep is then one whose node the sweep has put on the
sweeper's list. `NoEarlyExpiry` needs that a pending tick is
not in the future. The refinement needs that a handler's timestamps are in `Time` and
that a sweep whose cutoff lies before time 0 finds nothing.

### Direct path

`P2PProofs`, for any number of clients, restarts, tickets, probes and payloads and any
lifetimes, from `P2PAssumption` (client IDs are ordered, lifetimes are natural numbers, the
selector's TTL is positive) and `TicketAssumption` (`main` refuses a ticket lifetime that is
not positive):

| Theorem | Establishes |
|---|---|
| `P2PInvariant` | the inductive invariant `P2PInv` |
| `P2PTypeCorrect` | `P2PTypeOK` |
| `NoPayloadEverTwice` | `NoPayloadTwice` |
| `DeadPathsAlwaysBounded` | `DeadPathBounded` |
| `OneLiveTicketAlways` | `OneLiveTicketPerPair` |

Coordinator and clients forget a ticket at times of their own, so no state says that two
copies of it were equal, or under which ticket a payload was sealed. `P2PInv`
therefore says that there are two functions, `E` from the tickets ever issued to their contents
and `D` from the payloads ever sent to their tickets, with which everything held anywhere
agrees (`TicketsTrue`, `PayloadsTrue`, `PathsTrue`); a step extends them or leaves them alone.

* *No payload twice.* A payload that was written is in the replay cache unless its ticket has
  expired for the receive loop. The loop reads the time, and may act on it much later, after
  the clock has moved on; `Seen` is the time that counts for it. A key is pruned against the
  same time against which the next payload's ticket is checked, so a payload whose
  key is gone does not open.
* *Dead paths.* What a process sent that is gone, it sent under tickets issued before its
  successor was born, and these expire within one ticket lifetime of that birth.
* *One live ticket.* `Ownership` follows a client through its poll cycle: after its list it
  knows every live ticket it is the source of at the coordinator, so it asks only for pairs that
  have none (`PollTrue`); of the requests it gave up on at most one is not overtaken by a
  list, and its pair has no ticket (`StraysTrue`); the smaller node is the source (`Ordered`).

The proof goes over the 20 actions twice. First every action keeps the types (`TypeNext`)
and moves data only in a few ways (`FlowNext`: where each ticket, probe, datagram, key and
path of the next state comes from). The three history invariants are then proved from `Flow`
alone, without the actions; only `Ownership` looks at them again.

### Clients and coordinator over time

`LifecycleProofs`, from `LifecycleAssumption` (what the flags ask for) and the registry's
assumptions. The first two have `LeaseCoversRetries` (section 5) as a hypothesis in their
statement, because they are false without; the others hold for all flags:

| Theorem | Establishes |
|---|---|
| `ClientAlwaysLeavesFirst` | `ClientLeavesFirst`, if `LeaseCoversRetries` |
| `ConflictsNeverLast` | `NoLastingConflict`, if `LeaseCoversRetries` |
| `LifecycleIndexesAgree` | `IndexesAgree` and `LeasesDistinct`, restarts included |
| `SessionsNeverRevive` | `TokensNeverRevive`, restarts included |
| `LifecycleLeasesStable` | `LeaseStable`, restarts included |
| `LifecycleImplementsLeaseTable` | every step is a step of LeaseTable, none, or a restart |

`LifecycleInv` dates everything: the next heartbeat of a client with `f` failures starts at
most `timeout + interval + f * max(timeout, interval)` (`Patience`) after its lease was last
renewed (`Leased`) or, for an orphan, after its coordinator was restarted (`Orphaned`); if the
coordinator has heard the present heartbeat, the lease was renewed after it started (`DueBy`).
No heartbeat is overdue by more than one timeout (`Timely`). At the third failure the client
is gone, so a lease that covers the retries outlives it.
The last four need only the registry's invariant and the range of the clock (`BaseInv`): a step of clients and
coordinator is one call of the registry, none, or a restart (`RegistryStepOrRestart`), and
the lemmas `TokensStep`, `LeaseStep` and `TableStep` of `RegistryProofs` say what a call does.
A restart empties the maps, so it can bring no token back; that it does not hand one out a second
time is the assumption that random tokens do not collide.

### Client process

`ClientProofs`, for every combination of services; ClientProcess has no assumptions:

| Theorem | Establishes |
|---|---|
| `ClientInvariant` | the inductive invariant `ClientInv` |
| `ClientTypeCorrect` | `ClientTypeOK` |
| `NothingIsLeftBehind` | `NothingLeftBehind` |
| `ConfigAlwaysOutlivesChild` | `ConfigOutlivesChild` |
| `CleanExitIsAskedFor` | `CleanExitWasAskedFor` |
| `GivesUpExactlyWhenLeaseIsLost` | `GivesUpWhenLeaseIsLost` |

What is to be undone at the end is covered by a deferred call that is still on the stack
(`Covered`), and the stack is in the order of start-up (`InOrder`), so that `Close` comes before
the removal of the file. The heartbeat's counter equals the number of failures at the end of
its history (`BeatInv`): the counter alone does not say that they were in a row.

### Routes

`FullTunnelProofs`, for every width of an address, every mesh prefix and gateway and any number of
addresses of the two hosts (`TunnelAssumption`: the width is positive; `NotIPv4Assumption`: an address is IPv4 or not):

| Theorem | Establishes |
|---|---|
| `CoverAlwaysExact` | `CoverIsExact` |
| `CoverAlwaysCanonical` | `CoverIsCanonical` |
| `NeverRecursiveRouting` | `NoRecursiveRouting` |

The routes change only when a cut is complete, so nothing about them is inductive without the
calls in between. `Cutting` says of these: what is left (`next`) and what is due (`work`)
together cover what the routes covered, up to the cut; no two of all these prefixes overlap; and
if two are the halves of one prefix, one of them is due and overlaps the cut. The last part is
why the cover is the smallest one: a prefix is divided only when the cut lies strictly inside it
(`HalvesFacts`), so exactly one half escapes, and no other prefix can be the sibling of a half
because it would lie in the divided prefix. One lemma per outcome of a call (`KeepStep`,
`DropStep`, `SplitStep`) keeps `Cutting`; `CutBegins` and `CutEnds` link it with the routes.
The order is strict because prefixes that do not overlap have different addresses, and
two addresses are decided by the first bit in which they differ (`LessTotal`).
`NoRecursiveRouting` follows from the exact cover and `Collected`: every IPv4 prefix that was
resolved is on the list, whichever of them are equal.

### Deployment check

`MeshcheckProofs`, for any non-empty list of relay addresses and any number of samples
(`MeshcheckAssumption`; an address is not the word for the drop rule):

| Theorem | Establishes |
|---|---|
| `MeshcheckInvariant` | the inductive invariant `MeshcheckInv` |
| `RelayAlwaysReachable` | `RelayStaysReachable` |
| `FallbackAlwaysReal` | `FallbackIsReal` |
| `PassedAlwaysMeansRecovered` | `PassedMeansRecovered` |
| `LeftoversAlwaysExplained` | `LeftoversExplained` |

The chain is always a beginning of its rules, relay addresses first and the drop last
(`InOrder`). `FirewallInv` says for every phase what is left of the firewall: `Installing`
ties the chain to the number of commands still to run, `AfterD`, `AfterF` and `AfterX` say
that what a clean-up command should have removed is gone or the command is on record as
failed. `CounterInv` and `RouteInv` do the same for the counter and the pings.

### Only model-checked

* The liveness properties: `ExpiredStateForgotten`, `ProbingConverges`, `EndpointSettles`,
  `ShutdownTerminates`, `BlockingEnds`. The prover does not reason about fairness
  and ENABLED.
* `endpoint_race` is a counterexample and stays one.

## 7. Plan

Done: registry, discovery guard, coordinator, direct path, client lifecycle, client process,
routes and deployment check are modelled and checked; all safety properties are proved.
What would come next:

* **P2P with addresses**: `listCandidates` as a loop over endpoints and registry, the
   virtual-IP checks on direct payloads, an address that passes to another node while
   it is cached in a client's candidates. What can go wrong there is small: a wrong
   candidate costs packets until the next list, since the receiver compares both
   addresses with its own and the sender's.

## 8. Not modelled

* Relay frame codec, IPv4 parser: stateless functions of bytes with unit tests.
* Flags, JSON, the report of the deployment check and its statistics, the multicast
  addresses of the classifier: no state depends on them beyond the branches that are
  modelled.
* The interface in `internal/xray/outbound.go`: nothing implements or calls it.
* Telemetry counters: only `direct_tx` is read back; it is a variable of Meshcheck.
* TUN device: system calls.
* Cryptography, TLS and the contents of HTTP messages beyond what decides a branch.
