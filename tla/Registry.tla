------------------------------ MODULE Registry -------------------------------
(***************************************************************************)
(* The peer registry of internal/mesh/registry.go: the lease table, its    *)
(* two lookup maps and the allocator it owns.  Every method holds the      *)
(* registry's lock from its first access of the maps to its return, so a   *)
(* method is one step.  The timestamps seenAt and cutoff are read by the   *)
(* callers before the lock is taken and may be of any age: they range over *)
(* Time.  Session tokens are 256 random bits, taken never to collide; they *)
(* are numbered in the order they are handed out.                          *)
(***************************************************************************)
EXTENDS Allocator

CONSTANTS
    Time,           \* timestamps
    MaxSessions     \* bound on the session tokens handed out

ASSUME TimeAssumption == Time \subseteq Nat
ASSUME SessionsAssumption == MaxSessions \in Nat

VARIABLES
    peers,          \* node ID -> Peer
    byIP,           \* virtual IP -> node ID
    byToken,        \* session token -> node ID
    minted          \* session tokens 1..minted have been handed out

indexVars == <<byIP, byToken, minted>>
registryVars == <<allocVars, peers, indexVars>>

Token == 1..MaxSessions

Peer == [NodeID : Node, VirtualIP : Addr, SessionToken : Token, LastSeen : Time]

RegistryInit ==
    /\ AllocatorInit
    /\ peers = Empty
    /\ byIP = Empty
    /\ byToken = Empty
    /\ minted = 0

\* Mutant of RegisterAgain: every registration gets a new token.
RegisterAgainRotates(n, seenAt) ==
    /\ n \in DOMAIN peers
    /\ minted < MaxSessions
    /\ peers' = Put(peers, n, [peers[n] EXCEPT !.LastSeen = seenAt, !.SessionToken = minted + 1])
    /\ byToken' = Put(byToken, minted + 1, n)
    /\ minted' = minted + 1
    /\ UNCHANGED <<allocVars, byIP>>

\* registerAt, when the node holds a lease: address and token are kept.
RegisterAgain(n, seenAt) ==
    /\ n \in DOMAIN peers
    /\ peers' = Put(peers, n, [peers[n] EXCEPT !.LastSeen = seenAt])
    /\ UNCHANGED <<allocVars, indexVars>>

Insert(peer) ==
    /\ peers' = Put(peers, peer.NodeID, peer)
    /\ byIP' = Put(byIP, peer.VirtualIP, peer.NodeID)
    /\ byToken' = Put(byToken, peer.SessionToken, peer.NodeID)

\* Mutant of RegisterNew: the token is derived from the node ID.
RegisterNewFixedToken(n, seenAt) ==
    /\ n \notin DOMAIN peers
    /\ minted < MaxSessions
    /\ Allocate(n)
    /\ minted' = minted + 1
    /\ Insert([NodeID |-> n, VirtualIP |-> byNode'[n],
               SessionToken |-> n, LastSeen |-> seenAt])

\* registerAt, when it does not: an address, a token, the three maps.
RegisterNew(n, seenAt) ==
    /\ n \notin DOMAIN peers
    /\ minted < MaxSessions
    /\ Allocate(n)
    /\ minted' = minted + 1
    /\ Insert([NodeID |-> n, VirtualIP |-> byNode'[n],
               SessionToken |-> minted + 1, LastSeen |-> seenAt])

\* newSessionToken fails: the address just allocated is released, but the
\* cursor has moved past it.
RegisterTokenFails(n) ==
    /\ n \notin DOMAIN peers
    /\ n \notin DOMAIN byNode
    /\ \/ \E o \in Fresh : (\A p \in Fresh : o <= p) /\ next' = o + 1
       \/ Fresh = {} /\ Reusable # {} /\ UNCHANGED next
    /\ UNCHANGED <<byNode, used, peers, indexVars>>

Known(t) == t \in DOMAIN byToken /\ byToken[t] \in DOMAIN peers

GetByToken(t) == peers[byToken[t]]

\* GetByVirtualIP finds a peer; its caller delivers to that peer's node.
Reachable(ip) == ip \in DOMAIN byIP /\ byIP[ip] \in DOMAIN peers

TouchByToken(t, seenAt) ==
    /\ Known(t)
    /\ LET n == byToken[t] IN
        peers' = Put(peers, n, [peers[n] EXCEPT !.LastSeen = seenAt])
    /\ UNCHANGED <<allocVars, indexVars>>

Expired(cutoff) == {n \in DOMAIN peers : peers[n].LastSeen <= cutoff}

\* Mutant of ExpireBefore: the delete from byToken is missing.
ExpireKeepsTokens(cutoff) ==
    LET E == Expired(cutoff) IN
    /\ peers' = Drop(peers, E)
    /\ byIP' = Drop(byIP, {peers[n].VirtualIP : n \in E})
    /\ ReleaseAll(E)
    /\ UNCHANGED <<byToken, minted>>

ExpireBefore(cutoff) ==
    LET E == Expired(cutoff) IN
    /\ peers' = Drop(peers, E)
    /\ byIP' = Drop(byIP, {peers[n].VirtualIP : n \in E})
    /\ byToken' = Drop(byToken, {peers[n].SessionToken : n \in E})
    /\ ReleaseAll(E)
    /\ UNCHANGED minted

RegistryNext ==
    \/ \E n \in Node, seenAt \in Time : RegisterAgain(n, seenAt)
    \/ \E n \in Node, seenAt \in Time : RegisterNew(n, seenAt)
    \/ \E n \in Node : RegisterTokenFails(n)
    \/ \E t \in Token, seenAt \in Time : TouchByToken(t, seenAt)
    \/ \E cutoff \in Time : ExpireBefore(cutoff)

RegistrySpec == RegistryInit /\ [][RegistryNext]_registryVars

------------------------------------------------------------------------------
(* Properties *)

\* The maps have the types of their Go declarations, and the cursor stays
\* between 2 and the end of the pool.
RegistryTypeOK ==
    /\ IsMap(byNode, Node, Addr)
    /\ IsMap(used, Addr, Node)
    /\ next \in 2..(Size - 1)
    /\ IsMap(peers, Node, Peer)
    /\ IsMap(byIP, Addr, Node)
    /\ IsMap(byToken, Token, Node)
    /\ minted \in 0..MaxSessions

\* The five maps describe one set of leases: after any sequence of
\* registrations, failed registrations, renewals and sweeps, the allocator's
\* two maps, the address index and the token index hold exactly the leases in
\* peers, so that no address or token is leaked or resolves to another node.
IndexesAgree ==
    /\ DOMAIN byNode = DOMAIN peers
    /\ \A n \in DOMAIN peers :
        /\ peers[n].NodeID = n
        /\ byNode[n] = peers[n].VirtualIP
        /\ byNode[n] \in DOMAIN used /\ used[byNode[n]] = n
        /\ peers[n].SessionToken \in DOMAIN byToken
        /\ byToken[peers[n].SessionToken] = n
    /\ \A ip \in DOMAIN used :
        used[ip] \in DOMAIN peers /\ peers[used[ip]].VirtualIP = ip
    /\ byIP = used
    /\ \A t \in DOMAIN byToken :
        byToken[t] \in DOMAIN peers /\ peers[byToken[t]].SessionToken = t

\* No two nodes share a virtual IP or a session token (what the relay's
\* routing by address and its authentication by token rest on).
LeasesDistinct ==
    \A m, n \in DOMAIN peers :
        \/ m = n
        \/ /\ peers[m].VirtualIP # peers[n].VirtualIP
           /\ peers[m].SessionToken # peers[n].SessionToken

\* Allocate never hands out the network, gateway (.1) or broadcast address of
\* the prefix, also when capacity wraps around to 0 in a uint32 (prefix /0).
ReservedNeverLeased ==
    \A n \in DOMAIN peers :
        peers[n].VirtualIP \notin {Address(0), Address(1), Address(Size - 1)}

\* ErrPoolExhausted is reported only when every usable address is leased: the
\* two scans of Allocate, from the cursor up and below the cursor, miss no
\* released address.
ExhaustedMeansFull ==
    \A n \in Node : PoolExhausted(n) => Usable \subseteq DOMAIN byIP

\* The addresses at and above the cursor have no holder: a fresh address is
\* taken from the pool's untouched end as long as there is one.
CursorAboveLeases ==
    \A o \in next..(Size - 1) : Address(o) \notin DOMAIN used

\* A session token that stopped resolving never resolves again, and one that
\* still resolves names the same node ("packets using the old session token
\* fail relay authentication", docs/peer-leases.md).
TokensNeverRevive ==
    [][\A t \in 1..minted :
        t \in DOMAIN byToken' =>
            t \in DOMAIN byToken /\ byToken'[t] = byToken[t]]_registryVars

\* As long as a lease is not expired its node keeps its address and its token,
\* whatever is registered or renewed meanwhile.
LeaseStable ==
    [][\A n \in DOMAIN peers \cap DOMAIN peers' :
        /\ peers'[n].VirtualIP = peers[n].VirtualIP
        /\ peers'[n].SessionToken = peers[n].SessionToken]_registryVars

Table == INSTANCE LeaseTable WITH lease <- peers, spent <- minted

\* The registry implements the abstract lease table.
ImplementsLeaseTable == Table!Spec
==============================================================================
