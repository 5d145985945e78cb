--------------------------- MODULE RegistryProofs ----------------------------
(***************************************************************************)
(* Proofs about the registry, for every set of nodes, prefix, set of       *)
(* timestamps and number of sessions.                                      *)
(***************************************************************************)
EXTENDS Registry, TLAPS

------------------------------------------------------------------------------
(* Go maps *)

\* Assignment keeps a map's type.
LEMMA PutType ==
    ASSUME NEW m, NEW K, NEW V, IsMap(m, K, V), NEW k \in K, NEW v \in V
    PROVE  IsMap(Put(m, k, v), K, V)
  BY DEF IsMap, Put

\* Deletion keeps a map's type.
LEMMA DropType ==
    ASSUME NEW m, NEW K, NEW V, IsMap(m, K, V), NEW D
    PROVE  IsMap(Drop(m, D), K, V)
  BY DEF IsMap, Drop, Restrict

------------------------------------------------------------------------------
(* Address arithmetic *)

\* Below the modulus, % is the identity.
LEMMA ModSmall ==
    ASSUME NEW m \in Nat \ {0}, NEW x \in Int, 0 <= x, x < m
    PROVE  x % m = x
  OBVIOUS

\* uint32 arithmetic at the wrap-around: 2^32 is 0, and 0 - 1 is 2^32 - 1.
LEMMA ModWrap ==
    ASSUME NEW m \in Nat \ {0}
    PROVE  m % m = 0 /\ (0 - 1) % m = m - 1
  OBVIOUS

\* capacity-1 is the offset of the broadcast address, also for a /0 prefix,
\* where capacity is 0 and capacity-1 wraps around.
LEMMA LastOffset == Last = Size - 1
<1>1. Modulus \in Nat \ {0} /\ Size \in Int /\ 4 <= Size /\ Size <= Modulus
  BY PrefixAssumption
<1>2. CASE Size = Modulus
  BY <1>1, <1>2, ModWrap DEF Last, Capacity
<1>3. CASE Size < Modulus
  <2>1. Capacity = Size
    BY <1>1, <1>3, ModSmall DEF Capacity
  <2>2. QED
    BY <1>1, <1>3, <2>1, ModSmall DEF Last
<1>4. QED
  BY <1>1, <1>2, <1>3

\* addIPv4 never wraps around inside the prefix.
LEMMA AddressValue ==
    ASSUME NEW o \in 0..(Size - 1)
    PROVE  Address(o) = Base + o
  BY PrefixAssumption, ModSmall DEF Address

\* Different offsets are different addresses.
LEMMA AddressInjective ==
    ASSUME NEW o \in 0..(Size - 1), NEW p \in 0..(Size - 1), o # p
    PROVE  Address(o) # Address(p)
  BY PrefixAssumption, AddressValue

------------------------------------------------------------------------------
(* The inductive invariant *)

\* Every leased address is usable and every live token was handed out.
LeasesBounded ==
    /\ DOMAIN used \subseteq Usable
    /\ DOMAIN byToken \subseteq 1..minted

RegistryInv ==
    /\ RegistryTypeOK
    /\ IndexesAgree
    /\ CursorAboveLeases
    /\ LeasesBounded

\* It holds of the empty registry NewRegistry returns.
LEMMA InitInv == RegistryInit => RegistryInv
  BY PrefixAssumption, SessionsAssumption
  DEF RegistryInit, AllocatorInit, RegistryInv, RegistryTypeOK, IndexesAgree,
      CursorAboveLeases, LeasesBounded, Empty, IsMap

\* Whatever loop of Allocate finds the address, the address is usable, nobody
\* holds it and the cursor ends up above it.
LEMMA AllocateFacts ==
    ASSUME RegistryTypeOK, NEW n \in Node, Allocate(n)
    PROVE  \E o \in 2..(Size - 2) :
              /\ Address(o) \notin DOMAIN used
              /\ Assign(n, o)
              /\ next' \in next..(Size - 1)
              /\ o < next'
<1>1. next \in 2..(Size - 1) /\ Size \in Int
  BY PrefixAssumption DEF RegistryTypeOK
<1>2. CASE AllocateFresh(n)
  <2>1. PICK o \in Fresh : Assign(n, o) /\ next' = o + 1
    BY <1>2 DEF AllocateFresh
  <2>2. QED
    BY <1>1, <2>1, LastOffset DEF Fresh, Free
<1>3. CASE AllocateReused(n)
  <2>1. PICK o \in Reusable : Assign(n, o) /\ next' = next
    BY <1>3 DEF AllocateReused
  <2>2. QED
    BY <1>1, <2>1, LastOffset DEF Reusable, Free
<1>4. QED
  BY <1>2, <1>3 DEF Allocate

\* Changing LastSeen of one lease, by re-registration or by heartbeat.
LEMMA RenewInv ==
    ASSUME RegistryInv, NEW n \in DOMAIN peers, NEW seenAt \in Time,
           peers' = Put(peers, n, [peers[n] EXCEPT !.LastSeen = seenAt]),
           UNCHANGED <<allocVars, indexVars>>
    PROVE  RegistryInv'
<1> DEFINE p == [peers[n] EXCEPT !.LastSeen = seenAt]
<1>1. n \in Node /\ peers[n] \in Peer
  BY DEF RegistryInv, RegistryTypeOK, IsMap
<1>2. /\ p \in Peer
      /\ p.NodeID = peers[n].NodeID
      /\ p.VirtualIP = peers[n].VirtualIP
      /\ p.SessionToken = peers[n].SessionToken
  BY <1>1 DEF Peer
<1>3. IsMap(peers', Node, Peer)
  BY <1>1, <1>2, PutType DEF RegistryInv, RegistryTypeOK
<1>4. /\ DOMAIN peers' = DOMAIN peers
      /\ \A m \in DOMAIN peers :
            /\ peers'[m].NodeID = peers[m].NodeID
            /\ peers'[m].VirtualIP = peers[m].VirtualIP
            /\ peers'[m].SessionToken = peers[m].SessionToken
  <2> HIDE DEF p
  <2>1. peers' = Put(peers, n, p)
    BY DEF p
  <2>2. DOMAIN peers' = DOMAIN peers /\ peers'[n] = p
    BY <2>1 DEF Put
  <2>3. \A m \in DOMAIN peers : m # n => peers'[m] = peers[m]
    BY <2>1 DEF Put
  <2>4. QED
    BY <1>2, <2>2, <2>3
<1>5. /\ byNode' = byNode /\ used' = used /\ next' = next
      /\ byIP' = byIP /\ byToken' = byToken /\ minted' = minted
  BY DEF allocVars, indexVars
<1>6. RegistryTypeOK'
  BY <1>3, <1>5 DEF RegistryInv, RegistryTypeOK
<1>7. IndexesAgree'
  BY <1>4, <1>5 DEF RegistryInv, IndexesAgree
<1>8. CursorAboveLeases' /\ LeasesBounded'
  BY <1>5 DEF RegistryInv, CursorAboveLeases, LeasesBounded
<1>9. QED
  BY <1>6, <1>7, <1>8 DEF RegistryInv

\* A new lease: one address and one token nobody holds enter the five maps.
LEMMA RegisterNewInv ==
    ASSUME RegistryInv, NEW n \in Node, NEW seenAt \in Time,
           RegisterNew(n, seenAt)
    PROVE  RegistryInv'
<1> DEFINE t == minted + 1
<1>1. PICK o \in 2..(Size - 2) :
            /\ Address(o) \notin DOMAIN used
            /\ Assign(n, o)
            /\ next' \in next..(Size - 1)
            /\ o < next'
  <2>1. RegistryTypeOK /\ Allocate(n)
    BY DEF RegisterNew, RegistryInv
  <2>2. QED
    BY <2>1, AllocateFacts
<1> DEFINE ip == Address(o)
           p == [NodeID |-> n, VirtualIP |-> ip, SessionToken |-> t, LastSeen |-> seenAt]
<1>2. /\ Size \in Int /\ minted \in Nat /\ minted < MaxSessions
      /\ minted' = t /\ n \notin DOMAIN peers
      /\ next \in 2..(Size - 1)
  BY PrefixAssumption, SessionsAssumption
  DEF RegisterNew, RegistryInv, RegistryTypeOK
<1>3. ip \in Usable /\ ip \in Addr /\ t \in Token
  BY <1>2, SessionsAssumption DEF Usable, Addr, Token
<1>4. byNode' = Put(byNode, n, ip) /\ used' = Put(used, ip, n)
  BY <1>1 DEF Assign
<1>5. byNode'[n] = ip
  BY <1>4 DEF Put
<1>6. Insert(p)
  BY <1>5 DEF RegisterNew
<1>7. /\ peers' = Put(peers, n, p)
      /\ byIP' = Put(byIP, ip, n)
      /\ byToken' = Put(byToken, t, n)
  BY <1>6 DEF Insert
<1>8. p \in Peer /\ p.NodeID = n /\ p.VirtualIP = ip /\ p.SessionToken = t
  BY <1>3 DEF Peer
<1>9. t \notin DOMAIN byToken /\ DOMAIN byToken' \subseteq 1..minted'
  BY <1>2, <1>7 DEF RegistryInv, LeasesBounded, Put
<1> HIDE DEF p, ip, t
<1>10. RegistryTypeOK'
  <2>1. IsMap(byNode', Node, Addr) /\ IsMap(used', Addr, Node)
    BY <1>3, <1>4, PutType DEF RegistryInv, RegistryTypeOK
  <2>2. IsMap(peers', Node, Peer)
    BY <1>7, <1>8, PutType DEF RegistryInv, RegistryTypeOK
  <2>3. IsMap(byIP', Addr, Node)
    BY <1>3, <1>7, PutType DEF RegistryInv, RegistryTypeOK
  <2>4. IsMap(byToken', Token, Node)
    BY <1>3, <1>7, PutType DEF RegistryInv, RegistryTypeOK
  <2>5. next' \in 2..(Size - 1) /\ minted' \in 0..MaxSessions
    BY <1>1, <1>2, SessionsAssumption DEF t
  <2>6. QED
    BY <2>1, <2>2, <2>3, <2>4, <2>5 DEF RegistryTypeOK
<1>11. IndexesAgree'
  <2>1. /\ DOMAIN byNode' = DOMAIN peers \cup {n}
        /\ DOMAIN peers' = DOMAIN peers \cup {n}
        /\ DOMAIN used' = DOMAIN used \cup {ip}
        /\ DOMAIN byToken' = DOMAIN byToken \cup {t}
        /\ byIP' = used'
    BY <1>4, <1>7 DEF RegistryInv, IndexesAgree, Put
  <2>2. /\ byNode'[n] = ip /\ used'[ip] = n /\ byToken'[t] = n /\ peers'[n] = p
    BY <1>4, <1>7 DEF Put
  <2>3. \A m \in DOMAIN peers :
            byNode'[m] = byNode[m] /\ peers'[m] = peers[m]
    BY <1>2, <1>4, <1>7 DEF RegistryInv, IndexesAgree, Put
  <2>4. \A a \in DOMAIN used : used'[a] = used[a] /\ a # ip
    BY <1>1, <1>4 DEF ip, Put
  <2>5. \A s \in DOMAIN byToken : byToken'[s] = byToken[s] /\ s # t
    BY <1>7, <1>9 DEF Put
  <2>6. QED
    BY <1>2, <1>8, <2>1, <2>2, <2>3, <2>4, <2>5 DEF RegistryInv, IndexesAgree
<1>12. CursorAboveLeases'
  <2>1. SUFFICES ASSUME NEW q \in next'..(Size - 1)
                 PROVE  Address(q) \notin DOMAIN used'
    BY DEF CursorAboveLeases
  <2>2. q \in next..(Size - 1) /\ q \in 0..(Size - 1) /\ o \in 0..(Size - 1) /\ q # o
    BY <1>1, <1>2
  <2>3. Address(q) \notin DOMAIN used
    BY <2>2 DEF RegistryInv, CursorAboveLeases
  <2>4. Address(q) # ip
    BY <2>2, AddressInjective DEF ip
  <2>5. QED
    BY <1>4, <2>3, <2>4 DEF Put
<1>13. LeasesBounded'
  BY <1>3, <1>4, <1>9 DEF RegistryInv, LeasesBounded, Put
<1>14. QED
  BY <1>10, <1>11, <1>12, <1>13 DEF RegistryInv

\* A failed registration moves the cursor and nothing else.
LEMMA TokenFailsInv ==
    ASSUME RegistryInv, NEW n \in Node, RegisterTokenFails(n)
    PROVE  RegistryInv'
<1>1. /\ byNode' = byNode /\ used' = used /\ peers' = peers
      /\ byIP' = byIP /\ byToken' = byToken /\ minted' = minted
  BY DEF RegisterTokenFails, indexVars
<1>2. next \in 2..(Size - 1) /\ Size \in Int
  BY PrefixAssumption DEF RegistryInv, RegistryTypeOK
<1>3. next' \in next..(Size - 1)
  <2>1. CASE \E o \in Fresh : next' = o + 1
    BY <1>2, <2>1, LastOffset DEF Fresh, Free
  <2>2. CASE next' = next
    BY <1>2, <2>2
  <2>3. QED
    BY <2>1, <2>2 DEF RegisterTokenFails
<1>4. RegistryTypeOK'
  BY <1>1, <1>2, <1>3 DEF RegistryInv, RegistryTypeOK
<1>5. IndexesAgree' /\ LeasesBounded'
  BY <1>1 DEF RegistryInv, IndexesAgree, LeasesBounded
<1>6. CursorAboveLeases'
  BY <1>1, <1>2, <1>3 DEF RegistryInv, CursorAboveLeases
<1>7. QED
  BY <1>4, <1>5, <1>6 DEF RegistryInv

\* A sweep: the expired leases leave the five maps together, whatever the cutoff
\* (the one of an early sweep lies before every timestamp).
LEMMA ExpireInv ==
    ASSUME RegistryInv, NEW cutoff, ExpireBefore(cutoff)
    PROVE  RegistryInv'
<1> DEFINE E == Expired(cutoff)
           I == {peers[n].VirtualIP : n \in E}
           T == {peers[n].SessionToken : n \in E}
<1>1. E \subseteq DOMAIN peers /\ DOMAIN byNode = DOMAIN peers
  BY DEF Expired, RegistryInv, IndexesAgree
<1>2. {byNode[n] : n \in E \cap DOMAIN byNode} = I
  BY <1>1 DEF RegistryInv, IndexesAgree
<1>3. /\ peers' = Drop(peers, E) /\ byNode' = Drop(byNode, E)
      /\ used' = Drop(used, I) /\ byIP' = Drop(byIP, I)
      /\ byToken' = Drop(byToken, T)
      /\ next' = next /\ minted' = minted
  BY <1>2 DEF ExpireBefore, ReleaseAll
<1> HIDE DEF E
<1>4. RegistryTypeOK'
  BY <1>3, DropType DEF RegistryInv, RegistryTypeOK
<1>5. IndexesAgree'
  <2>1. /\ DOMAIN peers' = DOMAIN peers \ E
        /\ DOMAIN byNode' = DOMAIN peers \ E
        /\ DOMAIN used' = DOMAIN used \ I
        /\ DOMAIN byToken' = DOMAIN byToken \ T
        /\ byIP' = used'
    BY <1>1, <1>3 DEF RegistryInv, IndexesAgree, Drop, Restrict
  <2>2. /\ \A n \in DOMAIN peers' : peers'[n] = peers[n] /\ byNode'[n] = byNode[n]
        /\ \A a \in DOMAIN used' : used'[a] = used[a]
        /\ \A s \in DOMAIN byToken' : byToken'[s] = byToken[s]
    BY <1>1, <1>3 DEF Drop, Restrict
  <2>3. \A n \in DOMAIN peers' : peers[n].VirtualIP \notin I /\ peers[n].SessionToken \notin T
    BY <1>1, <2>1 DEF RegistryInv, IndexesAgree
  <2>4. \A a \in DOMAIN used' : used[a] \notin E
    BY <1>1, <2>1 DEF RegistryInv, IndexesAgree
  <2>5. \A s \in DOMAIN byToken' : byToken[s] \notin E
    BY <1>1, <2>1 DEF RegistryInv, IndexesAgree
  <2> HIDE DEF I, T
  <2>6. QED
    BY <2>1, <2>2, <2>3, <2>4, <2>5 DEF RegistryInv, IndexesAgree
<1>6. CursorAboveLeases' /\ LeasesBounded'
  BY <1>3 DEF RegistryInv, CursorAboveLeases, LeasesBounded, Drop, Restrict
<1>7. QED
  BY <1>4, <1>5, <1>6 DEF RegistryInv

\* Every operation of the registry preserves the invariant.
LEMMA NextInv == RegistryInv /\ [RegistryNext]_registryVars => RegistryInv'
<1> SUFFICES ASSUME RegistryInv, [RegistryNext]_registryVars
             PROVE  RegistryInv'
  OBVIOUS
<1>1. ASSUME NEW n \in Node, NEW seenAt \in Time, RegisterAgain(n, seenAt)
      PROVE  RegistryInv'
  BY <1>1, RenewInv DEF RegisterAgain
<1>2. ASSUME NEW n \in Node, NEW seenAt \in Time, RegisterNew(n, seenAt)
      PROVE  RegistryInv'
  BY <1>2, RegisterNewInv
<1>3. ASSUME NEW n \in Node, RegisterTokenFails(n)
      PROVE  RegistryInv'
  BY <1>3, TokenFailsInv
<1>4. ASSUME NEW t \in Token, NEW seenAt \in Time, TouchByToken(t, seenAt)
      PROVE  RegistryInv'
  BY <1>4, RenewInv DEF TouchByToken, Known
<1>5. ASSUME NEW cutoff \in Time, ExpireBefore(cutoff)
      PROVE  RegistryInv'
  BY <1>5, ExpireInv
<1>6. CASE UNCHANGED registryVars
  BY <1>6 DEF registryVars, allocVars, indexVars, RegistryInv, RegistryTypeOK,
              IndexesAgree, CursorAboveLeases, LeasesBounded
<1>7. QED
  BY <1>1, <1>2, <1>3, <1>4, <1>5, <1>6 DEF RegistryNext

------------------------------------------------------------------------------
(* Steps of the registry that end no lease *)

\* No lease is lost, and no session that was handed out before changes hands.
LeasesKept ==
    /\ minted' \in Nat /\ minted <= minted'
    /\ DOMAIN peers \subseteq DOMAIN peers'
    /\ DOMAIN byToken \subseteq DOMAIN byToken'
    /\ \A t \in 1..minted :
        t \in DOMAIN byToken' => t \in DOMAIN byToken /\ byToken'[t] = byToken[t]

\* Nothing happens to the registry.
LEMMA RegistryRests ==
    ASSUME RegistryInv, UNCHANGED registryVars
    PROVE  RegistryInv' /\ LeasesKept
<1>1. RegistryInv'
    BY NextInv
<1>2. UNCHANGED <<peers, byToken, minted>> /\ minted \in Nat
    BY SessionsAssumption DEF registryVars, indexVars, RegistryInv, RegistryTypeOK
<1> QED BY <1>1, <1>2 DEF LeasesKept

\* A renewal, by a registration or by a heartbeat.
LEMMA RenewKeeps ==
    ASSUME RegistryInv, NEW n \in DOMAIN peers, NEW seenAt \in Time,
           peers' = Put(peers, n, [peers[n] EXCEPT !.LastSeen = seenAt]),
           UNCHANGED <<allocVars, indexVars>>
    PROVE  RegistryInv' /\ LeasesKept
<1>1. RegistryInv'
    BY RenewInv
<1>2. UNCHANGED <<byToken, minted>> /\ minted \in Nat /\ DOMAIN peers' = DOMAIN peers
    BY SessionsAssumption DEF indexVars, RegistryInv, RegistryTypeOK, Put
<1> QED BY <1>1, <1>2 DEF LeasesKept

\* A new lease has a session of its own.
LEMMA RegisterKeeps ==
    ASSUME RegistryInv, NEW n \in Node, NEW seenAt \in Time, RegisterNew(n, seenAt)
    PROVE  RegistryInv' /\ LeasesKept
<1>1. RegistryInv'
    BY RegisterNewInv
<1>2. /\ minted \in Nat /\ minted' = minted + 1
      /\ DOMAIN peers' = DOMAIN peers \cup {n}
      /\ byToken' = Put(byToken, minted + 1, n)
    BY SessionsAssumption DEF RegisterNew, Insert, Put, RegistryInv, RegistryTypeOK
<1> QED BY <1>1, <1>2 DEF LeasesKept, Put

\* A registration that fails.
LEMMA TokenFailsKeeps ==
    ASSUME RegistryInv, NEW n \in Node, RegisterTokenFails(n)
    PROVE  RegistryInv' /\ LeasesKept
<1>1. RegistryInv'
    BY TokenFailsInv
<1>2. UNCHANGED <<peers, byToken, minted>> /\ minted \in Nat
    BY SessionsAssumption DEF RegisterTokenFails, indexVars, RegistryInv, RegistryTypeOK
<1> QED BY <1>1, <1>2 DEF LeasesKept

------------------------------------------------------------------------------
(* Invariants *)

\* The registry's maps always have their types.
THEOREM TypeCorrect == RegistrySpec => []RegistryTypeOK
<1>1. RegistryInv => RegistryTypeOK
  BY DEF RegistryInv
<1>2. QED
  BY InitInv, NextInv, <1>1, PTL DEF RegistrySpec

\* Registrations, failed registrations, heartbeats and sweeps, in any order,
\* keep the five maps of registry and allocator describing the same leases.
THEOREM IndexesAlwaysAgree == RegistrySpec => []IndexesAgree
<1>1. RegistryInv => IndexesAgree
  BY DEF RegistryInv
<1>2. QED
  BY InitInv, NextInv, <1>1, PTL DEF RegistrySpec

\* The cursor of Allocate never falls behind an address that is in use, so the
\* first scan hands out untouched addresses until there are none left.
THEOREM CursorStaysAbove == RegistrySpec => []CursorAboveLeases
<1>1. RegistryInv => CursorAboveLeases
  BY DEF RegistryInv
<1>2. QED
  BY InitInv, NextInv, <1>1, PTL DEF RegistrySpec

\* At no time do two nodes share a virtual IP or a session token.
THEOREM LeasesAlwaysDistinct == RegistrySpec => []LeasesDistinct
<1>1. RegistryInv => LeasesDistinct
  BY DEF RegistryInv, IndexesAgree, LeasesDistinct
<1>2. QED
  BY InitInv, NextInv, <1>1, PTL DEF RegistrySpec

\* No peer is ever given the network, gateway or broadcast address, whatever
\* the prefix, /0 included.
THEOREM ReservedSafe == RegistrySpec => []ReservedNeverLeased
<1>1. RegistryInv => ReservedNeverLeased
  <2> SUFFICES ASSUME RegistryInv, NEW n \in DOMAIN peers
               PROVE  peers[n].VirtualIP \notin {Address(0), Address(1), Address(Size - 1)}
    BY DEF ReservedNeverLeased
  <2>1. peers[n].VirtualIP \in Usable
    BY DEF RegistryInv, IndexesAgree, LeasesBounded
  <2>2. PICK o \in 2..(Size - 2) : peers[n].VirtualIP = Address(o)
    BY <2>1 DEF Usable
  <2>3. /\ o \in 0..(Size - 1) /\ 0 \in 0..(Size - 1) /\ 1 \in 0..(Size - 1)
        /\ Size - 1 \in 0..(Size - 1)
        /\ o # 0 /\ o # 1 /\ o # Size - 1
    BY PrefixAssumption
  <2>4. QED
    BY <2>2, <2>3, AddressInjective
<1>2. QED
  BY InitInv, NextInv, <1>1, PTL DEF RegistrySpec

\* The two scans of Allocate are complete: exhaustion is reported only when
\* every usable address has a holder.
THEOREM ExhaustionIsReal == RegistrySpec => []ExhaustedMeansFull
<1>1. RegistryInv => ExhaustedMeansFull
  <2> SUFFICES ASSUME RegistryInv, NEW n \in Node, PoolExhausted(n),
                      NEW o \in 2..(Size - 2)
               PROVE  Address(o) \in DOMAIN byIP
    BY DEF ExhaustedMeansFull, Usable
  <2>1. Size \in Int /\ next \in Int /\ Last = Size - 1
    BY PrefixAssumption, LastOffset DEF RegistryInv, RegistryTypeOK
  <2>2. CASE next <= o
    BY <2>1, <2>2 DEF PoolExhausted, Fresh, Free, RegistryInv, IndexesAgree
  <2>3. CASE o < next
    BY <2>1, <2>3 DEF PoolExhausted, Reusable, Free, RegistryInv, IndexesAgree
  <2>4. QED
    BY <2>1, <2>2, <2>3
<1>2. QED
  BY InitInv, NextInv, <1>1, PTL DEF RegistrySpec

------------------------------------------------------------------------------
(* Action properties and refinement *)

\* Deleting no key changes nothing.
LEMMA DropNone ==
    ASSUME NEW f, NEW K, NEW V, IsMap(f, K, V)
    PROVE  Drop(f, {}) = f
BY DEF Drop, Restrict, IsMap

\* The lease is longer than the coordinator has run: nothing is expired.
LEMMA EarlySweep ==
    ASSUME RegistryInv, NEW cutoff \in Int, cutoff < 0, ExpireBefore(cutoff)
    PROVE  UNCHANGED registryVars
<1>1. \A n \in DOMAIN peers : peers[n].LastSeen \in Nat
    BY TimeAssumption DEF RegistryInv, RegistryTypeOK, IsMap, Peer
<1>2. Expired(cutoff) = {}
    BY <1>1 DEF Expired
<1> QED BY <1>2, DropNone
       DEF ExpireBefore, ReleaseAll, RegistryInv, RegistryTypeOK, registryVars, allocVars, indexVars

\* What each operation of the registry does to the lease table and the token
\* index, without the other indexes.
LEMMA StepFacts ==
    ASSUME RegistryInv, [RegistryNext]_registryVars
    PROVE  \/ peers' = peers /\ byToken' = byToken /\ minted' = minted
           \/ /\ \E n \in DOMAIN peers, seenAt \in Time :
                    peers' = Put(peers, n, [peers[n] EXCEPT !.LastSeen = seenAt])
              /\ byToken' = byToken /\ minted' = minted
           \/ \E n \in Node \ DOMAIN peers, ip \in Usable, seenAt \in Time :
                /\ \A m \in DOMAIN peers : peers[m].VirtualIP # ip
                /\ minted < MaxSessions /\ minted' = minted + 1
                /\ byToken' = Put(byToken, minted + 1, n)
                /\ peers' = Put(peers, n, [NodeID |-> n, VirtualIP |-> ip,
                                SessionToken |-> minted + 1, LastSeen |-> seenAt])
           \/ \E cutoff \in Time :
                /\ peers' = Drop(peers, Expired(cutoff))
                /\ \E T : byToken' = Drop(byToken, T)
                /\ minted' = minted
<1> DEFINE Renewed == \E n \in DOMAIN peers, seenAt \in Time :
                peers' = Put(peers, n, [peers[n] EXCEPT !.LastSeen = seenAt])
<1>1. ASSUME NEW n \in Node, NEW seenAt \in Time, RegisterAgain(n, seenAt)
      PROVE  Renewed /\ byToken' = byToken /\ minted' = minted
  BY <1>1 DEF RegisterAgain, indexVars
<1>2. ASSUME NEW n \in Node, NEW seenAt \in Time, RegisterNew(n, seenAt)
      PROVE  \E ip \in Usable :
                /\ n \notin DOMAIN peers
                /\ \A m \in DOMAIN peers : peers[m].VirtualIP # ip
                /\ minted < MaxSessions /\ minted' = minted + 1
                /\ byToken' = Put(byToken, minted + 1, n)
                /\ peers' = Put(peers, n, [NodeID |-> n, VirtualIP |-> ip,
                                SessionToken |-> minted + 1, LastSeen |-> seenAt])
  <2>1. PICK o \in 2..(Size - 2) : Address(o) \notin DOMAIN used /\ Assign(n, o)
    <3>1. RegistryTypeOK /\ Allocate(n)
      BY <1>2 DEF RegisterNew, RegistryInv
    <3>2. QED
      BY <3>1, AllocateFacts
  <2>2. byNode'[n] = Address(o)
    BY <2>1 DEF Assign, Put
  <2>3. Address(o) \in Usable
    BY DEF Usable
  <2>4. \A m \in DOMAIN peers : peers[m].VirtualIP # Address(o)
    BY <2>1 DEF RegistryInv, IndexesAgree
  <2>5. Insert([NodeID |-> n, VirtualIP |-> Address(o),
                SessionToken |-> minted + 1, LastSeen |-> seenAt])
    BY <1>2, <2>2 DEF RegisterNew
  <2>6. QED
    BY <1>2, <2>3, <2>4, <2>5 DEF RegisterNew, Insert
<1>3. ASSUME NEW n \in Node, RegisterTokenFails(n)
      PROVE  peers' = peers /\ byToken' = byToken /\ minted' = minted
  BY <1>3 DEF RegisterTokenFails, indexVars
<1>4. ASSUME NEW t \in Token, NEW seenAt \in Time, TouchByToken(t, seenAt)
      PROVE  Renewed /\ byToken' = byToken /\ minted' = minted
  BY <1>4 DEF TouchByToken, Known, indexVars
<1>5. ASSUME NEW cutoff \in Time, ExpireBefore(cutoff)
      PROVE  /\ peers' = Drop(peers, Expired(cutoff))
             /\ \E T : byToken' = Drop(byToken, T)
             /\ minted' = minted
  BY <1>5 DEF ExpireBefore
<1>6. CASE UNCHANGED registryVars
  BY <1>6 DEF registryVars, indexVars
<1> HIDE DEF Renewed
<1>7. CASE RegistryNext
  <2>1. CASE \E n \in Node, seenAt \in Time : RegisterAgain(n, seenAt)
    BY <1>1, <2>1 DEF Renewed
  <2>2. CASE \E n \in Node, seenAt \in Time : RegisterNew(n, seenAt)
    BY <1>2, <2>2
  <2>3. CASE \E n \in Node : RegisterTokenFails(n)
    BY <1>3, <2>3
  <2>4. CASE \E t \in Token, seenAt \in Time : TouchByToken(t, seenAt)
    BY <1>4, <2>4 DEF Renewed
  <2>5. CASE \E cutoff \in Time : ExpireBefore(cutoff)
    BY <1>5, <2>5
  <2>6. QED
    BY <1>7, <2>1, <2>2, <2>3, <2>4, <2>5 DEF RegistryNext
<1>8. QED
  BY <1>6, <1>7

\* No operation brings back a token or gives it to another node.
LEMMA TokensStep ==
    ASSUME RegistryInv, [RegistryNext]_registryVars, NEW t \in 1..minted, t \in DOMAIN byToken'
    PROVE  t \in DOMAIN byToken /\ byToken'[t] = byToken[t]
<1>1. minted \in Nat
    BY SessionsAssumption DEF RegistryInv, RegistryTypeOK
<1>2. CASE byToken' = byToken
    BY <1>2
<1>3. CASE \E n : byToken' = Put(byToken, minted + 1, n)
    BY <1>1, <1>3 DEF Put
<1>4. CASE \E T : byToken' = Drop(byToken, T)
    BY <1>4 DEF Drop, Restrict
<1>5. QED
  BY <1>2, <1>3, <1>4, StepFacts

\* A session token that stopped resolving never resolves again: after expiry
\* the relay and the HTTP handlers reject it for ever.
THEOREM DeadTokensStayDead == RegistrySpec => TokensNeverRevive
<1>1. RegistryInv /\ [RegistryNext]_registryVars =>
        [\A t \in 1..minted : t \in DOMAIN byToken' =>
            t \in DOMAIN byToken /\ byToken'[t] = byToken[t]]_registryVars
  BY TokensStep
<1>2. QED
  BY InitInv, NextInv, <1>1, PTL DEF RegistrySpec, TokensNeverRevive

\* No operation changes the address or the token of a lease.
LEMMA LeaseStep ==
    ASSUME RegistryInv, [RegistryNext]_registryVars, NEW n \in DOMAIN peers \cap DOMAIN peers'
    PROVE  /\ peers'[n].VirtualIP = peers[n].VirtualIP
           /\ peers'[n].SessionToken = peers[n].SessionToken
<1>1. CASE peers' = peers
  BY <1>1
<1>2. ASSUME NEW m \in DOMAIN peers, NEW seenAt \in Time,
             peers' = Put(peers, m, [peers[m] EXCEPT !.LastSeen = seenAt])
      PROVE  /\ peers'[n].VirtualIP = peers[n].VirtualIP
             /\ peers'[n].SessionToken = peers[n].SessionToken
  <2>1. peers[m] \in Peer
    BY DEF RegistryInv, RegistryTypeOK, IsMap
  <2>2. peers'[n] = IF n = m THEN [peers[m] EXCEPT !.LastSeen = seenAt] ELSE peers[n]
    BY <1>2 DEF Put
  <2>3. QED
    BY <2>1, <2>2 DEF Peer
<1>3. ASSUME NEW m \in Node \ DOMAIN peers, NEW p, peers' = Put(peers, m, p)
      PROVE  peers'[n] = peers[n]
  BY <1>3 DEF Put
<1>4. ASSUME NEW T, peers' = Drop(peers, T)
      PROVE  peers'[n] = peers[n]
  BY <1>4 DEF Drop, Restrict
<1>5. QED
  BY <1>1, <1>2, <1>3, <1>4, StepFacts

\* A live lease keeps its address and its token until it expires.
THEOREM LeasesAreStable == RegistrySpec => LeaseStable
<1>1. RegistryInv /\ [RegistryNext]_registryVars =>
        [\A n \in DOMAIN peers \cap DOMAIN peers' :
            /\ peers'[n].VirtualIP = peers[n].VirtualIP
            /\ peers'[n].SessionToken = peers[n].SessionToken]_registryVars
  BY LeaseStep
<1>2. QED
  BY InitInv, NextInv, <1>1, PTL DEF RegistrySpec, LeaseStable

\* Every operation is one of the lease table's, or none.
LEMMA TableStep ==
    ASSUME RegistryInv, [RegistryNext]_registryVars
    PROVE  [Table!Next]_(Table!tableVars)
<1>1. CASE peers' = peers /\ minted' = minted
  BY <1>1 DEF Table!tableVars
<1>2. ASSUME NEW n \in DOMAIN peers, NEW seenAt \in Time, minted' = minted,
             peers' = Put(peers, n, [peers[n] EXCEPT !.LastSeen = seenAt])
      PROVE  Table!Next
  <2>1. n \in Node
    BY DEF RegistryInv, RegistryTypeOK, IsMap
  <2>2. QED
    BY <1>2, <2>1 DEF Table!Next, Table!RenewNode, Table!Put, Put
<1>3. ASSUME NEW n \in Node \ DOMAIN peers, NEW ip \in Usable, NEW seenAt \in Time,
             \A m \in DOMAIN peers : peers[m].VirtualIP # ip,
             minted < MaxSessions, minted' = minted + 1,
             peers' = Put(peers, n, [NodeID |-> n, VirtualIP |-> ip,
                          SessionToken |-> minted + 1, LastSeen |-> seenAt])
      PROVE  Table!Next
  BY <1>3 DEF Table!Next, Table!Grant, Table!NewLease, Table!Put, Put
<1>4. ASSUME NEW cutoff \in Time, peers' = Drop(peers, Expired(cutoff)), minted' = minted
      PROVE  Table!Next
  BY <1>4 DEF Table!Next, Table!Sweep, Table!Drop, Table!Restrict, Drop, Restrict, Expired
<1>5. QED
  BY <1>1, <1>2, <1>3, <1>4, StepFacts

\* The registry, with its address cursor and its three indexes, implements the
\* abstract lease table.
THEOREM RegistryRefinement == RegistrySpec => ImplementsLeaseTable
<1>1. RegistryInit => Table!Init
  BY DEF RegistryInit, Table!Init, Table!Empty, Empty
<1>2. RegistryInv /\ [RegistryNext]_registryVars => [Table!Next]_(Table!tableVars)
  BY TableStep
<1>3. QED
  BY InitInv, NextInv, <1>1, <1>2, PTL
  DEF RegistrySpec, ImplementsLeaseTable, Table!Spec
==============================================================================
