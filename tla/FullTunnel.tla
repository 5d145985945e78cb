------------------------------ MODULE FullTunnel -----------------------------
(***************************************************************************)
(* The routes of the generated Xray profile (internal/xray/tun_profile.go) *)
(* and the prefixes that the client keeps out of them                      *)
(* (resolveProtectedPrefixes in cmd/client/main.go).  Addresses have Width *)
(* bits instead of 32.  The loops are behaviours: one step per prefix of   *)
(* the list that is made unique, one per call of subtractPrefix, one per   *)
(* protected prefix that is cut out, then the sort.                        *)
(***************************************************************************)
EXTENDS Integers, Sequences, Functions

CONSTANTS
    Width,          \* bits of an address
    MaxResolved,    \* bound on the addresses a host name resolves to
    NotIPv4         \* an address for which netip's Is4 is false

ASSUME TunnelAssumption == Width \in Nat \ {0} /\ MaxResolved \in Nat

\* An IPv4 address: its bits, the most significant one first.
Address == [1..Width -> {0, 1}]

ASSUME NotIPv4Assumption == NotIPv4 \notin Address

\* The order of addresses as big-endian numbers.
Less(a, b) == \E i \in 1..Width : a[i] < b[i] /\ \A j \in 1..(i - 1) : a[j] = b[j]

\* netip.Prefix: an address and a length, not necessarily masked.
Prefix == [addr : Address, bits : 0..Width]

Agree(a, b, n) == \A i \in 1..n : a[i] = b[i]

Masked(p) ==
    [addr |-> [i \in 1..Width |-> IF i <= p.bits THEN p.addr[i] ELSE 0], bits |-> p.bits]

Contains4(p, a) == Agree(p.addr, a, p.bits)

\* netip compares the two addresses up to the shorter length.
Overlaps(p, q) == Agree(p.addr, q.addr, IF p.bits < q.bits THEN p.bits ELSE q.bits)

\* 0.0.0.0/0
Everything == [addr |-> [i \in 1..Width |-> 0], bits |-> 0]

Is4(p) == p.addr # NotIPv4

VARIABLES
    setup,      \* mesh prefix, addresses of coordinator and relay, gateway
    pc,
    taken,      \* prefixes of the result list that were looked at
    protected,  \* the protected prefixes
    cut,        \* protected prefixes that were cut out
    routes,
    work,       \* calls of subtractPrefix that are due for the next cut
    next        \* routes that are left by it

vars == <<setup, pc, taken, protected, cut, routes, work, next>>

\* resolveHostIPv4: the literal, or what the name resolves to.
HostPrefixes(s) == [i \in DOMAIN s |-> [addr |-> s[i], bits |-> Width]]

\* Mutant of Resolved: the relay is taken to be on the coordinator.
ResolvedOneHost(s) == <<Masked(s.mesh)>> \o HostPrefixes(s.coordinator)

Resolved(s) ==
    <<Masked(s.mesh)>> \o HostPrefixes(s.coordinator) \o HostPrefixes(s.relay)

Hosts == UNION {[1..n -> Address \cup {NotIPv4}] : n \in 0..MaxResolved}

Init ==
    /\ setup \in [mesh : {Masked(p) : p \in Prefix}, gateway : Prefix,
                  coordinator : Hosts, relay : Hosts]
    /\ pc = "collect"
    /\ taken = 0 /\ protected = <<>>
    /\ cut = 0 /\ routes = <<Everything>>
    /\ work = routes /\ next = <<>>

\* resolveProtectedPrefixes keeps each prefix once.  An address that is not IPv4
\* has been skipped by resolveHostIPv4, without an error.
Collect ==
    /\ pc = "collect" /\ taken < Len(Resolved(setup))
    /\ taken' = taken + 1
    /\ LET found == Resolved(setup)[taken'] IN
       protected' = IF ~Is4(found) \/ Masked(found) \in Range(protected) THEN protected
                    ELSE Append(protected, Masked(found))
    /\ UNCHANGED <<setup, pc, cut, routes, work, next>>

\* BuildFullTunnelConfig adds the gateway's own network.
BuildFullTunnelConfig ==
    /\ pc = "collect" /\ taken = Len(Resolved(setup))
    /\ protected' = Append(protected, Masked(setup.gateway))
    /\ pc' = "exclude"
    /\ UNCHANGED <<setup, taken, cut, routes, work, next>>

\* The two halves of a prefix.
FirstHalf(p) == Masked([addr |-> p.addr, bits |-> p.bits + 1])

SecondHalf(p) == Masked([addr |-> [p.addr EXCEPT ![p.bits + 1] = 1], bits |-> p.bits + 1])

\* Mutant of Removed: a prefix goes as soon as the cut contains its first address.
RemovedByFirst(base, c) == Contains4(c, base.addr)

\* The whole of base is cut away.
Removed(base, c) == c.bits <= base.bits /\ Contains4(c, base.addr)

Divisible(base, c) == ~Removed(base, c) /\ base.bits < Width

\* One call of subtractPrefix: base stays, goes, or its halves are called for.
subtractPrefix(base, c) ==
    \/ /\ ~Overlaps(base, c)
       /\ next' = Append(next, base)
       /\ work' = Tail(work)
    \/ /\ Overlaps(base, c) /\ ~Divisible(base, c)
       /\ next' = next
       /\ work' = Tail(work)
    \/ /\ Overlaps(base, c) /\ Divisible(base, c)
       /\ next' = next
       /\ work' = <<FirstHalf(base), SecondHalf(base)>> \o Tail(work)

Subtract ==
    /\ pc = "exclude" /\ cut < Len(protected) /\ work # <<>>
    /\ subtractPrefix(Head(work), Masked(protected[cut + 1]))
    /\ UNCHANGED <<setup, pc, taken, protected, cut, routes>>

\* One protected prefix is cut out of all routes.
Exclude ==
    /\ pc = "exclude" /\ cut < Len(protected) /\ work = <<>>
    /\ cut' = cut + 1
    /\ routes' = next
    /\ work' = next /\ next' = <<>>
    /\ UNCHANGED <<setup, pc, taken, protected>>

\* Mutant of Before: the longest prefixes come first.
BeforeByLength(p, q) == p.bits > q.bits \/ (p.bits = q.bits /\ Less(p.addr, q.addr))

\* The order by address and length.
Before(p, q) == Less(p.addr, q.addr) \/ (p.addr = q.addr /\ p.bits < q.bits)

\* sort.Slice, which does not keep the order of equal elements.
Sort ==
    /\ pc = "exclude" /\ cut = Len(protected)
    /\ \E order \in Bijection(DOMAIN routes, DOMAIN routes) :
        /\ \A i, j \in DOMAIN routes : i < j => ~Before(routes[order[j]], routes[order[i]])
        /\ routes' = [i \in DOMAIN routes |-> routes[order[i]]]
    /\ pc' = "done"
    /\ UNCHANGED <<setup, taken, protected, cut, work, next>>

Returned == pc = "done" /\ UNCHANGED vars

Next == Collect \/ BuildFullTunnelConfig \/ Subtract \/ Exclude \/ Sort \/ Returned

Spec == Init /\ [][Next]_vars

\* PrefixClassifier.Classify, without the two discovery addresses.
ClassPeer(s, destination) == Contains4(s.mesh, destination)

------------------------------------------------------------------------------
(* Properties *)

Routed(a) == \E i \in DOMAIN routes : Contains4(routes[i], a)

\* After every protected prefix the routes cover exactly the addresses outside
\* all prefixes seen so far, whichever of them are nested, equal, adjacent or the
\* whole address space: no other address is lost, none comes back.
CoverIsExact ==
    \A a \in Address : Routed(a) <=> \A i \in 1..cut : ~Contains4(protected[i], a)

\* The halves of one prefix.
Siblings(p, q) ==
    /\ p.bits = q.bits /\ p.bits > 0
    /\ Agree(p.addr, q.addr, p.bits - 1)

\* The cover is the smallest one, in order: routes are masked and do not overlap,
\* no two of them are the halves of one prefix, and the result is sorted.
CoverIsCanonical ==
    /\ \A i \in DOMAIN routes : routes[i] \in Prefix /\ routes[i] = Masked(routes[i])
    /\ \A i, j \in DOMAIN routes :
        i # j => ~Overlaps(routes[i], routes[j]) /\ ~Siblings(routes[i], routes[j])
    /\ pc = "done" => \A i, j \in DOMAIN routes : i < j => Less(routes[i].addr, routes[j].addr)

\* Nothing that keeps mesh and tunnel alive is routed into the tunnel: not what
\* the client classifies as peer traffic, no IPv4 address that coordinator or relay
\* resolve to, not the gateway's network ("heartbeat traffic follows the direct control path and
\* cannot recursively enter the Xray tunnel", docs/peer-leases.md).
NoRecursiveRouting ==
    pc = "done" => \A a \in Address : Routed(a) =>
        /\ ~ClassPeer(setup, a)
        /\ a \notin Range(setup.coordinator) \cup Range(setup.relay)
        /\ ~Contains4(setup.gateway, a)
==============================================================================
