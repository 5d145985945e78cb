----------------------------- MODULE LeaseTable ------------------------------
(***************************************************************************)
(* What the peer registry promises, without its indexes or its address     *)
(* cursor: a table of leases.  A node holds at most one lease; a new lease *)
(* gets an address nobody holds and a session token never seen before; a   *)
(* lease is renewed by its node or by its token and removed only when it   *)
(* was last renewed at or before the cutoff of a sweep.                    *)
(***************************************************************************)
EXTENDS GoMap

CONSTANTS Node, Usable, Time, MaxSessions

VARIABLES
    lease,      \* node -> its lease
    spent       \* session tokens handed out so far are 1..spent

tableVars == <<lease, spent>>

NewLease(n, ip, seenAt) ==
    [NodeID |-> n, VirtualIP |-> ip, SessionToken |-> spent + 1, LastSeen |-> seenAt]

Init ==
    /\ lease = Empty
    /\ spent = 0

Grant(n, ip, seenAt) ==
    /\ n \notin DOMAIN lease
    /\ spent < MaxSessions
    /\ \A m \in DOMAIN lease : lease[m].VirtualIP # ip
    /\ lease' = Put(lease, n, NewLease(n, ip, seenAt))
    /\ spent' = spent + 1

RenewNode(n, seenAt) ==
    /\ n \in DOMAIN lease
    /\ lease' = Put(lease, n, [lease[n] EXCEPT !.LastSeen = seenAt])
    /\ UNCHANGED spent

\* The token names the lease: no index is involved.
RenewToken(t, seenAt) ==
    \E n \in DOMAIN lease :
        /\ lease[n].SessionToken = t
        /\ RenewNode(n, seenAt)

Sweep(cutoff) ==
    /\ lease' = Drop(lease, {n \in DOMAIN lease : lease[n].LastSeen <= cutoff})
    /\ UNCHANGED spent

Next ==
    \/ \E n \in Node, seenAt \in Time :
        RenewNode(n, seenAt) \/ \E ip \in Usable : Grant(n, ip, seenAt)
    \/ \E t \in 1..spent, seenAt \in Time : RenewToken(t, seenAt)
    \/ \E cutoff \in Time : Sweep(cutoff)

Spec == Init /\ [][Next]_tableVars
==============================================================================
