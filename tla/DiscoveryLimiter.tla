-------------------------- MODULE DiscoveryLimiter ---------------------------
(***************************************************************************)
(* One peer's discovery packets against its limiter, from the first one on.*)
(* The relay serves datagrams one at a time, so calls of guardDiscovery do *)
(* not overlap and read a clock that never goes back.                      *)
(***************************************************************************)
EXTENDS Discovery, Sequences

CONSTANTS MaxTime, MaxPassed    \* bounds on the clock and on the history

ASSUME LimiterBounds == MaxTime \in Nat /\ MaxPassed \in Nat \ {0}

VARIABLES
    clock,
    limiter,    \* the peer's discoveryPeerState
    passed      \* history: the last MaxPassed packets fanned out, with their times

limiterVars == <<clock, limiter, passed>>

LimiterInit ==
    /\ clock = 0
    /\ limiter = NewLimiter(0)
    /\ passed = <<>>

Packet(f) ==
    /\ limiter' = After(limiter, f, clock)
    /\ passed' = IF Verdict(limiter, f, clock) = "pass"
                 THEN Append(IF Len(passed) < MaxPassed THEN passed ELSE Tail(passed),
                             [print |-> f, at |-> clock])
                 ELSE passed
    /\ UNCHANGED clock

Tick ==
    /\ clock < MaxTime
    /\ clock' = clock + 1
    /\ UNCHANGED <<limiter, passed>>

LimiterNext == Tick \/ \E f \in Fingerprint : Packet(f)

LimiterSpec == LimiterInit /\ [][LimiterNext]_limiterVars

------------------------------------------------------------------------------
\* The state of the limiter has its type, and the bucket never overflows or
\* goes below zero.
LimiterTypeOK ==
    /\ clock \in 0..MaxTime
    /\ limiter.tokens \in 0..Full
    /\ limiter.lastRefill \in 0..clock
    /\ IsMap(limiter.seen, Fingerprint, 0..clock)
    /\ passed \in Seq([print : Fingerprint, at : 0..MaxTime])

\* In any stretch of time a peer gets at most a burst plus the sustained rate
\* fanned out, however its packets, duplicates and pauses are spaced.
RateBound ==
    \A i, j \in 1..Len(passed) :
        i <= j => (j - i + 1) * Unit <= Full + (passed[j].at - passed[i].at) * Rate

\* Two identical packets are never fanned out within one duplicate window.
DuplicatesSuppressed ==
    \A i, j \in 1..Len(passed) :
        i < j /\ passed[i].print = passed[j].print
            => passed[j].at - passed[i].at >= Window

\* The duplicate map cannot grow without bound: it holds at most as many
\* fingerprints as the bucket lets through in one window.
SeenBounded ==
    Cardinality(DOMAIN limiter.seen) * Unit <= Full + Window * Rate
==============================================================================
