------------------------------ MODULE Discovery ------------------------------
(***************************************************************************)
(* The per-peer guard of the relay's discovery fan-out (guardDiscovery in  *)
(* internal/transport/relay.go): exact-duplicate suppression in a time     *)
(* window, then a token bucket.  The code keeps the bucket in a float; here *)
(* one packet costs Unit bucket units and one unit of time refills Rate of *)
(* them, so that a refill of a fraction of a packet exists without reals.  *)
(* The rounding of floats is not modelled.                                 *)
(***************************************************************************)
EXTENDS GoMap, FiniteSets

CONSTANTS
    Fingerprint,    \* SHA-256 digests of payloads
    Unit,           \* bucket units one packet costs
    Rate,           \* bucket units refilled per unit of time
    Burst,          \* packets a full bucket holds
    Window          \* the duplicate window; 0 disables it

\* main refuses a rate or a burst that is not positive, and a negative window.
ASSUME DiscoveryAssumption ==
    /\ Unit \in Nat \ {0} /\ Rate \in Nat \ {0} /\ Burst \in Nat \ {0}
    /\ Window \in Nat

Full == Burst * Unit

NewLimiter(now) == [tokens |-> Full, lastRefill |-> now, seen |-> Empty]

\* Mutants of PruneSeen: entries leave the window one unit early, or never.
PruneSeenEarly(l, now) ==
    [l EXCEPT !.seen = Drop(@, {f \in DOMAIN @ : now - @[f] >= Window - 1})]
PruneSeenNever(l, now) == l

\* The entries still inside the window; nothing is pruned when it is 0.
PruneSeen(l, now) ==
    IF Window > 0
    THEN [l EXCEPT !.seen = Drop(@, {f \in DOMAIN @ : now - @[f] >= Window})]
    ELSE l

\* A repetition: it returns before the bucket is touched.
Duplicate(l, f, now) == Window > 0 /\ f \in DOMAIN PruneSeen(l, now).seen

\* Mutants of Refill: no cap on the bucket, and the refill time is not kept.
RefillUncapped(l, now) ==
    [l EXCEPT !.tokens = @ + (now - l.lastRefill) * Rate, !.lastRefill = now]
RefillForgetsTime(l, now) ==
    LET filled == l.tokens + (now - l.lastRefill) * Rate IN
    [l EXCEPT !.tokens = IF filled > Full THEN Full ELSE filled]

Refill(l, now) ==
    LET filled == l.tokens + (now - l.lastRefill) * Rate IN
    IF now > l.lastRefill
    THEN [l EXCEPT !.tokens = IF filled > Full THEN Full ELSE filled,
                   !.lastRefill = now]
    ELSE l

Replenish(l, now) == Refill(PruneSeen(l, now), now)

RateLimited(l, now) == Replenish(l, now).tokens < Unit

Spend(l, f, now) ==
    LET r == Replenish(l, now) IN
    [r EXCEPT !.tokens = @ - Unit,
              !.seen = IF Window > 0 THEN Put(@, f, now) ELSE @]

\* One call of guardDiscovery: "duplicate", "limited" or "pass", and the state
\* it leaves.
Verdict(l, f, now) ==
    IF Duplicate(l, f, now) THEN "duplicate"
    ELSE IF RateLimited(l, now) THEN "limited" ELSE "pass"

After(l, f, now) ==
    CASE Verdict(l, f, now) = "duplicate" -> PruneSeen(l, now)
      [] Verdict(l, f, now) = "limited"   -> Replenish(l, now)
      [] Verdict(l, f, now) = "pass"      -> Spend(l, f, now)
==============================================================================
