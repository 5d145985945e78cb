---------------------------- MODULE LimiterProofs ----------------------------
(***************************************************************************)
(* Proofs about the discovery guard, for every burst, rate and window.     *)
(*                                                                         *)
(* Both bounds rest on one idea: what a peer got fanned out since any      *)
(* earlier moment, plus what its bucket still holds, is at most a full     *)
(* bucket plus the refill of the time between.                             *)
(***************************************************************************)
EXTENDS DiscoveryLimiter, FiniteSetTheorems, SequenceTheorems, TLAPS

------------------------------------------------------------------------------
(* The limiter's record and the operators of guardDiscovery *)

\* A discoveryPeerState as guardDiscovery leaves it at time now.
IsLimiter(l, now) ==
    /\ l = [tokens |-> l.tokens, lastRefill |-> l.lastRefill, seen |-> l.seen]
    /\ l.tokens \in 0..Full
    /\ l.lastRefill \in 0..now
    /\ IsMap(l.seen, Fingerprint, 0..now)
    /\ IsFiniteSet(DOMAIN l.seen)

\* A full bucket holds at least one packet.
LEMMA FullBucket == Full \in Nat /\ Unit <= Full
<1>1. Unit \in Nat /\ Burst \in Nat /\ Burst >= 1
    BY DiscoveryAssumption
<1>2. Burst * Unit \in Nat /\ Burst * Unit >= Unit
    BY <1>1, Z3
<1> QED BY <1>1, <1>2 DEF Full

\* Products of integers, one fact at a time for the provers: they are integers,
LEMMA ProductType == \A a, b \in Int : a * b \in Int
BY Z3

\* the refills of two stretches of time add up,
LEMMA Distribute == \A a, b, c, r \in Int : (a - c) * r = (a - b) * r + (b - c) * r
BY Z3

\* so do their bounds,
LEMMA Carry ==
    ASSUME NEW s \in Int, NEW t \in Int, NEW u \in Int, NEW c \in Int, NEW full \in Int,
           NEW b \in Int, NEW n \in Int, s + t <= full + b, u + c <= t + n
    PROVE  s + u + c <= full + (n + b)
OBVIOUS

\* one packet more costs one unit more,
LEMMA OneMore == \A a, u \in Int : (a + 1) * u = a * u + u
BY Z3

\* and more packets cost no less.
LEMMA ProductMonotonic == \A a, b, u \in Nat : a <= b => a * u <= b * u
BY Z3

\* The first packet of a peer finds a full bucket and no fingerprints.
LEMMA NewLimiterType ==
    ASSUME NEW now \in Nat
    PROVE  IsLimiter(NewLimiter(now), now)
BY FullBucket, FS_EmptySet DEF IsLimiter, NewLimiter, IsMap, Empty

\* Pruning drops exactly the fingerprints that have left the window.
LEMMA PruneFacts ==
    ASSUME NEW now \in Nat, NEW l, IsLimiter(l, now)
    PROVE  LET p == PruneSeen(l, now) IN
           /\ IsLimiter(p, now)
           /\ p.tokens = l.tokens /\ p.lastRefill = l.lastRefill
           /\ DOMAIN p.seen \subseteq DOMAIN l.seen
           /\ \A f \in DOMAIN p.seen : p.seen[f] = l.seen[f]
           /\ Window > 0 => \A f \in DOMAIN l.seen :
                f \in DOMAIN p.seen <=> now - l.seen[f] < Window
<1> DEFINE old == {f \in DOMAIN l.seen : now - l.seen[f] >= Window}
           p == PruneSeen(l, now)
<1>1. Window \in Nat
    BY DiscoveryAssumption
<1>2. CASE Window > 0
  <2>1. p = [tokens |-> l.tokens, lastRefill |-> l.lastRefill, seen |-> Drop(l.seen, old)]
    BY <1>2 DEF IsLimiter, PruneSeen
  <2>2. /\ DOMAIN Drop(l.seen, old) = DOMAIN l.seen \ old
        /\ \A f \in DOMAIN l.seen \ old : Drop(l.seen, old)[f] = l.seen[f]
        /\ Drop(l.seen, old) = [f \in DOMAIN l.seen \ old |-> l.seen[f]]
    BY DEF Drop, Restrict
  <2>3. IsFiniteSet(DOMAIN l.seen \ old)
    BY FS_Subset DEF IsLimiter
  <2>4. IsMap(Drop(l.seen, old), Fingerprint, 0..now)
    BY <2>2 DEF IsLimiter, IsMap
  <2>5. \A f \in DOMAIN l.seen : l.seen[f] \in 0..now
    BY DEF IsLimiter, IsMap
  <2>6. \A f \in DOMAIN l.seen : f \notin old <=> now - l.seen[f] < Window
    BY <1>1, <2>5
  <2> HIDE DEF old, p
  <2>7. IsLimiter(p, now)
    BY <2>1, <2>2, <2>3, <2>4 DEF IsLimiter
  <2> QED BY <2>1, <2>2, <2>6, <2>7 DEF p
<1>3. CASE ~(Window > 0)
    BY <1>3 DEF PruneSeen
<1> QED BY <1>2, <1>3

\* A refill is dated and capped, and adds no more than the rate allows.
LEMMA RefillFacts ==
    ASSUME NEW now \in Nat, NEW l, IsLimiter(l, now)
    PROVE  LET r == Refill(l, now) IN
           /\ IsLimiter(r, now)
           /\ r.seen = l.seen /\ r.lastRefill = now
           /\ r.tokens <= l.tokens + (now - l.lastRefill) * Rate
<1> DEFINE filled == l.tokens + (now - l.lastRefill) * Rate
           r == Refill(l, now)
<1>1. Rate \in Nat /\ Full \in Nat
    BY DiscoveryAssumption, FullBucket
<1>2. now - l.lastRefill \in Nat /\ l.tokens \in 0..Full
    BY DEF IsLimiter
<1>3. (now - l.lastRefill) * Rate \in Nat
    BY <1>1, <1>2, Z3
<1>4. CASE now > l.lastRefill
  <2>1. r = [tokens |-> IF filled > Full THEN Full ELSE filled, lastRefill |-> now, seen |-> l.seen]
    BY <1>4 DEF IsLimiter, Refill
  <2>2. (IF filled > Full THEN Full ELSE filled) \in 0..Full
    BY <1>1, <1>2, <1>3
  <2>3. (IF filled > Full THEN Full ELSE filled) <= filled
    BY <1>1, <1>2, <1>3
  <2> HIDE DEF filled
  <2> QED BY <2>1, <2>2, <2>3 DEF IsLimiter, filled
<1>5. CASE ~(now > l.lastRefill)
  <2>1. r = l /\ l.lastRefill = now
    BY <1>5 DEF IsLimiter, Refill
  <2> QED BY <1>2, <1>3, <2>1
<1> QED BY <1>4, <1>5

\* What one packet does to the limiter: a packet that passes costs Unit, nothing
\* else takes from the bucket, and no verdict gives more than the refill.
LEMMA GuardFacts ==
    ASSUME NEW now \in Nat, NEW l, IsLimiter(l, now), NEW f \in Fingerprint
    PROVE  LET a == After(l, f, now)
               p == PruneSeen(l, now)
               pass == Verdict(l, f, now) = "pass"
           IN /\ IsLimiter(a, now)
              /\ a.lastRefill \in {l.lastRefill, now}
              /\ pass =>
                    /\ a.lastRefill = now
                    /\ a.tokens + Unit <= l.tokens + (now - l.lastRefill) * Rate
                    /\ a.tokens + Unit <= Full
                    /\ a.seen = IF Window > 0 THEN Put(p.seen, f, now) ELSE p.seen
                    /\ Window > 0 => f \notin DOMAIN p.seen
              /\ ~pass =>
                    /\ a.tokens <= l.tokens + (a.lastRefill - l.lastRefill) * Rate
                    /\ a.seen = p.seen
<1> DEFINE a == After(l, f, now)
           p == PruneSeen(l, now)
           r == Refill(p, now)
           v == Verdict(l, f, now)
<1>1. Rate \in Nat /\ Unit \in Nat /\ Full \in Nat /\ Window \in Nat
    BY DiscoveryAssumption, FullBucket
<1>2. /\ IsLimiter(p, now)
      /\ p.tokens = l.tokens /\ p.lastRefill = l.lastRefill
    BY PruneFacts
<1>3. /\ IsLimiter(r, now)
      /\ r.seen = p.seen /\ r.lastRefill = now
      /\ r.tokens <= l.tokens + (now - l.lastRefill) * Rate
  <2> HIDE DEF p
  <2>1. /\ IsLimiter(r, now)
        /\ r.seen = p.seen /\ r.lastRefill = now
        /\ r.tokens <= p.tokens + (now - p.lastRefill) * Rate
    BY <1>2, RefillFacts
  <2> QED BY <1>2, <2>1
<1>4. CASE Duplicate(l, f, now)
  <2>1. v = "duplicate"
    BY <1>4 DEF Verdict
  <2>2. a = p
    BY <2>1 DEF After
  <2>3. (l.lastRefill - l.lastRefill) * Rate = 0
    BY <1>1 DEF IsLimiter
  <2> HIDE DEF a, p, v
  <2>4. l.tokens \in Nat
    BY <1>1 DEF IsLimiter
  <2> QED BY <1>2, <2>1, <2>2, <2>3, <2>4 DEF a, p, v
<1>5. CASE ~Duplicate(l, f, now) /\ RateLimited(l, now)
  <2>1. v = "limited"
    BY <1>5 DEF Verdict
  <2>2. a = r
    BY <2>1 DEF After, Replenish
  <2> HIDE DEF a, p, v, r
  <2> QED BY <1>2, <1>3, <2>1, <2>2 DEF a, p, v
<1>6. CASE ~Duplicate(l, f, now) /\ ~RateLimited(l, now)
  <2> DEFINE seen == IF Window > 0 THEN Put(p.seen, f, now) ELSE p.seen
  <2>1. v = "pass"
    BY <1>6 DEF Verdict
  <2>2. a = Spend(l, f, now)
    BY <2>1 DEF After
  <2>3. r.tokens >= Unit
    BY <1>1, <1>3, <1>6 DEF RateLimited, Replenish, IsLimiter
  <2>4. Window > 0 => f \notin DOMAIN p.seen
    BY <1>6 DEF Duplicate
  <2>5. a = [tokens |-> r.tokens - Unit, lastRefill |-> now, seen |-> seen]
    <3>1. Spend(l, f, now) = [r EXCEPT !.tokens = @ - Unit,
                                        !.seen = IF Window > 0 THEN Put(@, f, now) ELSE @]
      BY DEF Spend, Replenish
    <3> HIDE DEF r, p
    <3> QED BY <1>3, <2>2, <3>1 DEF IsLimiter
  <2> HIDE DEF a, p, v, r
  <2>6. IsMap(seen, Fingerprint, 0..now) /\ IsFiniteSet(DOMAIN seen)
    <3>1. CASE Window > 0
      <4>1. DOMAIN seen = DOMAIN p.seen \cup {f}
        BY <3>1 DEF Put
      <4>2. IsFiniteSet(DOMAIN seen)
        BY <1>2, <4>1, FS_AddElement DEF IsLimiter
      <4>3. IsMap(seen, Fingerprint, 0..now)
        BY <1>2, <3>1 DEF IsLimiter, IsMap, Put
      <4> QED BY <4>2, <4>3
    <3>2. CASE ~(Window > 0)
      BY <1>2, <3>2 DEF IsLimiter
    <3> QED BY <3>1, <3>2
  <2> HIDE DEF seen
  <2>7. IsLimiter(a, now)
    BY <1>1, <1>3, <2>3, <2>5, <2>6 DEF IsLimiter
  <2>8. r.tokens \in 0..Full
    BY <1>3 DEF IsLimiter
  <2>9. a.tokens + Unit = r.tokens
    BY <1>1, <2>5, <2>8
  <2>10. r.tokens <= Full
    BY <1>1, <2>8
  <2> QED BY <1>3, <2>1, <2>4, <2>5, <2>7, <2>9, <2>10 DEF a, p, v, seen
<1> QED BY <1>4, <1>5, <1>6

\* A state stays one when time passes without a packet.
LEMMA LimiterAges ==
    ASSUME NEW now \in Nat, NEW later \in Nat, now <= later, NEW l, IsLimiter(l, now)
    PROVE  IsLimiter(l, later)
<1>1. 0..now \subseteq 0..later
    OBVIOUS
<1> QED BY <1>1 DEF IsLimiter, IsMap

------------------------------------------------------------------------------
(* The inductive invariant *)

\* Types, the record's shape included; no packet is dated in the future.
Shape ==
    /\ clock \in 0..MaxTime
    /\ IsLimiter(limiter, clock)
    /\ passed \in Seq([print : Fingerprint, at : 0..clock])

\* The packets fanned out since the i-th one, it included, and what the bucket
\* holds, against a full bucket and the refill since then.
Budget ==
    \A i \in 1..Len(passed) :
        (Len(passed) - i + 1) * Unit + limiter.tokens
            <= Full + (limiter.lastRefill - passed[i].at) * Rate

\* A packet fanned out within the window is remembered.
Remembered ==
    \A i \in 1..Len(passed) :
        clock - passed[i].at < Window =>
            /\ passed[i].print \in DOMAIN limiter.seen
            /\ limiter.seen[passed[i].print] >= passed[i].at

\* The fingerprints not older than t.
Since(l, t) == {f \in DOMAIN l.seen : l.seen[f] >= t}

\* Budget for the duplicate map, whose entries may outlive the history.
SeenBudget ==
    \A t \in Int :
        t <= limiter.lastRefill =>
            Cardinality(Since(limiter, t)) * Unit + limiter.tokens
                <= Full + (limiter.lastRefill - t) * Rate

\* No entry is younger than the last refill or a window older.
SeenFresh ==
    \A f \in DOMAIN limiter.seen :
        /\ limiter.seen[f] <= limiter.lastRefill
        /\ limiter.lastRefill - limiter.seen[f] < Window

LimiterInv ==
    Shape /\ Budget /\ RateBound /\ Remembered /\ DuplicatesSuppressed /\ SeenBudget /\ SeenFresh

\* The first packet of a peer.
LEMMA LimiterInvInit == LimiterInit => LimiterInv
<1> SUFFICES ASSUME LimiterInit PROVE LimiterInv
    OBVIOUS
<1>1. clock = 0 /\ limiter = NewLimiter(0) /\ passed = <<>>
    BY DEF LimiterInit
<1>2. Shape
    BY <1>1, NewLimiterType, LimiterBounds DEF Shape
<1>3. Budget /\ RateBound /\ Remembered /\ DuplicatesSuppressed
    BY <1>1 DEF Budget, RateBound, Remembered, DuplicatesSuppressed
<1>4. SeenFresh
    BY <1>1 DEF SeenFresh, NewLimiter, Empty
<1>5. SeenBudget
  <2> SUFFICES ASSUME NEW t \in Int, t <= 0
               PROVE  Cardinality(Since(limiter, t)) * Unit + Full <= Full + (0 - t) * Rate
    BY <1>1 DEF SeenBudget, NewLimiter
  <2>1. Since(limiter, t) = {}
    BY <1>1 DEF Since, NewLimiter, Empty
  <2>2. Cardinality(Since(limiter, t)) = 0
    BY <2>1, FS_EmptySet
  <2>3. Unit \in Nat /\ Rate \in Nat /\ Full \in Nat
    BY DiscoveryAssumption, FullBucket
  <2>4. (0 - t) * Rate \in Nat
    BY <2>3, Z3
  <2> QED BY <2>2, <2>3, <2>4
<1> QED BY <1>2, <1>3, <1>4, <1>5 DEF LimiterInv

\* The history after a packet: the old one, perhaps without its first entry, and
\* the packet if it passed.
LEMMA HistoryFacts ==
    ASSUME Shape, NEW x \in [print : Fingerprint, at : 0..clock],
           NEW h, h = IF Len(passed) < MaxPassed THEN passed ELSE Tail(passed)
    PROVE  /\ Append(h, x) \in Seq([print : Fingerprint, at : 0..clock])
           /\ \E k \in {0, 1} :
                /\ k <= Len(passed)
                /\ Len(Append(h, x)) = Len(passed) - k + 1
                /\ \A i \in 1..(Len(passed) - k) : Append(h, x)[i] = passed[i + k]
                /\ Append(h, x)[Len(passed) - k + 1] = x
<1>1. passed \in Seq([print : Fingerprint, at : 0..clock]) /\ MaxPassed \in Nat \ {0}
    BY LimiterBounds DEF Shape
<1>2. CASE Len(passed) < MaxPassed
    BY <1>1, <1>2
<1>3. CASE ~(Len(passed) < MaxPassed)
  <2>1. passed # <<>> /\ Len(passed) >= 1
    BY <1>1, <1>3
  <2>2. /\ h \in Seq([print : Fingerprint, at : 0..clock])
        /\ Len(h) = Len(passed) - 1
        /\ \A i \in 1..(Len(passed) - 1) : h[i] = passed[i + 1]
    BY <1>1, <1>3, <2>1
  <2>3. /\ Append(h, x) \in Seq([print : Fingerprint, at : 0..clock])
        /\ Len(Append(h, x)) = Len(h) + 1
        /\ \A i \in 1..Len(h) : Append(h, x)[i] = h[i]
        /\ Append(h, x)[Len(h) + 1] = x
    <3> DEFINE S == [print : Fingerprint, at : 0..clock]
    <3>1. h \in Seq(S) /\ x \in S
      BY <2>2
    <3> HIDE DEF S
    <3>2. /\ Append(h, x) \in Seq(S)
          /\ Len(Append(h, x)) = Len(h) + 1
          /\ \A i \in 1..Len(h) : Append(h, x)[i] = h[i]
          /\ Append(h, x)[Len(h) + 1] = x
      BY <3>1, AppendProperties
    <3> QED BY <3>2 DEF S
  <2>4. Len(passed) \in Nat
    BY <1>1
  <2> HIDE <1>1
  <2>5. /\ 1 <= Len(passed)
        /\ Len(Append(h, x)) = Len(passed) - 1 + 1
        /\ \A i \in 1..(Len(passed) - 1) : Append(h, x)[i] = passed[i + 1]
        /\ Append(h, x)[Len(passed) - 1 + 1] = x
    BY <2>1, <2>2, <2>3, <2>4
  <2> QED BY <2>3, <2>5
<1> QED BY <1>2, <1>3

\* Time alone breaks nothing: the limiter looks at the clock only when a packet
\* comes.
LEMMA TickKeepsLimiterInv == LimiterInv /\ Tick => LimiterInv'
<1> SUFFICES ASSUME LimiterInv, Tick PROVE LimiterInv'
    OBVIOUS
<1>1. clock \in 0..MaxTime /\ clock' = clock + 1 /\ clock' \in 0..MaxTime /\ MaxTime \in Nat
    BY LimiterBounds DEF Tick, LimiterInv, Shape
<1>2. limiter' = limiter /\ passed' = passed
    BY DEF Tick
<1>3. Shape'
  <2>1. 0..clock \subseteq 0..clock'
    BY <1>1
  <2>2. IsLimiter(limiter, clock')
    BY <1>1, LimiterAges DEF LimiterInv, Shape
  <2>3. passed \in Seq([print : Fingerprint, at : 0..clock'])
    <3>1. passed \in Seq([print : Fingerprint, at : 0..clock])
      BY DEF LimiterInv, Shape
    <3>2. [print : Fingerprint, at : 0..clock] \subseteq [print : Fingerprint, at : 0..clock']
      BY <2>1
    <3> QED BY <3>1, <3>2, SeqMonotonic
  <2> QED BY <1>1, <1>2, <2>2, <2>3 DEF Shape
<1>4. Budget' /\ RateBound' /\ DuplicatesSuppressed' /\ SeenFresh'
    BY <1>2 DEF LimiterInv, Budget, RateBound, DuplicatesSuppressed, SeenFresh
<1>5. SeenBudget'
    BY <1>2 DEF LimiterInv, SeenBudget, Since
<1>6. Remembered'
  <2> SUFFICES ASSUME NEW i \in 1..Len(passed), clock' - passed[i].at < Window
               PROVE  /\ passed[i].print \in DOMAIN limiter.seen
                      /\ limiter.seen[passed[i].print] >= passed[i].at
    BY <1>2 DEF Remembered
  <2>1. passed[i].at \in 0..clock
    <3>1. passed[i] \in [print : Fingerprint, at : 0..clock]
      BY ElementOfSeq DEF LimiterInv, Shape
    <3> QED BY <3>1
  <2>2. clock - passed[i].at < Window
    BY <1>1, <2>1, DiscoveryAssumption
  <2> QED BY <2>2 DEF LimiterInv, Remembered
<1> QED BY <1>3, <1>4, <1>5, <1>6 DEF LimiterInv

\* A packet, whatever becomes of it.
LEMMA PacketKeepsLimiterInv ==
    ASSUME LimiterInv, NEW f \in Fingerprint, Packet(f)
    PROVE  LimiterInv'
<1> DEFINE p == PruneSeen(limiter, clock)
           pass == Verdict(limiter, f, clock) = "pass"
           S == [print : Fingerprint, at : 0..clock]
<1> USE DEF LimiterInv
<1>1. /\ clock \in Nat /\ clock' = clock
      /\ Rate \in Nat /\ Unit \in Nat /\ Full \in Nat /\ Window \in Nat
    BY DiscoveryAssumption, FullBucket, LimiterBounds DEF Shape, Packet
<1>2. /\ limiter.tokens \in Nat /\ limiter.lastRefill \in Nat /\ limiter.lastRefill <= clock
      /\ \A g \in DOMAIN limiter.seen : limiter.seen[g] \in 0..clock
      /\ IsLimiter(limiter, clock)
    BY <1>1 DEF Shape, IsLimiter, IsMap
<1>3. /\ IsLimiter(p, clock)
      /\ DOMAIN p.seen \subseteq DOMAIN limiter.seen
      /\ \A g \in DOMAIN p.seen : p.seen[g] = limiter.seen[g]
      /\ Window > 0 => \A g \in DOMAIN limiter.seen :
            g \in DOMAIN p.seen <=> clock - limiter.seen[g] < Window
    BY <1>1, <1>2, PruneFacts
<1>4. /\ IsLimiter(limiter', clock)
      /\ limiter'.lastRefill \in {limiter.lastRefill, clock}
      /\ pass =>
            /\ limiter'.lastRefill = clock
            /\ limiter'.tokens + Unit <= limiter.tokens + (clock - limiter.lastRefill) * Rate
            /\ limiter'.tokens + Unit <= Full
            /\ limiter'.seen = IF Window > 0 THEN Put(p.seen, f, clock) ELSE p.seen
            /\ Window > 0 => f \notin DOMAIN p.seen
      /\ ~pass =>
            /\ limiter'.tokens <= limiter.tokens + (limiter'.lastRefill - limiter.lastRefill) * Rate
            /\ limiter'.seen = p.seen
  <2>1. limiter' = After(limiter, f, clock)
    BY DEF Packet
  <2> QED BY <1>1, <1>2, <2>1, GuardFacts
<1>5. /\ limiter'.tokens \in Nat /\ limiter'.lastRefill \in Nat
      /\ limiter.lastRefill <= limiter'.lastRefill /\ limiter'.lastRefill <= clock
    BY <1>1, <1>2, <1>4 DEF IsLimiter
<1>6. passed \in Seq(S) /\ Len(passed) \in Nat
      /\ \A i \in 1..Len(passed) :
            passed[i].at \in 0..clock /\ passed[i].print \in Fingerprint
  <2>1. passed \in Seq(S)
    BY DEF Shape
  <2>2. \A i \in 1..Len(passed) : passed[i] \in S
    BY <2>1, ElementOfSeq
  <2>3. Len(passed) \in Nat
    BY <2>1, LenProperties
  <2> QED BY <2>1, <2>2, <2>3
\* What the bucket had is enough for what it has now and for the packet.
<1>7. limiter'.tokens + (IF pass THEN Unit ELSE 0)
            <= limiter.tokens + (limiter'.lastRefill - limiter.lastRefill) * Rate
    BY <1>1, <1>4, <1>5
\* A fingerprint of the window is not pruned.
<1>8. ASSUME NEW g \in DOMAIN limiter.seen, clock - limiter.seen[g] < Window
      PROVE  g \in DOMAIN p.seen
    BY <1>1, <1>2, <1>3, <1>8
<1> HIDE DEF p, pass, S
\* Budget for the packets that passed before.
<1>9. \A i \in 1..Len(passed) :
        (Len(passed) - i + 1) * Unit + limiter'.tokens + (IF pass THEN Unit ELSE 0)
            <= Full + (limiter'.lastRefill - passed[i].at) * Rate
  <2> TAKE i \in 1..Len(passed)
  <2>1. (Len(passed) - i + 1) * Unit + limiter.tokens
            <= Full + (limiter.lastRefill - passed[i].at) * Rate
    BY DEF Budget
  <2>2. passed[i].at \in Int
    BY <1>6
  <2>3. (limiter'.lastRefill - passed[i].at) * Rate
            = (limiter'.lastRefill - limiter.lastRefill) * Rate
                + (limiter.lastRefill - passed[i].at) * Rate
    BY <1>1, <1>2, <1>5, <2>2, Distribute
  <2>4. /\ (Len(passed) - i + 1) * Unit \in Int
        /\ (limiter.lastRefill - passed[i].at) * Rate \in Int
        /\ (limiter'.lastRefill - limiter.lastRefill) * Rate \in Int
    BY <1>1, <1>2, <1>5, <1>6, <2>2, ProductType
  <2> DEFINE sent == (Len(passed) - i + 1) * Unit
             before == (limiter.lastRefill - passed[i].at) * Rate
             since == (limiter'.lastRefill - limiter.lastRefill) * Rate
             cost == IF pass THEN Unit ELSE 0
  <2>5. cost \in Int
    BY <1>1
  <2>6. /\ sent + limiter.tokens <= Full + before
        /\ limiter'.tokens + cost <= limiter.tokens + since
        /\ sent \in Int /\ before \in Int /\ since \in Int
    BY <1>7, <2>1, <2>4
  <2> HIDE DEF sent, before, since, cost
  <2>7. sent + limiter'.tokens + cost <= Full + (since + before)
    <3>1. limiter.tokens \in Int /\ limiter'.tokens \in Int /\ Full \in Int
      BY <1>1, <1>2, <1>5
    <3> QED BY <2>5, <2>6, <3>1, Carry
  <2> QED BY <2>3, <2>7 DEF sent, before, since, cost
<1>10. \A t \in Int :
        t <= limiter'.lastRefill =>
            Cardinality(Since(limiter', t)) * Unit + limiter'.tokens
                <= Full + (limiter'.lastRefill - t) * Rate
  <2> SUFFICES ASSUME NEW t \in Int, t <= limiter'.lastRefill
               PROVE  Cardinality(Since(limiter', t)) * Unit + limiter'.tokens
                        <= Full + (limiter'.lastRefill - t) * Rate
    OBVIOUS
  <2> DEFINE old == Since(limiter, t)
             cost == IF pass THEN Unit ELSE 0
             count == Cardinality(old) * Unit
             refill == (limiter'.lastRefill - t) * Rate
  <2>1. IsFiniteSet(old) /\ Cardinality(old) \in Nat
    <3>1. old \subseteq DOMAIN limiter.seen /\ IsFiniteSet(DOMAIN limiter.seen)
      BY <1>2 DEF Since, IsLimiter
    <3> QED BY <3>1, FS_Subset, FS_CardinalityType
  <2>2. cost \in Nat /\ count \in Int /\ refill \in Int
    BY <1>1, <1>5, <2>1, ProductType
  <2>3. refill >= 0
    <3>1. limiter'.lastRefill - t \in Nat
      BY <1>5
    <3>2. (limiter'.lastRefill - t) * Rate >= 0 * Rate
      BY <1>1, <3>1, ProductMonotonic
    <3> QED BY <1>1, <3>2
  <2>4. /\ IsFiniteSet(Since(limiter', t)) /\ Cardinality(Since(limiter', t)) \in Nat
        /\ Cardinality(Since(limiter', t)) * Unit <= count + cost
    <3>1. CASE pass
      <4>1. Since(limiter', t) \subseteq old \cup {f}
        BY <1>3, <1>4, <3>1 DEF Since, Put
      <4>2. /\ IsFiniteSet(old \cup {f})
            /\ Cardinality(old \cup {f}) <= Cardinality(old) + 1
        BY <2>1, FS_AddElement
      <4> HIDE DEF old
      <4>3. /\ IsFiniteSet(Since(limiter', t)) /\ Cardinality(Since(limiter', t)) \in Nat
            /\ Cardinality(Since(limiter', t)) <= Cardinality(old \cup {f})
            /\ Cardinality(old \cup {f}) \in Nat
        BY <4>1, <4>2, FS_Subset, FS_CardinalityType
      <4>4. Cardinality(Since(limiter', t)) <= Cardinality(old) + 1
        BY <2>1, <4>2, <4>3
      <4>5. Cardinality(Since(limiter', t)) * Unit <= (Cardinality(old) + 1) * Unit
        BY <1>1, <2>1, <4>3, <4>4, ProductMonotonic
      <4>6. (Cardinality(old) + 1) * Unit = count + Unit
        BY <1>1, <2>1, OneMore
      <4> QED BY <3>1, <4>3, <4>5, <4>6
    <3>2. CASE ~pass
      <4>1. Since(limiter', t) \subseteq old
        BY <1>3, <1>4, <3>2 DEF Since
      <4> HIDE DEF old
      <4>2. /\ IsFiniteSet(Since(limiter', t)) /\ Cardinality(Since(limiter', t)) \in Nat
            /\ Cardinality(Since(limiter', t)) <= Cardinality(old)
        BY <2>1, <4>1, FS_Subset, FS_CardinalityType
      <4>3. Cardinality(Since(limiter', t)) * Unit <= count
        BY <1>1, <2>1, <4>2, ProductMonotonic
      <4> HIDE DEF count
      <4> QED BY <2>2, <3>2, <4>2, <4>3
    <3> QED BY <3>1, <3>2
  <2>5. count + limiter'.tokens + cost <= Full + refill
    <3>1. CASE t <= limiter.lastRefill
      <4> DEFINE before == (limiter.lastRefill - t) * Rate
                 since == (limiter'.lastRefill - limiter.lastRefill) * Rate
      <4>1. count + limiter.tokens <= Full + before
        BY <3>1 DEF SeenBudget
      <4>2. refill = since + before
        BY <1>1, <1>2, <1>5, Distribute
      <4>3. before \in Int /\ since \in Int
        BY <1>1, <1>2, <1>5, ProductType
      <4>4. limiter'.tokens + cost <= limiter.tokens + since
        BY <1>7
      <4> HIDE DEF before, since, count, cost, refill
      <4>5. limiter.tokens \in Int /\ limiter'.tokens \in Int /\ Full \in Int /\ cost \in Int
        BY <1>1, <1>2, <1>5, <2>2
      <4> QED BY <2>2, <4>1, <4>2, <4>3, <4>4, <4>5, Carry
    <3>2. CASE ~(t <= limiter.lastRefill)
      <4>1. old = {}
        BY <1>2, <3>2 DEF Since, SeenFresh
      <4>2. count = 0
        BY <1>1, <4>1, FS_EmptySet
      <4>3. limiter'.tokens + cost <= Full
        BY <1>1, <1>4, <1>5 DEF IsLimiter
      <4> HIDE DEF count, cost, refill
      <4> QED BY <1>1, <1>5, <2>2, <2>3, <4>2, <4>3
    <3> QED BY <3>1, <3>2
  <2> DEFINE newCount == Cardinality(Since(limiter', t)) * Unit
  <2>6. newCount \in Int
    BY <1>1, <2>4, ProductType
  <2>7. newCount <= count + cost
    BY <2>4
  <2> HIDE DEF newCount, count, cost, refill, old
  <2>8. newCount + limiter'.tokens <= Full + refill
    BY <1>1, <1>5, <2>2, <2>5, <2>6, <2>7
  <2> QED BY <2>8 DEF newCount, refill
<1>11. SeenFresh'
  <2> SUFFICES ASSUME NEW g \in DOMAIN limiter'.seen
               PROVE  /\ limiter'.seen[g] <= limiter'.lastRefill
                      /\ limiter'.lastRefill - limiter'.seen[g] < Window
    BY DEF SeenFresh
  <2>1. CASE pass /\ Window > 0 /\ g = f
    BY <1>1, <1>4, <2>1 DEF Put
  <2>2. CASE ~(pass /\ Window > 0 /\ g = f)
    <3>1. g \in DOMAIN p.seen /\ limiter'.seen[g] = p.seen[g]
      BY <1>4, <2>2 DEF Put
    <3>2. /\ g \in DOMAIN limiter.seen /\ limiter'.seen[g] = limiter.seen[g]
          /\ limiter.seen[g] <= limiter.lastRefill
          /\ limiter.lastRefill - limiter.seen[g] < Window
          /\ limiter.seen[g] \in 0..clock
      BY <1>2, <1>3, <3>1 DEF SeenFresh
    <3>3. clock - limiter.seen[g] < Window
      BY <1>1, <1>2, <1>3, <3>1, <3>2
    <3> QED BY <1>1, <1>2, <1>4, <1>5, <3>2, <3>3
  <2> QED BY <2>1, <2>2
<1>12. CASE pass
  <2> DEFINE x == [print |-> f, at |-> clock]
             h == IF Len(passed) < MaxPassed THEN passed ELSE Tail(passed)
  <2>1. passed' = Append(h, x)
    BY <1>12 DEF Packet, pass
  <2>2. x \in [print : Fingerprint, at : 0..clock]
    BY <1>1
  <2>3. /\ passed' \in Seq([print : Fingerprint, at : 0..clock])
        /\ \E k \in {0, 1} :
            /\ k <= Len(passed)
            /\ Len(passed') = Len(passed) - k + 1
            /\ \A i \in 1..(Len(passed) - k) : passed'[i] = passed[i + k]
            /\ passed'[Len(passed) - k + 1] = x
    <3> HIDE DEF x
    <3> QED BY <2>1, <2>2, HistoryFacts
  <2>4. PICK k \in {0, 1} :
            /\ k <= Len(passed)
            /\ Len(passed') = Len(passed) - k + 1
            /\ \A i \in 1..(Len(passed) - k) : passed'[i] = passed[i + k]
            /\ passed'[Len(passed) - k + 1] = x
    BY <2>3
  <2> DEFINE last == Len(passed) - k + 1
  <2>5. /\ last \in Nat /\ Len(passed') = last /\ k \in Int
        /\ passed'[last].print = f /\ passed'[last].at = clock
        /\ \A i \in 1..last : i = last \/
              /\ i + k \in 1..Len(passed) /\ i < last
              /\ passed'[i] = passed[i + k]
    BY <1>6, <2>4
  <2>6. Shape'
    BY <1>1, <1>4, <2>3 DEF Shape
  <2>11. ASSUME NEW i \in 1..last
         PROVE  passed'[i].at \in 0..clock
    <3>1. passed'[i] \in [print : Fingerprint, at : 0..clock]
      BY <2>3, <2>5, ElementOfSeq
    <3> QED BY <3>1
  <2>7. Budget'
    <3> SUFFICES ASSUME NEW i \in 1..last
                 PROVE  (last - i + 1) * Unit + limiter'.tokens
                            <= Full + (limiter'.lastRefill - passed'[i].at) * Rate
      BY <2>5 DEF Budget
    <3>1. CASE i = last
      <4>1. (last - i + 1) * Unit = Unit
        BY <1>1, <2>5, <3>1
      <4>2. (limiter'.lastRefill - passed'[i].at) * Rate = 0
        BY <1>1, <1>4, <1>12, <2>5, <3>1
      <4>3. limiter'.tokens + Unit <= Full
        BY <1>4, <1>12
      <4> QED BY <1>1, <1>5, <4>1, <4>2, <4>3
    <3>2. CASE i # last
      <4> DEFINE j == i + k
      <4>1. /\ j \in 1..Len(passed) /\ passed'[i] = passed[j]
            /\ last - i + 1 = (Len(passed) - j + 1) + 1
            /\ Len(passed) - j + 1 \in Int
        BY <1>6, <2>5, <3>2
      <4> HIDE DEF j, last
      <4>2. (last - i + 1) * Unit = (Len(passed) - j + 1) * Unit + Unit
        BY <1>1, <4>1, OneMore
      <4>3. (Len(passed) - j + 1) * Unit + limiter'.tokens + Unit
                <= Full + (limiter'.lastRefill - passed'[i].at) * Rate
        BY <1>9, <1>12, <4>1
      <4> DEFINE sent == (Len(passed) - j + 1) * Unit
      <4>4. sent \in Int
        BY <1>1, <4>1, ProductType
      <4> HIDE DEF sent
      <4>5. sent + Unit + limiter'.tokens = sent + limiter'.tokens + Unit
        BY <1>1, <1>5, <4>4
      <4> QED BY <4>2, <4>3, <4>5 DEF sent
    <3> QED BY <3>1, <3>2
  <2>8. RateBound'
    <3> SUFFICES ASSUME NEW i \in 1..last, NEW j \in 1..last, i <= j
                 PROVE  (j - i + 1) * Unit <= Full + (passed'[j].at - passed'[i].at) * Rate
      BY <2>5 DEF RateBound
    <3>1. CASE j = last
      <4> DEFINE sent == (last - i + 1) * Unit
                 refill == (clock - passed'[i].at) * Rate
      <4>1. sent + limiter'.tokens <= Full + refill
        BY <1>4, <1>12, <2>5, <2>7 DEF Budget
      <4>2. passed'[i].at \in Int
        BY <2>11
      <4>3. sent \in Int /\ refill \in Int
        BY <1>1, <2>5, <4>2, ProductType
      <4> HIDE DEF sent, refill
      <4>4. sent <= Full + refill
        BY <1>1, <1>5, <4>1, <4>3
      <4> QED BY <2>5, <3>1, <4>4 DEF sent, refill
    <3>2. CASE j # last
      <4>1. /\ i + k \in 1..Len(passed) /\ passed'[i] = passed[i + k]
            /\ j + k \in 1..Len(passed) /\ passed'[j] = passed[j + k]
            /\ i + k <= j + k /\ (j + k) - (i + k) + 1 = j - i + 1
        BY <2>5, <3>2
      <4> QED BY <4>1 DEF RateBound
    <3> QED BY <3>1, <3>2
  <2>9. Remembered'
    <3> SUFFICES ASSUME NEW i \in 1..last, clock - passed'[i].at < Window
                 PROVE  /\ passed'[i].print \in DOMAIN limiter'.seen
                        /\ limiter'.seen[passed'[i].print] >= passed'[i].at
      BY <1>1, <2>5 DEF Remembered
    <3>1. passed'[i].at \in 0..clock
      BY <2>11
    <3>2. Window > 0
      BY <1>1, <3>1
    <3>3. limiter'.seen = Put(p.seen, f, clock)
      BY <1>4, <1>12, <3>2
    <3>4. CASE passed'[i].print = f
      BY <1>1, <3>1, <3>3, <3>4 DEF Put
    <3>5. CASE passed'[i].print # f
      <4> DEFINE g == passed'[i].print
      <4>1. i + k \in 1..Len(passed) /\ passed'[i] = passed[i + k]
        BY <2>5, <3>5
      <4>2. g \in DOMAIN limiter.seen /\ limiter.seen[g] >= passed'[i].at
        BY <4>1 DEF Remembered
      <4>3. clock - limiter.seen[g] < Window
        BY <1>1, <1>2, <3>1, <4>2
      <4>4. g \in DOMAIN p.seen /\ p.seen[g] = limiter.seen[g]
        BY <1>3, <1>8, <4>2, <4>3
      <4>5. g \in DOMAIN limiter'.seen /\ limiter'.seen[g] = p.seen[g]
        BY <3>3, <3>5, <4>4 DEF Put
      <4> QED BY <4>2, <4>4, <4>5
    <3> QED BY <3>4, <3>5
  <2>10. DuplicatesSuppressed'
    <3> SUFFICES ASSUME NEW i \in 1..last, NEW j \in 1..last, i < j,
                        passed'[i].print = passed'[j].print
                 PROVE  passed'[j].at - passed'[i].at >= Window
      BY <2>5 DEF DuplicatesSuppressed
    <3>1. i + k \in 1..Len(passed) /\ passed'[i] = passed[i + k]
      BY <2>5
    <3>2. CASE j = last
      <4>1. passed[i + k].print = f /\ passed[i + k].at \in 0..clock
        BY <1>6, <2>5, <3>1, <3>2
      <4>2. clock - passed[i + k].at >= Window
        <5> SUFFICES ASSUME clock - passed[i + k].at < Window PROVE FALSE
          BY <1>1, <4>1
        <5>1. f \in DOMAIN limiter.seen /\ limiter.seen[f] >= passed[i + k].at
          BY <3>1, <4>1 DEF Remembered
        <5>2. clock - limiter.seen[f] < Window /\ Window > 0
          BY <1>1, <1>2, <4>1, <5>1
        <5> QED BY <1>4, <1>8, <1>12, <5>1, <5>2
      <4> QED BY <2>5, <3>1, <3>2, <4>2
    <3>3. CASE j # last
      <4>1. /\ j + k \in 1..Len(passed) /\ passed'[j] = passed[j + k]
            /\ i + k < j + k
        BY <2>5, <3>3
      <4> QED BY <3>1, <4>1 DEF DuplicatesSuppressed
    <3> QED BY <3>2, <3>3
  <2> QED BY <1>10, <1>11, <2>6, <2>7, <2>8, <2>9, <2>10 DEF SeenBudget
<1>13. CASE ~pass
  <2>1. passed' = passed
    BY <1>13 DEF Packet, pass
  <2>2. Shape' /\ RateBound' /\ DuplicatesSuppressed'
    BY <1>1, <1>4, <2>1 DEF Shape, RateBound, DuplicatesSuppressed
  <2>3. Budget'
    <3> SUFFICES ASSUME NEW i \in 1..Len(passed)
                 PROVE  (Len(passed) - i + 1) * Unit + limiter'.tokens
                            <= Full + (limiter'.lastRefill - passed[i].at) * Rate
      BY <2>1 DEF Budget
    <3>1. (Len(passed) - i + 1) * Unit + limiter'.tokens + 0
                            <= Full + (limiter'.lastRefill - passed[i].at) * Rate
      BY <1>9, <1>13
    <3> DEFINE sent == (Len(passed) - i + 1) * Unit
    <3>2. sent \in Int
      BY <1>1, <1>6, ProductType
    <3> HIDE DEF sent
    <3>3. sent + limiter'.tokens + 0 = sent + limiter'.tokens
      BY <1>5, <3>2
    <3> QED BY <3>1, <3>3 DEF sent
  <2>4. Remembered'
    <3> SUFFICES ASSUME NEW i \in 1..Len(passed), clock - passed[i].at < Window
                 PROVE  /\ passed[i].print \in DOMAIN limiter'.seen
                        /\ limiter'.seen[passed[i].print] >= passed[i].at
      BY <1>1, <2>1 DEF Remembered
    <3> DEFINE g == passed[i].print
    <3>1. g \in DOMAIN limiter.seen /\ limiter.seen[g] >= passed[i].at
      BY DEF Remembered
    <3>2. clock - limiter.seen[g] < Window
      BY <1>1, <1>2, <1>6, <3>1
    <3> QED BY <1>3, <1>4, <1>8, <1>13, <3>1, <3>2
  <2> QED BY <1>10, <1>11, <2>2, <2>3, <2>4 DEF SeenBudget
<1> QED BY <1>12, <1>13

------------------------------------------------------------------------------
(* The theorems *)

\* The invariant holds throughout.
LEMMA LimiterInvariant == LimiterSpec => []LimiterInv
<1>1. LimiterInv /\ [LimiterNext]_limiterVars => LimiterInv'
  <2> SUFFICES ASSUME LimiterInv, [LimiterNext]_limiterVars PROVE LimiterInv'
    OBVIOUS
  <2>1. CASE UNCHANGED limiterVars
    BY <2>1 DEF limiterVars, LimiterInv, Shape, Budget, RateBound, Remembered,
                DuplicatesSuppressed, SeenBudget, SeenFresh, Since
  <2> QED BY <2>1, TickKeepsLimiterInv, PacketKeepsLimiterInv DEF LimiterNext
<1> QED BY <1>1, LimiterInvInit, PTL DEF LimiterSpec

\* guardDiscovery keeps the bucket between empty and full and its times and
\* fingerprints in range.
THEOREM LimiterTypeCorrect == LimiterSpec => []LimiterTypeOK
<1>1. LimiterInv => LimiterTypeOK
  <2> SUFFICES ASSUME LimiterInv PROVE LimiterTypeOK
    OBVIOUS
  <2>1. passed \in Seq([print : Fingerprint, at : 0..clock])
    BY DEF LimiterInv, Shape
  <2>2. [print : Fingerprint, at : 0..clock] \subseteq [print : Fingerprint, at : 0..MaxTime]
    BY LimiterBounds DEF LimiterInv, Shape
  <2>3. passed \in Seq([print : Fingerprint, at : 0..MaxTime])
    BY <2>1, <2>2, SeqMonotonic
  <2> QED BY <2>3 DEF LimiterInv, Shape, IsLimiter, LimiterTypeOK
<1> QED BY <1>1, LimiterInvariant, PTL

\* guardDiscovery lets at most a burst plus the sustained rate through, in every
\* stretch of time, for every burst, rate and window.
THEOREM RateAlwaysBounded == LimiterSpec => []RateBound
<1>1. LimiterInv => RateBound
    BY DEF LimiterInv
<1> QED BY <1>1, LimiterInvariant, PTL

\* guardDiscovery fans out no packet twice within the duplicate window.
THEOREM DuplicatesAlwaysSuppressed == LimiterSpec => []DuplicatesSuppressed
<1>1. LimiterInv => DuplicatesSuppressed
    BY DEF LimiterInv
<1> QED BY <1>1, LimiterInvariant, PTL

\* The duplicate map of guardDiscovery holds no more fingerprints than a burst
\* plus the rate of one window.
THEOREM SeenAlwaysBounded == LimiterSpec => []SeenBounded
<1>1. LimiterInv => SeenBounded
  <2> SUFFICES ASSUME LimiterInv PROVE SeenBounded
    OBVIOUS
  <2>1. /\ Rate \in Nat /\ Unit \in Nat /\ Full \in Nat /\ Window \in Nat
        /\ limiter.tokens \in Nat /\ limiter.lastRefill \in Nat
        /\ \A f \in DOMAIN limiter.seen : limiter.seen[f] \in Nat
        /\ IsFiniteSet(DOMAIN limiter.seen)
    BY DiscoveryAssumption, FullBucket DEF LimiterInv, Shape, IsLimiter, IsMap
  <2> DEFINE t == limiter.lastRefill - Window
             count == Cardinality(DOMAIN limiter.seen) * Unit
             refill == Window * Rate
  <2>2. t \in Int /\ t <= limiter.lastRefill /\ limiter.lastRefill - t = Window
    BY <2>1
  <2>3. Since(limiter, t) = DOMAIN limiter.seen
    BY <2>1 DEF Since, LimiterInv, SeenFresh
  <2>4. count + limiter.tokens <= Full + refill
    BY <2>2, <2>3 DEF LimiterInv, SeenBudget
  <2>5. count \in Int /\ refill \in Int
    BY <2>1, FS_CardinalityType, ProductType
  <2> HIDE DEF count, refill
  <2>6. count <= Full + refill
    BY <2>1, <2>4, <2>5
  <2> QED BY <2>6 DEF SeenBounded, count, refill
<1> QED BY <1>1, LimiterInvariant, PTL
==============================================================================
