-------------------------- MODULE FullTunnelProofs ---------------------------
(***************************************************************************)
(* Proofs about the routes of the full tunnel, for every width of an       *)
(* address and every number of addresses that a host resolves to.          *)
(*                                                                         *)
(* While a prefix is cut out, the routes that are left (next) and the      *)
(* calls that are due (work) together are a cover without overlaps of what *)
(* the routes covered, less what is already cut away; two halves of one    *)
(* prefix may both be there, but then one of them overlaps the cut and     *)
(* will not stay as it is.                                                 *)
(***************************************************************************)
EXTENDS FullTunnel, SequenceTheorems, WellFoundedInduction, TLAPS

------------------------------------------------------------------------------
(* Prefixes *)

MaskedPrefix == {p \in Prefix : Masked(p) = p}

\* Masking keeps the leading bits and clears the others.
LEMMA MaskedFacts ==
    ASSUME NEW p \in Prefix
    PROVE  /\ Masked(p) \in MaskedPrefix
           /\ Masked(p).bits = p.bits
           /\ \A i \in 1..Width : Masked(p).addr[i] = IF i <= p.bits THEN p.addr[i] ELSE 0
           /\ \A i \in 1..p.bits : Masked(p).addr[i] = p.addr[i]
<1>1. Width \in Nat
    BY TunnelAssumption
<1>2. p.bits \in 0..Width /\ p.addr \in Address /\ p = [addr |-> p.addr, bits |-> p.bits]
    BY DEF Prefix
<1> DEFINE m == [i \in 1..Width |-> IF i <= p.bits THEN p.addr[i] ELSE 0]
<1>3. Masked(p) = [addr |-> m, bits |-> p.bits]
    BY <1>2 DEF Masked
<1>4. m \in Address
    BY <1>1, <1>2 DEF Address
<1>5. \A i \in 1..Width : m[i] = IF i <= p.bits THEN p.addr[i] ELSE 0
    OBVIOUS
<1>6. [i \in 1..Width |-> IF i <= p.bits THEN m[i] ELSE 0] = m
    BY <1>1, <1>2
<1> HIDE DEF m
<1>7. Masked(p) \in Prefix
    BY <1>2, <1>3, <1>4 DEF Prefix
<1>8. Masked(Masked(p)) = Masked(p)
    BY <1>3, <1>6 DEF Masked
<1> QED BY <1>1, <1>2, <1>3, <1>5, <1>7, <1>8 DEF MaskedPrefix

\* A prefix and its masked form hold the same addresses.
LEMMA MaskedContains ==
    ASSUME NEW p \in Prefix, NEW a
    PROVE  Contains4(Masked(p), a) <=> Contains4(p, a)
BY MaskedFacts DEF Contains4, Agree

\* Overlap is symmetric, and a prefix overlaps itself.
LEMMA OverlapsSymmetric ==
    ASSUME NEW p \in Prefix, NEW q \in Prefix
    PROVE  (Overlaps(p, q) <=> Overlaps(q, p)) /\ (Siblings(p, q) <=> Siblings(q, p))
<1>1. Width \in Nat /\ p.bits \in 0..Width /\ q.bits \in 0..Width
    BY TunnelAssumption DEF Prefix
<1> QED BY <1>1 DEF Overlaps, Siblings, Agree

\* Prefixes that do not overlap have no address in common.
LEMMA OverlapsShare ==
    ASSUME NEW p \in Prefix, NEW q \in Prefix, NEW a, Contains4(p, a), Contains4(q, a)
    PROVE  Overlaps(p, q)
<1>1. Width \in Nat /\ p.bits \in 0..Width /\ q.bits \in 0..Width
    BY TunnelAssumption DEF Prefix
<1> QED BY <1>1 DEF Overlaps, Contains4, Agree

\* A prefix that is not divided but overlaps the cut lies inside it.
LEMMA DroppedInside ==
    ASSUME NEW p \in Prefix, NEW c \in Prefix, Overlaps(p, c), ~Divisible(p, c),
           NEW a, Contains4(p, a)
    PROVE  Contains4(c, a)
<1>1. Width \in Nat /\ p.bits \in 0..Width /\ c.bits \in 0..Width
    BY TunnelAssumption DEF Prefix
<1>2. c.bits <= p.bits
    BY <1>1 DEF Divisible, Removed
<1>3. \A i \in 1..c.bits : p.addr[i] = c.addr[i]
    BY <1>1, <1>2 DEF Overlaps, Agree
<1>4. \A i \in 1..c.bits : i \in 1..p.bits
    BY <1>1, <1>2
<1> QED BY <1>3, <1>4 DEF Contains4, Agree

\* h is base with one more bit b.
IsHalf(h, base, b) ==
    /\ h \in MaskedPrefix
    /\ h.bits = base.bits + 1
    /\ \A i \in 1..base.bits : h.addr[i] = base.addr[i]
    /\ h.addr[base.bits + 1] = b

\* The two prefixes subtractPrefix goes on with are the halves.
LEMMA Halves ==
    ASSUME NEW p \in MaskedPrefix, p.bits < Width
    PROVE  IsHalf(FirstHalf(p), p, 0) /\ IsHalf(SecondHalf(p), p, 1)
<1> DEFINE q == [addr |-> p.addr, bits |-> p.bits + 1]
           r == [addr |-> [p.addr EXCEPT ![p.bits + 1] = 1], bits |-> p.bits + 1]
<1>1. /\ Width \in Nat /\ p.bits \in 0..Width /\ p.addr \in Address /\ p \in Prefix
      /\ p.bits + 1 \in 1..Width
    BY TunnelAssumption DEF Prefix, MaskedPrefix
<1>2. \A i \in 1..Width : p.addr[i] = IF i <= p.bits THEN p.addr[i] ELSE 0
    BY <1>1, MaskedFacts DEF MaskedPrefix
<1>3. p.addr[p.bits + 1] = 0
    BY <1>1, <1>2
<1>4. q \in Prefix /\ r \in Prefix
    BY <1>1 DEF Prefix, Address
<1>5. /\ r.addr[p.bits + 1] = 1
      /\ \A i \in 1..p.bits : r.addr[i] = p.addr[i]
    BY <1>1 DEF Address
<1>6. q.bits = p.bits + 1 /\ r.bits = p.bits + 1 /\ q.addr = p.addr
    OBVIOUS
<1>7. FirstHalf(p) = Masked(q) /\ SecondHalf(p) = Masked(r)
    BY DEF FirstHalf, SecondHalf
<1> HIDE DEF q, r
<1>8. \A i \in 1..p.bits : i \in 1..(p.bits + 1)
    BY <1>1
<1>9. p.bits + 1 \in 1..(p.bits + 1)
    BY <1>1
<1>10. IsHalf(Masked(q), p, 0)
    BY <1>3, <1>4, <1>6, <1>8, <1>9, MaskedFacts DEF IsHalf
<1>11. IsHalf(Masked(r), p, 1)
    BY <1>4, <1>5, <1>6, <1>8, <1>9, MaskedFacts DEF IsHalf
<1> QED BY <1>7, <1>10, <1>11

\* What the two halves f and s of a prefix p have to do with other prefixes.
LEMMA HalvesFacts ==
    ASSUME NEW p \in MaskedPrefix, p.bits < Width, NEW f, NEW s, IsHalf(f, p, 0), IsHalf(s, p, 1)
    PROVE  /\ \A a \in Address : Contains4(p, a) <=> Contains4(f, a) \/ Contains4(s, a)
           /\ ~Overlaps(f, s)
           /\ \A q \in Prefix : ~Overlaps(p, q) =>
                /\ ~Overlaps(f, q) /\ ~Overlaps(s, q)
                /\ ~Siblings(f, q) /\ ~Siblings(s, q)
           /\ \A c \in Prefix : Overlaps(p, c) /\ Divisible(p, c) =>
                Overlaps(f, c) \/ Overlaps(s, c)
<1> DEFINE n == p.bits
<1>1. Width \in Nat /\ n \in 0..Width /\ n + 1 \in 1..Width /\ p \in Prefix /\ n < Width
    BY TunnelAssumption DEF Prefix, MaskedPrefix
<1>2. /\ f.bits = n + 1 /\ s.bits = n + 1
      /\ \A i \in 1..n : f.addr[i] = p.addr[i] /\ s.addr[i] = p.addr[i]
      /\ f.addr[n + 1] = 0 /\ s.addr[n + 1] = 1
    BY DEF IsHalf
<1> HIDE DEF n
<1>3. ASSUME NEW a \in Address
      PROVE  Contains4(p, a) <=> Contains4(f, a) \/ Contains4(s, a)
  <2>1. a[n + 1] \in {0, 1}
    BY <1>1 DEF Address
  <2>2. \A i \in 1..(n + 1) : i \in 1..n \/ i = n + 1
    BY <1>1
  <2>3. \A i \in 1..n : i \in 1..(n + 1)
    BY <1>1
  <2> QED BY <1>2, <2>1, <2>2, <2>3 DEF Contains4, Agree, n
<1>4. ~Overlaps(f, s)
  <2>1. n + 1 \in 1..(n + 1)
    BY <1>1
  <2> QED BY <1>1, <1>2, <2>1 DEF Overlaps, Agree
<1>5. ASSUME NEW q \in Prefix, ~Overlaps(p, q)
      PROVE  /\ ~Overlaps(f, q) /\ ~Overlaps(s, q)
             /\ ~Siblings(f, q) /\ ~Siblings(s, q)
  <2>1. q.bits \in 0..Width
    BY DEF Prefix
  <2>2. PICK i \in 1..n : i <= q.bits /\ p.addr[i] # q.addr[i]
    BY <1>1, <1>5, <2>1 DEF Overlaps, Agree, n
  <2>3. f.addr[i] # q.addr[i] /\ s.addr[i] # q.addr[i]
    BY <1>2, <2>2
  <2>4. ~Overlaps(f, q) /\ ~Overlaps(s, q)
    BY <1>1, <1>2, <2>1, <2>2, <2>3 DEF Overlaps, Agree
  <2>5. f.bits - 1 = n /\ s.bits - 1 = n
    BY <1>1, <1>2
  <2>6. ~Agree(f.addr, q.addr, n) /\ ~Agree(s.addr, q.addr, n)
    BY <2>2, <2>3 DEF Agree
  <2> QED BY <2>4, <2>5, <2>6 DEF Siblings
<1>6. ASSUME NEW c \in Prefix, Overlaps(p, c), Divisible(p, c)
      PROVE  Overlaps(f, c) \/ Overlaps(s, c)
  <2>1. c.bits \in 0..Width /\ c.addr \in Address
    BY DEF Prefix
  <2>2. c.bits > n
    <3>1. SUFFICES ASSUME c.bits <= n PROVE FALSE
      BY <1>1, <2>1
    <3>2. \A i \in 1..c.bits : p.addr[i] = c.addr[i]
      BY <1>1, <1>6, <2>1, <3>1 DEF Overlaps, Agree, n
    <3> QED BY <1>6, <3>1, <3>2 DEF Divisible, Removed, Contains4, Agree, n
  <2>3. \A i \in 1..n : p.addr[i] = c.addr[i]
    BY <1>1, <1>6, <2>1, <2>2 DEF Overlaps, Agree, n
  <2>4. c.addr[n + 1] \in {0, 1}
    BY <1>1, <2>1 DEF Address
  <2>5. \A i \in 1..(n + 1) : i \in 1..n \/ i = n + 1
    BY <1>1
  <2>6. (IF n + 1 < c.bits THEN n + 1 ELSE c.bits) = n + 1
    BY <1>1, <2>1, <2>2
  <2> QED BY <1>2, <2>3, <2>4, <2>5, <2>6 DEF Overlaps, Agree
<1> QED BY <1>3, <1>4, <1>5, <1>6

------------------------------------------------------------------------------
(* The order of the addresses *)

\* Two addresses that differ are ordered: the first bit in which they differ
\* decides.
LEMMA LessTotal ==
    ASSUME NEW a \in Address, NEW b \in Address, a # b
    PROVE  Less(a, b) \/ Less(b, a)
<1> DEFINE D == {i \in 1..Width : a[i] # b[i]}
<1>1. Width \in Nat
    BY TunnelAssumption
<1>2. D # {}
  <2>1. a = [i \in 1..Width |-> a[i]] /\ b = [i \in 1..Width |-> b[i]]
    BY DEF Address
  <2>2. SUFFICES ASSUME \A i \in 1..Width : a[i] = b[i] PROVE FALSE
    OBVIOUS
  <2>3. [i \in 1..Width |-> a[i]] = [i \in 1..Width |-> b[i]]
    BY <2>2
  <2> QED BY <2>1, <2>3
<1>3. PICK m \in D : \A i \in D : ~(<<i, m>> \in OpToRel(<, Nat))
  <2>1. D \subseteq Nat
    BY <1>1
  <2> HIDE DEF D
  <2> QED BY <1>2, <2>1, NatLessThanWellFounded, WFMin
<1>4. m \in 1..Width /\ a[m] # b[m]
    OBVIOUS
<1>5. \A j \in 1..(m - 1) : a[j] = b[j]
  <2> SUFFICES ASSUME NEW j \in 1..(m - 1), a[j] # b[j] PROVE FALSE
    OBVIOUS
  <2>1. j \in 1..Width /\ j < m /\ j \in Nat /\ m \in Nat
    BY <1>1, <1>4
  <2>2. j \in D
    BY <2>1
  <2> QED BY <1>3, <2>1, <2>2 DEF OpToRel
<1>6. a[m] \in {0, 1} /\ b[m] \in {0, 1}
    BY <1>4 DEF Address
<1>7. a[m] < b[m] \/ b[m] < a[m]
    BY <1>4, <1>6
<1> QED BY <1>4, <1>5, <1>7 DEF Less

------------------------------------------------------------------------------
(* Sequences *)

\* The rest of a work list.
LEMMA TailFacts ==
    ASSUME NEW S, NEW w \in Seq(S), w # <<>>
    PROVE  /\ Head(w) = w[1] /\ w[1] \in S /\ 1 \in DOMAIN w
           /\ Tail(w) \in Seq(S)
           /\ DOMAIN Tail(w) = 1..(Len(w) - 1)
           /\ \A i \in DOMAIN Tail(w) :
                /\ Tail(w)[i] = w[i + 1]
                /\ i + 1 \in DOMAIN w /\ i + 1 # 1
           /\ \A i \in DOMAIN w : i # 1 => i - 1 \in DOMAIN Tail(w) /\ Tail(w)[i - 1] = w[i]
<1>1. /\ Head(w) \in S /\ Tail(w) \in Seq(S) /\ Len(Tail(w)) = Len(w) - 1
      /\ \A i \in 1..Len(Tail(w)) : Tail(w)[i] = w[i + 1]
    BY HeadTailProperties
<1>2. Len(w) \in Nat /\ DOMAIN w = 1..Len(w) /\ Len(w) # 0
    BY LenProperties, EmptySeq
<1>3. Head(w) = w[1]
    OBVIOUS
<1>4. DOMAIN Tail(w) = 1..(Len(w) - 1)
    BY <1>1, LenProperties
<1> DEFINE n == Len(w)
           t == Tail(w)
<1> HIDE DEF n, t
<1>5. \A i \in 1..(n - 1) : i + 1 \in 1..n /\ i + 1 # 1
    BY <1>2 DEF n
<1>6. \A i \in 1..n : i # 1 => i - 1 \in 1..(n - 1) /\ (i - 1) + 1 = i
    BY <1>2 DEF n
<1> QED BY <1>1, <1>2, <1>3, <1>4, <1>5, <1>6 DEF n, t

\* The work list after a split.
LEMMA SplitList ==
    ASSUME NEW S, NEW w \in Seq(S), w # <<>>, NEW a \in S, NEW b \in S
    PROVE  LET v == <<a, b>> \o Tail(w) IN
           /\ v \in Seq(S)
           /\ DOMAIN v = 1..(Len(w) + 1)
           /\ 1 \in DOMAIN v /\ 2 \in DOMAIN v
           /\ v[1] = a /\ v[2] = b
           /\ \A i \in DOMAIN v : i \notin {1, 2} => v[i] = w[i - 1] /\ i - 1 \in DOMAIN w /\ i - 1 # 1
           /\ \A i \in DOMAIN w : i # 1 => i + 1 \in DOMAIN v /\ v[i + 1] = w[i]
<1> DEFINE t == Tail(w)
           h == <<a, b>>
           n == Len(w)
           v == h \o t
<1>1. /\ t \in Seq(S) /\ DOMAIN t = 1..(n - 1)
      /\ \A i \in DOMAIN t : t[i] = w[i + 1]
    BY TailFacts
<1>2. n \in Nat /\ DOMAIN w = 1..n /\ n # 0
    BY LenProperties, EmptySeq
<1>3. Len(t) = n - 1
    BY HeadTailProperties
<1>4. h \in Seq(S) /\ Len(h) = 2 /\ h[1] = a /\ h[2] = b
    OBVIOUS
<1> HIDE DEF t, h, n
<1>5. /\ v \in Seq(S) /\ Len(v) = Len(h) + Len(t)
      /\ \A i \in 1..(Len(h) + Len(t)) :
            v[i] = IF i <= Len(h) THEN h[i] ELSE t[i - Len(h)]
    BY <1>1, <1>4, ConcatProperties
<1> HIDE DEF v
<1>6. DOMAIN v = 1..Len(v)
    BY <1>5, LenProperties
<1>7. Len(v) = n + 1 /\ DOMAIN v = 1..(n + 1)
    BY <1>2, <1>3, <1>4, <1>5, <1>6
<1>8. \A i \in 1..(n + 1) : v[i] = IF i <= 2 THEN h[i] ELSE t[i - 2]
    BY <1>4, <1>5, <1>7
<1>9. 1 \in 1..(n + 1) /\ 2 \in 1..(n + 1) /\ v[1] = a /\ v[2] = b
    BY <1>2, <1>4, <1>8
<1>10. \A i \in 1..(n + 1) : i \notin {1, 2} =>
            /\ i - 2 \in 1..(n - 1) /\ (i - 2) + 1 = i - 1
            /\ i - 1 \in 1..n /\ i - 1 # 1 /\ v[i] = t[i - 2]
    BY <1>2, <1>8
<1>11. \A i \in 1..n : i # 1 =>
            i + 1 \in 1..(n + 1) /\ i + 1 \notin {1, 2} /\ (i + 1) - 1 = i
    BY <1>2
<1>12. \A i \in DOMAIN v : i \notin {1, 2} => v[i] = w[i - 1] /\ i - 1 \in DOMAIN w /\ i - 1 # 1
    BY <1>1, <1>2, <1>7, <1>10
<1>13. \A i \in DOMAIN w : i # 1 => i + 1 \in DOMAIN v /\ v[i + 1] = w[i]
    BY <1>2, <1>7, <1>11, <1>12
<1> QED BY <1>5, <1>7, <1>9, <1>12, <1>13 DEF v, h, t, n

\* A list that gets one element more.
LEMMA AppendFacts ==
    ASSUME NEW S, NEW s \in Seq(S), NEW e \in S
    PROVE  LET v == Append(s, e) IN
           /\ v \in Seq(S) /\ Len(v) = Len(s) + 1 /\ Len(s) \in Nat
           /\ \A i \in DOMAIN v : (i \in DOMAIN s /\ v[i] = s[i]) \/ (i = Len(s) + 1 /\ v[i] = e)
           /\ \A i \in DOMAIN s : i \in DOMAIN v /\ v[i] = s[i] /\ i # Len(s) + 1
           /\ Len(s) + 1 \in DOMAIN v /\ v[Len(s) + 1] = e
<1> DEFINE v == Append(s, e)
           n == Len(s)
<1>1. /\ v \in Seq(S) /\ Len(v) = n + 1 /\ v[n + 1] = e
      /\ \A i \in 1..n : v[i] = s[i]
    BY AppendProperties
<1>2. n \in Nat /\ DOMAIN s = 1..n
    BY LenProperties
<1> HIDE DEF v, n
<1>3. DOMAIN v = 1..(n + 1)
    BY <1>1, LenProperties
<1>4. \A i \in 1..(n + 1) : i \in 1..n \/ i = n + 1
    BY <1>2
<1>5. \A i \in 1..n : i \in 1..(n + 1) /\ i # n + 1
    BY <1>2
<1>6. n + 1 \in 1..(n + 1)
    BY <1>2
<1> QED BY <1>1, <1>2, <1>3, <1>4, <1>5, <1>6 DEF v, n

------------------------------------------------------------------------------
(* The inductive invariant *)

In(s, a) == \E i \in DOMAIN s : Contains4(s[i], a)

\* No two elements overlap or are the halves of one prefix.
Apart(s) == \A i, j \in DOMAIN s : i # j => ~Overlaps(s[i], s[j]) /\ ~Siblings(s[i], s[j])

\* r, from which c is being cut out: n is left, w is due.  What is due may hold
\* two halves of one prefix, or one whose sibling is left; one of the two then
\* overlaps the cut.
Cutting(r, n, w, c) ==
    /\ \A a \in Address :
        In(r, a) /\ ~Contains4(c, a) <=> In(n, a) \/ (In(w, a) /\ ~Contains4(c, a))
    /\ Apart(n)
    /\ \A i \in DOMAIN n, j \in DOMAIN w :
        ~Overlaps(n[i], w[j]) /\ (Siblings(n[i], w[j]) => Overlaps(w[j], c))
    /\ \A i, j \in DOMAIN w : i # j =>
        /\ ~Overlaps(w[i], w[j])
        /\ Siblings(w[i], w[j]) => Overlaps(w[i], c) \/ Overlaps(w[j], c)

Shape ==
    /\ setup \in [mesh : MaskedPrefix, gateway : Prefix, coordinator : Hosts, relay : Hosts]
    /\ pc \in {"collect", "exclude", "done"}
    /\ taken \in 0..Len(Resolved(setup))
    /\ protected \in Seq(Prefix)
    /\ cut \in 0..Len(protected)
    /\ routes \in Seq(MaskedPrefix) /\ work \in Seq(MaskedPrefix) /\ next \in Seq(MaskedPrefix)

\* What resolveHostIPv4 looks at.
Found == [addr : Address \cup {NotIPv4}, bits : 0..Width]

\* Every IPv4 prefix that was looked at is protected; the loops end at their ends.
Collected ==
    /\ \A i \in 1..taken : Is4(Resolved(setup)[i]) => Masked(Resolved(setup)[i]) \in Range(protected)
    /\ pc = "collect" => cut = 0 /\ work = routes /\ next = <<>>
    /\ pc # "collect" =>
        taken = Len(Resolved(setup)) /\ Masked(setup.gateway) \in Range(protected)
    /\ pc = "done" => cut = Len(protected)

InCut ==
    pc = "exclude" /\ cut < Len(protected) =>
        Cutting(routes, next, work, Masked(protected[cut + 1]))

Ordered == pc = "done" => \A i, j \in DOMAIN routes : i < j => Less(routes[i].addr, routes[j].addr)

TunnelInv == Shape /\ Collected /\ CoverIsExact /\ Apart(routes) /\ InCut /\ Ordered

------------------------------------------------------------------------------
(* One cut *)

\* It begins with every route due.
LEMMA CutBegins ==
    ASSUME NEW r, Apart(r), NEW c
    PROVE  Cutting(r, <<>>, r, c)
<1>1. DOMAIN <<>> = {}
    OBVIOUS
<1> QED BY <1>1 DEF Cutting, Apart, In

\* It ends with nothing due: what is left is apart, and is what c left.
LEMMA CutEnds ==
    ASSUME NEW r, NEW n, NEW c, Cutting(r, n, <<>>, c)
    PROVE  Apart(n) /\ \A a \in Address : In(n, a) <=> In(r, a) /\ ~Contains4(c, a)
<1>1. DOMAIN <<>> = {}
    OBVIOUS
<1> QED BY <1>1 DEF Cutting, In

\* A call that keeps its prefix.
LEMMA KeepStep ==
    ASSUME NEW r, NEW n \in Seq(MaskedPrefix), NEW w \in Seq(MaskedPrefix), NEW c \in Prefix,
           Cutting(r, n, w, c), w # <<>>, ~Overlaps(Head(w), c)
    PROVE  Cutting(r, Append(n, Head(w)), Tail(w), c)
<1> DEFINE b == w[1]
           t == Tail(w)
           v == Append(n, b)
           k == Len(n) + 1
<1>1. /\ Head(w) = b /\ b \in MaskedPrefix /\ 1 \in DOMAIN w
      /\ \A i \in DOMAIN t : t[i] = w[i + 1] /\ i + 1 \in DOMAIN w /\ i + 1 # 1
      /\ \A i \in DOMAIN w : i # 1 => i - 1 \in DOMAIN t /\ t[i - 1] = w[i]
    BY TailFacts
<1>2. /\ \A i \in DOMAIN v : (i \in DOMAIN n /\ v[i] = n[i]) \/ (i = k /\ v[i] = b)
      /\ \A i \in DOMAIN n : i \in DOMAIN v /\ v[i] = n[i] /\ i # k
      /\ k \in DOMAIN v /\ v[k] = b
    BY <1>1, AppendFacts
<1>3. \A i, j \in DOMAIN t : i # j => i + 1 # j + 1
  <2>1. DOMAIN t = 1..(Len(w) - 1) /\ Len(w) \in Nat
    BY TailFacts, LenProperties
  <2> QED BY <2>1
<1>4. b \in Prefix /\ \A i \in DOMAIN n : n[i] \in Prefix
    BY <1>1, ElementOfSeq, LenProperties DEF MaskedPrefix
<1> HIDE DEF t, v, k
<1>5. \A a : In(v, a) <=> In(n, a) \/ Contains4(b, a)
    BY <1>2 DEF In
<1>6. \A a : In(w, a) <=> In(t, a) \/ Contains4(b, a)
    BY <1>1 DEF In
<1>7. \A a : Contains4(b, a) => ~Contains4(c, a)
    BY <1>1, <1>4, OverlapsShare
<1>8. ~Overlaps(b, c)
    BY <1>1
<1>9. \A a \in Address :
        In(r, a) /\ ~Contains4(c, a) <=> In(v, a) \/ (In(t, a) /\ ~Contains4(c, a))
    BY <1>5, <1>6, <1>7 DEF Cutting
<1>10. \A i \in DOMAIN n : /\ ~Overlaps(n[i], b) /\ ~Siblings(n[i], b)
                           /\ ~Overlaps(b, n[i]) /\ ~Siblings(b, n[i])
    BY <1>1, <1>4, <1>8, OverlapsSymmetric DEF Cutting
<1>11. Apart(v)
    BY <1>2, <1>10 DEF Cutting, Apart
<1>12. \A i \in DOMAIN v, j \in DOMAIN t :
        ~Overlaps(v[i], t[j]) /\ (Siblings(v[i], t[j]) => Overlaps(t[j], c))
    BY <1>1, <1>2, <1>8 DEF Cutting
<1>13. \A i, j \in DOMAIN t : i # j =>
        /\ ~Overlaps(t[i], t[j])
        /\ Siblings(t[i], t[j]) => Overlaps(t[i], c) \/ Overlaps(t[j], c)
    BY <1>1, <1>3 DEF Cutting
<1>14. Cutting(r, v, t, c)
    BY <1>9, <1>11, <1>12, <1>13 DEF Cutting
<1> QED BY <1>1, <1>14 DEF v, t

\* A call that drops its prefix.
LEMMA DropStep ==
    ASSUME NEW r, NEW n \in Seq(MaskedPrefix), NEW w \in Seq(MaskedPrefix), NEW c \in Prefix,
           Cutting(r, n, w, c), w # <<>>, Overlaps(Head(w), c), ~Divisible(Head(w), c)
    PROVE  Cutting(r, n, Tail(w), c)
<1> DEFINE b == w[1]
           t == Tail(w)
<1>1. /\ Head(w) = b /\ b \in MaskedPrefix /\ 1 \in DOMAIN w
      /\ \A i \in DOMAIN t : t[i] = w[i + 1] /\ i + 1 \in DOMAIN w /\ i + 1 # 1
      /\ \A i \in DOMAIN w : i # 1 => i - 1 \in DOMAIN t /\ t[i - 1] = w[i]
    BY TailFacts
<1>2. \A i, j \in DOMAIN t : i # j => i + 1 # j + 1
  <2>1. DOMAIN t = 1..(Len(w) - 1) /\ Len(w) \in Nat
    BY TailFacts, LenProperties
  <2> QED BY <2>1
<1> HIDE DEF t
<1>3. \A a : In(w, a) <=> In(t, a) \/ Contains4(b, a)
    BY <1>1 DEF In
<1>4. \A a : Contains4(b, a) => Contains4(c, a)
    BY <1>1, DroppedInside DEF MaskedPrefix
<1>5. \A a \in Address :
        In(r, a) /\ ~Contains4(c, a) <=> In(n, a) \/ (In(t, a) /\ ~Contains4(c, a))
    BY <1>3, <1>4 DEF Cutting
<1>6. \A i \in DOMAIN n, j \in DOMAIN t :
        ~Overlaps(n[i], t[j]) /\ (Siblings(n[i], t[j]) => Overlaps(t[j], c))
    BY <1>1 DEF Cutting
<1>7. \A i, j \in DOMAIN t : i # j =>
        /\ ~Overlaps(t[i], t[j])
        /\ Siblings(t[i], t[j]) => Overlaps(t[i], c) \/ Overlaps(t[j], c)
    BY <1>1, <1>2 DEF Cutting
<1> QED BY <1>5, <1>6, <1>7 DEF Cutting, t

\* A call that goes on with the halves of its prefix.
LEMMA SplitStep ==
    ASSUME NEW r, NEW n \in Seq(MaskedPrefix), NEW w \in Seq(MaskedPrefix), NEW c \in Prefix,
           Cutting(r, n, w, c), w # <<>>, Overlaps(Head(w), c), Divisible(Head(w), c)
    PROVE  /\ <<FirstHalf(Head(w)), SecondHalf(Head(w))>> \o Tail(w) \in Seq(MaskedPrefix)
           /\ Cutting(r, n, <<FirstHalf(Head(w)), SecondHalf(Head(w))>> \o Tail(w), c)
<1> DEFINE b == w[1]
           f == FirstHalf(Head(w))
           s == SecondHalf(Head(w))
           v == <<f, s>> \o Tail(w)
<1>1. Head(w) = b /\ b \in MaskedPrefix /\ 1 \in DOMAIN w
    BY TailFacts
<1>2. b.bits < Width /\ Overlaps(b, c) /\ Divisible(b, c) /\ b \in Prefix
    BY <1>1 DEF Divisible, MaskedPrefix
<1>3. IsHalf(f, b, 0) /\ IsHalf(s, b, 1)
    BY <1>1, <1>2, Halves
<1> HIDE DEF f, s
<1>4. /\ \A a \in Address : Contains4(b, a) <=> Contains4(f, a) \/ Contains4(s, a)
      /\ ~Overlaps(f, s)
      /\ \A q \in Prefix : ~Overlaps(b, q) =>
            /\ ~Overlaps(f, q) /\ ~Overlaps(s, q)
            /\ ~Siblings(f, q) /\ ~Siblings(s, q)
      /\ Overlaps(f, c) \/ Overlaps(s, c)
    BY <1>1, <1>2, <1>3, HalvesFacts
<1>5. f \in MaskedPrefix /\ s \in MaskedPrefix /\ f \in Prefix /\ s \in Prefix
    BY <1>3 DEF IsHalf, MaskedPrefix
<1>6. /\ v \in Seq(MaskedPrefix)
      /\ 1 \in DOMAIN v /\ 2 \in DOMAIN v /\ v[1] = f /\ v[2] = s
      /\ \A i \in DOMAIN v : i \notin {1, 2} => v[i] = w[i - 1] /\ i - 1 \in DOMAIN w /\ i - 1 # 1
      /\ \A i \in DOMAIN w : i # 1 => i + 1 \in DOMAIN v /\ v[i + 1] = w[i]
    BY <1>5, SplitList
<1>7. \A i, j \in DOMAIN v : i # j => i - 1 # j - 1
  <2>1. DOMAIN v = 1..(Len(w) + 1) /\ Len(w) \in Nat
    BY <1>5, SplitList, LenProperties
  <2> QED BY <2>1
<1>8. /\ \A i \in DOMAIN n : n[i] \in Prefix
      /\ \A i \in DOMAIN w : w[i] \in Prefix
    BY ElementOfSeq, LenProperties DEF MaskedPrefix
<1> HIDE DEF v
\* Everything else that is left or due is apart from b, and so from its halves.
<1>9. \A q \in Prefix : ~Overlaps(b, q) =>
        /\ ~Overlaps(q, f) /\ ~Overlaps(q, s) /\ ~Siblings(q, f) /\ ~Siblings(q, s)
        /\ ~Overlaps(f, q) /\ ~Overlaps(s, q) /\ ~Siblings(f, q) /\ ~Siblings(s, q)
    BY <1>4, <1>5, OverlapsSymmetric
<1>10. /\ \A i \in DOMAIN n : ~Overlaps(b, n[i])
       /\ \A i \in DOMAIN w : i # 1 => ~Overlaps(b, w[i])
    BY <1>1, <1>2, <1>8, OverlapsSymmetric DEF Cutting
<1>11. \A a \in Address : In(v, a) <=> In(w, a)
    BY <1>1, <1>4, <1>6 DEF In
<1>12. \A a \in Address :
        In(r, a) /\ ~Contains4(c, a) <=> In(n, a) \/ (In(v, a) /\ ~Contains4(c, a))
    BY <1>11 DEF Cutting
<1>13. ASSUME NEW i \in DOMAIN n, NEW j \in DOMAIN v
       PROVE  ~Overlaps(n[i], v[j]) /\ (Siblings(n[i], v[j]) => Overlaps(v[j], c))
  <2>1. CASE j \in {1, 2}
    BY <1>6, <1>8, <1>9, <1>10, <2>1
  <2>2. CASE j \notin {1, 2}
    BY <1>6, <2>2 DEF Cutting
  <2> QED BY <2>1, <2>2
<1>14. ~Overlaps(s, f)
    BY <1>4, <1>5, OverlapsSymmetric
<1>15. ASSUME NEW i \in DOMAIN v, NEW j \in DOMAIN v, i # j
       PROVE  /\ ~Overlaps(v[i], v[j])
              /\ Siblings(v[i], v[j]) => Overlaps(v[i], c) \/ Overlaps(v[j], c)
  <2>1. CASE i \in {1, 2} /\ j \in {1, 2}
    BY <1>4, <1>6, <1>14, <1>15, <2>1
  <2>2. CASE i \in {1, 2} /\ j \notin {1, 2}
    BY <1>6, <1>8, <1>9, <1>10, <2>2
  <2>3. CASE i \notin {1, 2} /\ j \in {1, 2}
    BY <1>6, <1>8, <1>9, <1>10, <2>3
  <2>4. CASE i \notin {1, 2} /\ j \notin {1, 2}
    BY <1>6, <1>7, <1>15, <2>4 DEF Cutting
  <2> QED BY <2>1, <2>2, <2>3, <2>4
<1>16. Cutting(r, n, v, c)
    BY <1>12, <1>13, <1>15 DEF Cutting
<1> QED BY <1>6, <1>16 DEF v, f, s

------------------------------------------------------------------------------
(* The steps *)

\* A host contributes a prefix for each of its addresses.
LEMMA HostFacts ==
    ASSUME NEW z \in Hosts
    PROVE  /\ HostPrefixes(z) \in Seq(Found)
           /\ \A a \in Range(z) : \E i \in 1..Len(HostPrefixes(z)) :
                HostPrefixes(z)[i] = [addr |-> a, bits |-> Width]
<1>1. PICK n \in 0..MaxResolved : z \in [1..n -> Address \cup {NotIPv4}]
    BY DEF Hosts
<1>2. n \in Nat /\ DOMAIN z = 1..n /\ Width \in 0..Width
    BY <1>1, TunnelAssumption
<1>3. HostPrefixes(z) \in [1..n -> Found]
    BY <1>1, <1>2 DEF HostPrefixes, Found
<1>4. HostPrefixes(z) \in Seq(Found) /\ Len(HostPrefixes(z)) = n
    BY <1>2, <1>3
<1> QED BY <1>1, <1>2, <1>4 DEF HostPrefixes, Range

\* Resolved lists the mesh prefix and every address of the two hosts.
LEMMA ResolvedFacts ==
    ASSUME Shape
    PROVE  /\ Resolved(setup) \in Seq(Found) /\ Len(Resolved(setup)) \in Nat
           /\ \A p \in {setup.mesh} \cup
                  {[addr |-> a, bits |-> Width] : a \in Range(setup.coordinator) \cup Range(setup.relay)} :
                \E i \in 1..Len(Resolved(setup)) : Resolved(setup)[i] = p
<1> DEFINE m == <<Masked(setup.mesh)>>
           x == setup.coordinator
           y == setup.relay
           hx == HostPrefixes(x)
           hy == HostPrefixes(y)
           res == Resolved(setup)
<1>1. Width \in Nat /\ MaxResolved \in Nat
    BY TunnelAssumption
<1>2. setup.mesh \in MaskedPrefix /\ x \in Hosts /\ y \in Hosts
    BY DEF Shape
<1>3. Masked(setup.mesh) = setup.mesh /\ setup.mesh \in Found
    BY <1>2 DEF MaskedPrefix, Prefix, Found
<1>4. m \in Seq(Found) /\ Len(m) = 1 /\ m[1] = setup.mesh
    BY <1>3
<1>6. hx \in Seq(Found) /\ hy \in Seq(Found) /\ Len(hx) \in Nat /\ Len(hy) \in Nat
    BY <1>2, HostFacts, LenProperties
<1>7. res = m \o hx \o hy
    BY DEF Resolved
<1> DEFINE k == Len(hx)
           l == Len(hy)
           mx == m \o hx
<1>8. \A a \in Range(x) : \E i \in 1..k : hx[i] = [addr |-> a, bits |-> Width]
    BY <1>2, HostFacts
<1>9. \A a \in Range(y) : \E i \in 1..l : hy[i] = [addr |-> a, bits |-> Width]
    BY <1>2, HostFacts
<1> HIDE DEF m, hx, hy, res
<1> HIDE DEF k, l
<1>10. /\ mx \in Seq(Found) /\ Len(mx) = 1 + k
       /\ \A i \in 1..(1 + k) : mx[i] = IF i <= 1 THEN m[i] ELSE hx[i - 1]
  <2>1. /\ mx \in Seq(Found) /\ Len(mx) = Len(m) + Len(hx)
        /\ \A i \in 1..(Len(m) + Len(hx)) : mx[i] = IF i <= Len(m) THEN m[i] ELSE hx[i - Len(m)]
    BY <1>4, <1>6, ConcatProperties
  <2> QED BY <1>4, <2>1 DEF k
<1>11. /\ res \in Seq(Found) /\ Len(res) = 1 + k + l
       /\ \A i \in 1..(1 + k + l) : res[i] = IF i <= 1 + k THEN mx[i] ELSE hy[i - (1 + k)]
  <2> HIDE DEF mx
  <2>1. res = mx \o hy
    BY <1>7 DEF mx
  <2>2. /\ res \in Seq(Found) /\ Len(res) = Len(mx) + Len(hy)
        /\ \A i \in 1..(Len(mx) + Len(hy)) : res[i] = IF i <= Len(mx) THEN mx[i] ELSE hy[i - Len(mx)]
    BY <1>6, <1>10, <2>1, ConcatProperties
  <2> QED BY <1>10, <2>2 DEF l
<1> HIDE DEF mx
<1> HIDE DEF x, y
<1>12. k \in Nat /\ l \in Nat
    BY <1>6 DEF k, l
<1>13. 1 \in 1..Len(res) /\ res[1] = setup.mesh
    BY <1>4, <1>10, <1>11, <1>12
<1>14. \A i \in 1..k : i + 1 \in 1..Len(res) /\ res[i + 1] = hx[i]
    BY <1>10, <1>11, <1>12
<1>15. \A i \in 1..l : i + (1 + k) \in 1..Len(res) /\ res[i + (1 + k)] = hy[i]
    BY <1>11, <1>12
<1>16. ASSUME NEW a \in Range(x) \cup Range(y)
       PROVE  \E i \in 1..Len(res) : res[i] = [addr |-> a, bits |-> Width]
    BY <1>8, <1>9, <1>14, <1>15
<1>17. Len(res) \in Nat
    BY <1>11, <1>12
<1> QED BY <1>11, <1>13, <1>16, <1>17 DEF res, x, y

\* One route covers everything.
LEMMA TunnelInvInit == Init => TunnelInv
<1> SUFFICES ASSUME Init PROVE TunnelInv
    OBVIOUS
<1>1. /\ Width \in Nat
      /\ setup \in [mesh : {Masked(p) : p \in Prefix}, gateway : Prefix,
                    coordinator : Hosts, relay : Hosts]
      /\ pc = "collect" /\ taken = 0 /\ protected = <<>>
      /\ cut = 0 /\ routes = <<Everything>> /\ work = routes /\ next = <<>>
    BY TunnelAssumption DEF Init
<1>2. setup \in [mesh : MaskedPrefix, gateway : Prefix, coordinator : Hosts, relay : Hosts]
  <2>1. {Masked(p) : p \in Prefix} \subseteq MaskedPrefix
    BY MaskedFacts
  <2> QED BY <1>1, <2>1
<1>3. Everything \in MaskedPrefix /\ \A a : Contains4(Everything, a)
  <2>1. Everything \in Prefix
    BY <1>1 DEF Everything, Prefix, Address
  <2>2. Masked(Everything) = Everything
    BY <1>1 DEF Everything, Masked
  <2>3. \A a : Contains4(Everything, a)
    BY DEF Everything, Contains4, Agree
  <2> QED BY <2>1, <2>2, <2>3 DEF MaskedPrefix
<1>4. /\ routes \in Seq(MaskedPrefix) /\ work \in Seq(MaskedPrefix)
      /\ next \in Seq(MaskedPrefix) /\ protected \in Seq(Prefix) /\ Len(protected) = 0
      /\ DOMAIN routes = {1} /\ routes[1] = Everything
    BY <1>1, <1>3
<1>5. Len(Resolved(setup)) \in Nat
  <2>1. <<Masked(setup.mesh)>> \in Seq(Found)
    BY <1>2, MaskedFacts DEF MaskedPrefix, Prefix, Found
  <2>2. HostPrefixes(setup.coordinator) \in Seq(Found) /\ HostPrefixes(setup.relay) \in Seq(Found)
    BY <1>1, HostFacts
  <2>3. Resolved(setup) \in Seq(Found)
    BY <2>1, <2>2, ConcatProperties DEF Resolved
  <2> QED BY <2>3, LenProperties
<1>6. Shape
    BY <1>1, <1>2, <1>4, <1>5 DEF Shape
<1>7. Collected
    BY <1>1 DEF Collected
<1>8. CoverIsExact
    BY <1>1, <1>3, <1>4 DEF CoverIsExact, Routed
<1>9. Apart(routes)
    BY <1>4 DEF Apart
<1> QED BY <1>1, <1>6, <1>7, <1>8, <1>9 DEF TunnelInv, InCut, Ordered

\* The loop of resolveProtectedPrefixes.
LEMMA CollectKeepsInv ==
    ASSUME TunnelInv, Collect
    PROVE  TunnelInv'
<1> USE DEF TunnelInv
<1> DEFINE res == Resolved(setup)
           q == res[taken + 1]
           p == Masked(q)
<1>1. /\ pc = "collect" /\ taken \in Nat /\ taken < Len(res) /\ taken' = taken + 1
      /\ protected' = IF ~Is4(q) \/ p \in Range(protected) THEN protected ELSE Append(protected, p)
      /\ setup' = setup /\ pc' = pc /\ cut' = cut /\ routes' = routes /\ work' = work
      /\ next' = next
    BY DEF Collect, Shape
<1>2. res \in Seq(Found) /\ Len(res) \in Nat
    BY ResolvedFacts
<1>3. taken + 1 \in 1..Len(res)
    BY <1>1, <1>2
<1>4. Is4(q) => p \in Prefix
  <2>1. q \in Found
    BY <1>2, <1>3, ElementOfSeq
  <2>2. Is4(q) => q \in Prefix
    BY <2>1 DEF Found, Is4, Prefix
  <2> QED BY <2>2, MaskedFacts DEF MaskedPrefix
<1> HIDE DEF p, q, res
<1>5. protected \in Seq(Prefix) /\ cut = 0 /\ taken \in 0..Len(res)
    BY <1>1 DEF Shape, Collected, res
<1>6. protected' \in Seq(Prefix) /\ Range(protected) \subseteq Range(protected')
      /\ (Is4(q) => p \in Range(protected'))
  <2>1. CASE ~Is4(q) \/ p \in Range(protected)
    BY <1>1, <1>5, <2>1
  <2>2. CASE Is4(q) /\ p \notin Range(protected)
    <3>1. protected' = Append(protected, p)
      BY <1>1, <2>2
    <3> QED BY <1>4, <1>5, <2>2, <3>1, AppendFacts DEF Range
  <2> QED BY <2>1, <2>2
<1>7. Len(protected') \in Nat
    BY <1>6, LenProperties
<1>8. taken' \in 0..Len(res)
    BY <1>1, <1>2
<1>9. Shape'
    BY <1>1, <1>5, <1>6, <1>7, <1>8 DEF Shape, res
<1>10. \A i \in 1..taken' : Is4(res[i]) => Masked(res[i]) \in Range(protected')
  <2>1. \A i \in 1..taken' : i \in 1..taken \/ i = taken + 1
    BY <1>1
  <2>2. \A i \in 1..taken : Is4(res[i]) => Masked(res[i]) \in Range(protected)
    BY DEF Collected, res
  <2> QED BY <1>6, <2>1, <2>2 DEF p, q
<1>11. Collected'
    BY <1>1, <1>10 DEF Collected, res
<1>12. CoverIsExact' /\ Apart(routes)'
    BY <1>1, <1>5 DEF CoverIsExact, Routed, Apart
<1> QED BY <1>1, <1>9, <1>11, <1>12 DEF InCut, Ordered

\* The gateway's network is protected too, and the first cut begins.
LEMMA BuildKeepsInv ==
    ASSUME TunnelInv, BuildFullTunnelConfig
    PROVE  TunnelInv'
<1> USE DEF TunnelInv
<1> DEFINE p == Masked(setup.gateway)
<1>1. /\ pc = "collect" /\ pc' = "exclude" /\ taken = Len(Resolved(setup))
      /\ protected' = Append(protected, p)
      /\ setup' = setup /\ taken' = taken /\ cut' = cut /\ routes' = routes /\ work' = work
      /\ next' = next
    BY DEF BuildFullTunnelConfig
<1>2. p \in Prefix
    BY MaskedFacts DEF Shape, MaskedPrefix
<1> HIDE DEF p
<1>3. protected \in Seq(Prefix) /\ cut = 0 /\ work = routes /\ next = <<>>
    BY <1>1 DEF Shape, Collected
<1>4. /\ protected' \in Seq(Prefix) /\ Range(protected) \subseteq Range(protected')
      /\ p \in Range(protected') /\ Len(protected') \in Nat
    BY <1>1, <1>2, <1>3, AppendFacts, LenProperties DEF Range
<1>5. Shape'
    BY <1>1, <1>3, <1>4 DEF Shape
<1>6. Collected'
    BY <1>1, <1>4 DEF Collected, p
<1>7. CoverIsExact' /\ Apart(routes)'
    BY <1>1, <1>3 DEF CoverIsExact, Routed, Apart
<1>8. Cutting(routes, <<>>, routes, Masked(protected'[cut' + 1]))
    BY CutBegins
<1>9. InCut'
    BY <1>1, <1>3, <1>8 DEF InCut
<1> QED BY <1>1, <1>5, <1>6, <1>7, <1>9 DEF Ordered

\* One call of subtractPrefix.
LEMMA SubtractKeepsInv ==
    ASSUME TunnelInv, Subtract
    PROVE  TunnelInv'
<1> USE DEF TunnelInv
<1> DEFINE c == Masked(protected[cut + 1])
<1>1. /\ pc = "exclude" /\ cut < Len(protected) /\ work # <<>>
      /\ subtractPrefix(Head(work), c)
      /\ setup' = setup /\ pc' = pc /\ taken' = taken /\ protected' = protected /\ cut' = cut
      /\ routes' = routes
    BY DEF Subtract
<1>2. c \in Prefix
  <2>1. Len(protected) \in Nat /\ cut + 1 \in 1..Len(protected) /\ protected \in Seq(Prefix)
    BY <1>1, LenProperties DEF Shape
  <2>2. protected[cut + 1] \in Prefix
    BY <2>1, ElementOfSeq
  <2> QED BY <2>2, MaskedFacts DEF MaskedPrefix
<1>3. Cutting(routes, next, work, c)
    BY <1>1 DEF InCut
<1> HIDE DEF c
<1>4. work \in Seq(MaskedPrefix) /\ next \in Seq(MaskedPrefix)
    BY DEF Shape
<1>5. Head(work) \in MaskedPrefix /\ Tail(work) \in Seq(MaskedPrefix)
    BY <1>1, <1>4, TailFacts
<1>6. /\ work' \in Seq(MaskedPrefix) /\ next' \in Seq(MaskedPrefix)
      /\ Cutting(routes, next', work', c)
  <2>1. CASE /\ ~Overlaps(Head(work), c)
             /\ next' = Append(next, Head(work)) /\ work' = Tail(work)
    <3>1. Append(next, Head(work)) \in Seq(MaskedPrefix)
      BY <1>4, <1>5, AppendFacts
    <3> QED BY <1>1, <1>2, <1>3, <1>4, <1>5, <2>1, <3>1, KeepStep
  <2>2. CASE /\ Overlaps(Head(work), c) /\ ~Divisible(Head(work), c)
             /\ next' = next /\ work' = Tail(work)
    BY <1>1, <1>2, <1>3, <1>4, <1>5, <2>2, DropStep
  <2>3. CASE /\ Overlaps(Head(work), c) /\ Divisible(Head(work), c)
             /\ next' = next
             /\ work' = <<FirstHalf(Head(work)), SecondHalf(Head(work))>> \o Tail(work)
    BY <1>1, <1>2, <1>3, <1>4, <2>3, SplitStep
  <2> QED BY <1>1, <2>1, <2>2, <2>3 DEF subtractPrefix
<1>7. Shape'
    BY <1>1, <1>6 DEF Shape
<1>8. Collected'
    BY <1>1 DEF Collected
<1>9. CoverIsExact' /\ Apart(routes)' /\ Ordered'
    BY <1>1 DEF CoverIsExact, Routed, Apart, Ordered
<1>10. InCut'
    BY <1>1, <1>6 DEF InCut, c
<1> QED BY <1>7, <1>8, <1>9, <1>10

\* A protected prefix is cut out of all routes; the next cut begins.
LEMMA ExcludeKeepsInv ==
    ASSUME TunnelInv, Exclude
    PROVE  TunnelInv'
<1> USE DEF TunnelInv
<1> DEFINE p == protected[cut + 1]
<1>1. /\ pc = "exclude" /\ cut < Len(protected) /\ work = <<>> /\ cut' = cut + 1
      /\ setup' = setup /\ pc' = pc /\ taken' = taken /\ protected' = protected
      /\ routes' = next /\ work' = next /\ next' = <<>>
    BY DEF Exclude
<1>2. Len(protected) \in Nat /\ cut \in Nat /\ cut + 1 \in 1..Len(protected) /\ protected \in Seq(Prefix)
    BY <1>1, LenProperties DEF Shape
<1>3. p \in Prefix
    BY <1>2, ElementOfSeq
<1>4. Cutting(routes, next, <<>>, Masked(p))
    BY <1>1 DEF InCut
<1>5. Apart(next) /\ \A a \in Address : In(next, a) <=> In(routes, a) /\ ~Contains4(Masked(p), a)
    BY <1>4, CutEnds
<1>6. Shape'
    BY <1>1, <1>2 DEF Shape
<1>7. Collected'
    BY <1>1 DEF Collected
<1>8. CoverIsExact'
  <2> SUFFICES ASSUME NEW a \in Address
               PROVE  In(next, a) <=> \A i \in 1..(cut + 1) : ~Contains4(protected[i], a)
    BY <1>1 DEF CoverIsExact, Routed, In
  <2>1. In(next, a) <=> In(routes, a) /\ ~Contains4(p, a)
    BY <1>3, <1>5, MaskedContains
  <2>2. In(routes, a) <=> \A i \in 1..cut : ~Contains4(protected[i], a)
    BY DEF CoverIsExact, Routed, In
  <2>3. \A i \in 1..(cut + 1) : i \in 1..cut \/ i = cut + 1
    BY <1>2
  <2>4. cut + 1 \in 1..(cut + 1) /\ \A i \in 1..cut : i \in 1..(cut + 1)
    BY <1>2
  <2> QED BY <2>1, <2>2, <2>3, <2>4
<1>9. Apart(routes)'
    BY <1>1, <1>5 DEF Apart
<1>10. Cutting(next, <<>>, next, Masked(protected[cut' + 1]))
    BY <1>5, CutBegins
<1>11. InCut' /\ Ordered'
    BY <1>1, <1>10 DEF InCut, Ordered
<1> QED BY <1>6, <1>7, <1>8, <1>9, <1>11

\* The sort permutes the routes; since no two overlap, their addresses differ and
\* the order is strict.
LEMMA SortKeepsInv ==
    ASSUME TunnelInv, Sort
    PROVE  TunnelInv'
<1> USE DEF TunnelInv
<1> DEFINE D == DOMAIN routes
<1>1. /\ pc = "exclude" /\ cut = Len(protected) /\ pc' = "done"
      /\ setup' = setup /\ taken' = taken /\ protected' = protected /\ cut' = cut
      /\ work' = work /\ next' = next
    BY DEF Sort
<1>2. PICK order \in Bijection(D, D) :
        /\ \A i, j \in D : i < j => ~Before(routes[order[j]], routes[order[i]])
        /\ routes' = [i \in D |-> routes[order[i]]]
    BY DEF Sort
<1>3. /\ \A i \in D : order[i] \in D
      /\ \A i, j \in D : i # j => order[i] # order[j]
      /\ \A j \in D : \E i \in D : order[i] = j
    BY DEF Bijection, Injection, Surjection, IsInjective
<1>4. DOMAIN routes' = D /\ \A i \in D : routes'[i] = routes[order[i]]
    BY <1>2
<1>5. /\ routes \in Seq(MaskedPrefix) /\ D = 1..Len(routes) /\ Len(routes) \in Nat
      /\ \A i \in D : routes[i] \in MaskedPrefix
    BY LenProperties, ElementOfSeq DEF Shape
<1>6. routes' \in Seq(MaskedPrefix)
  <2>1. routes' \in [1..Len(routes) -> MaskedPrefix]
    BY <1>2, <1>3, <1>5
  <2> QED BY <1>5, <2>1
<1>7. Shape' /\ Collected'
  <2>1. Shape'
    BY <1>1, <1>6 DEF Shape
  <2>2. Collected'
    BY <1>1 DEF Collected
  <2> QED BY <2>1, <2>2
<1> HIDE DEF D
<1>8. CoverIsExact'
  <2> SUFFICES ASSUME NEW a \in Address
               PROVE  (\E i \in D : Contains4(routes'[i], a))
                        <=> \A i \in 1..cut : ~Contains4(protected[i], a)
    BY <1>1, <1>4 DEF CoverIsExact, Routed
  <2>1. (\E i \in D : Contains4(routes'[i], a)) <=> \E i \in D : Contains4(routes[i], a)
    BY <1>3, <1>4
  <2> QED BY <2>1 DEF CoverIsExact, Routed, D
<1>9. \A i, j \in D : i # j => ~Overlaps(routes'[i], routes'[j]) /\ ~Siblings(routes'[i], routes'[j])
  <2>1. \A i, j \in D : i # j => ~Overlaps(routes[i], routes[j]) /\ ~Siblings(routes[i], routes[j])
    BY DEF Apart, D
  <2> QED BY <1>3, <1>4, <2>1
<1>10. Apart(routes)'
    BY <1>4, <1>9 DEF Apart
<1>11. ASSUME NEW i \in D, NEW j \in D, i < j
       PROVE  Less(routes'[i].addr, routes'[j].addr)
  <2>1. i # j /\ i \in Nat /\ j \in Nat
    BY <1>5, <1>11
  <2>2. routes'[i] \in Prefix /\ routes'[j] \in Prefix
    BY <1>3, <1>4, <1>5 DEF MaskedPrefix
  <2>3. ~Overlaps(routes'[i], routes'[j])
    BY <1>9, <2>1
  <2>4. routes'[i].addr # routes'[j].addr
    BY <2>3 DEF Overlaps, Agree
  <2>5. routes'[i].addr \in Address /\ routes'[j].addr \in Address
    BY <2>2 DEF Prefix
  <2>6. ~Before(routes'[j], routes'[i])
    BY <1>2, <1>4, <1>11
  <2>7. ~Less(routes'[j].addr, routes'[i].addr)
    BY <2>6 DEF Before
  <2> QED BY <2>4, <2>5, <2>7, LessTotal
<1>12. Ordered' /\ InCut'
    BY <1>1, <1>4, <1>11 DEF Ordered, InCut
<1> QED BY <1>7, <1>8, <1>10, <1>12

------------------------------------------------------------------------------
(* The theorems *)

\* The inductive invariant holds in every state of FullTunnel.
LEMMA TunnelInvariant == Spec => []TunnelInv
<1>1. Init => TunnelInv
    BY TunnelInvInit
<1>2. TunnelInv /\ [Next]_vars => TunnelInv'
  <2> SUFFICES ASSUME TunnelInv, [Next]_vars PROVE TunnelInv'
    OBVIOUS
  <2>1. CASE UNCHANGED vars
    <3>1. /\ setup' = setup /\ pc' = pc /\ taken' = taken /\ protected' = protected /\ cut' = cut
          /\ routes' = routes /\ work' = work /\ next' = next
      BY <2>1 DEF vars
    <3> QED BY <3>1 DEF TunnelInv, Shape, Collected, CoverIsExact, Routed, Apart, InCut, Ordered
  <2>2. CASE Next
    BY <2>1, <2>2, CollectKeepsInv, BuildKeepsInv, SubtractKeepsInv, ExcludeKeepsInv,
       SortKeepsInv DEF Next, Returned
  <2> QED BY <2>1, <2>2
<1> QED BY <1>1, <1>2, PTL DEF Spec

\* IPv4RoutesExcluding: after every cut the routes cover exactly the addresses
\* outside the prefixes cut out so far.
THEOREM CoverAlwaysExact == Spec => []CoverIsExact
<1>1. TunnelInv => CoverIsExact
    BY DEF TunnelInv
<1> QED BY <1>1, TunnelInvariant, PTL

\* IPv4RoutesExcluding: the routes are masked, do not overlap and cannot be
\* merged, and what is returned is in order.
THEOREM CoverAlwaysCanonical == Spec => []CoverIsCanonical
<1>1. TunnelInv => CoverIsCanonical
  <2> SUFFICES ASSUME TunnelInv PROVE CoverIsCanonical
    OBVIOUS
  <2>1. \A i \in DOMAIN routes : routes[i] \in MaskedPrefix
    BY LenProperties, ElementOfSeq DEF TunnelInv, Shape
  <2>2. \A i \in DOMAIN routes : routes[i] \in Prefix /\ routes[i] = Masked(routes[i])
    BY <2>1 DEF MaskedPrefix
  <2> QED BY <2>2 DEF TunnelInv, Apart, Ordered, CoverIsCanonical
<1> QED BY <1>1, TunnelInvariant, PTL

\* The finished profile routes no peer traffic, no IPv4 address of the coordinator
\* or the relay and nothing of the gateway's network into the tunnel.
THEOREM NeverRecursiveRouting == Spec => []NoRecursiveRouting
<1>1. TunnelInv => NoRecursiveRouting
  <2> SUFFICES ASSUME TunnelInv, pc = "done", NEW a \in Address, Routed(a)
               PROVE  /\ ~ClassPeer(setup, a)
                      /\ a \notin Range(setup.coordinator) \cup Range(setup.relay)
                      /\ ~Contains4(setup.gateway, a)
    BY DEF NoRecursiveRouting
  <2> USE DEF TunnelInv
  <2>1. \A p \in Range(protected) : ~Contains4(p, a)
    <3>1. \A i \in 1..Len(protected) : ~Contains4(protected[i], a)
      BY DEF CoverIsExact, Collected
    <3>2. DOMAIN protected = 1..Len(protected)
      BY LenProperties DEF Shape
    <3> QED BY <3>1, <3>2 DEF Range
  <2>2. ~Contains4(setup.gateway, a)
    <3>1. Masked(setup.gateway) \in Range(protected) /\ setup.gateway \in Prefix
      BY DEF Collected, Shape
    <3> QED BY <2>1, <3>1, MaskedContains
  <2>3. ASSUME NEW p \in Prefix, NEW i \in 1..Len(Resolved(setup)), Resolved(setup)[i] = p
        PROVE  ~Contains4(p, a)
    <3>1. Masked(p) \in Range(protected)
      BY <2>3, NotIPv4Assumption DEF Collected, Is4, Prefix
    <3> QED BY <2>1, <3>1, MaskedContains
  <2>4. ~Contains4(setup.mesh, a)
    BY <2>3, ResolvedFacts DEF Shape, MaskedPrefix
  <2>5. ASSUME a \in Range(setup.coordinator) \cup Range(setup.relay)
        PROVE  FALSE
    <3> DEFINE h == [addr |-> a, bits |-> Width]
    <3>1. h \in Prefix /\ Contains4(h, a)
      BY TunnelAssumption DEF Prefix, Contains4, Agree
    <3>2. \E i \in 1..Len(Resolved(setup)) : Resolved(setup)[i] = h
      BY <2>5, ResolvedFacts
    <3> HIDE DEF h
    <3> QED BY <2>3, <3>1, <3>2
  <2> QED BY <2>2, <2>4, <2>5 DEF ClassPeer
<1> QED BY <1>1, TunnelInvariant, PTL
==============================================================================
