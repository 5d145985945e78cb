-------------------------------- MODULE GoMap --------------------------------
(***************************************************************************)
(* A Go map is a function whose domain is the set of keys present.  Put is *)
(* m[k] = v and Drop is delete(m, k) for every k of a set of keys; a       *)
(* delete of an absent key does nothing, as in Go.                         *)
(***************************************************************************)
EXTENDS Integers, Functions

Empty == [k \in {} |-> k]

Put(m, k, v) == [x \in DOMAIN m \cup {k} |-> IF x = k THEN v ELSE m[x]]

Drop(m, K) == Restrict(m, DOMAIN m \ K)

\* m is a map whose keys are in K and whose values are in V.
IsMap(m, K, V) == DOMAIN m \subseteq K /\ m \in [DOMAIN m -> V]
==============================================================================
