----------------------------- MODULE MCLifecycle -----------------------------
(***************************************************************************)
(* Instances of Lifecycle for TLC.                                         *)
(***************************************************************************)
EXTENDS Lifecycle

MCTime == 0..MaxTime

\* Node 1 may be restarted.
MCMaxLife == [n \in Node |-> IF n = 1 THEN 2 ELSE 1]
==============================================================================
