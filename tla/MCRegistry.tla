----------------------------- MODULE MCRegistry ------------------------------
(* The registry on a pool of few addresses.  Timestamps are 0..MaxTime. *)
EXTENDS Registry

CONSTANT MaxTime

MCTime == 0..MaxTime
==============================================================================
