---------------------------- MODULE MCCoordinator ----------------------------
(* The coordinator with few nodes and addresses and a bounded clock. *)
EXTENDS Coordinator

MCTime == 0..MaxTime
==============================================================================
