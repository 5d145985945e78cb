----------------------------- MODULE MCMeshcheck -----------------------------
(***************************************************************************)
(* An instance of Meshcheck for TLC: a relay with two addresses.           *)
(***************************************************************************)
EXTENDS Meshcheck

MCRelayIPs == <<"relay1", "relay2">>
==============================================================================
