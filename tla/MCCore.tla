-------------------------------- MODULE MCCore --------------------------------
(***************************************************************************)
(* Core with interchangeable peers.                                        *)
(***************************************************************************)
EXTENDS Core, TLC

Peers == Permutations(Node \ {Self})
=============================================================================
