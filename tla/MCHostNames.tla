---------------------------- MODULE MCHostNames ----------------------------
(***************************************************************************)
(* Two base domains between which the operator of the cluster moves.       *)
(***************************************************************************)
EXTENDS HostNames

CONSTANTS d1, d2
=============================================================================
