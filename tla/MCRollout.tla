------------------------------ MODULE MCRollout ------------------------------
(***************************************************************************)
(* The rollout of some of the deployments: one with one replica and the    *)
(* webhooks server with two.                                               *)
(***************************************************************************)
EXTENDS Rollout
=============================================================================
