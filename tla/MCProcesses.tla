---------------------------- MODULE MCProcesses ----------------------------
(***************************************************************************)
(* Two processes and one Landscaper, with one provider config that nobody  *)
(* edits.                                                                  *)
(***************************************************************************)
EXTENDS Processes

CONSTANTS p1, v1

MCConfigValues ==
    {[exists |-> TRUE, default |-> TRUE, versions |-> Versions, ca |-> NoCA]}
=============================================================================
