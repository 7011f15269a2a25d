----------------------------- MODULE MCProgress -----------------------------
(***************************************************************************)
(* One Landscaper and one provider config that is missing, or has a CA     *)
(* bundle or none, and is edited once, while the user, a failing call or a *)
(* crash get in the way: of operations, edits and faults there are three.  *)
(***************************************************************************)
EXTENDS LandscaperReconciler

CONSTANTS p1, v1, ca1

MCConfigValues ==
    [exists : {TRUE}, default : {TRUE}, versions : {Versions}, ca : {NoCA, ca1}]
        \cup {[exists |-> FALSE, default |-> FALSE, versions |-> {}, ca |-> NoCA]}

\* An action constraint.
AtMostThree ==
    (MaxUserOps - userOps') + (MaxConfigEdits - configEdits')
        + (MaxFaults - faults') <= 3
=============================================================================
