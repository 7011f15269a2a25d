---------------------------- MODULE MCLifecycle ----------------------------
(***************************************************************************)
(* The life of a Landscaper under failing calls, crashes and a user who    *)
(* acts at any moment, with one provider config that nobody edits.         *)
(***************************************************************************)
EXTENDS LandscaperReconciler, TLC

CONSTANTS p1, v1, v2

MCConfigValues ==
    {[exists |-> TRUE, default |-> TRUE, versions |-> Versions, ca |-> NoCA]}

\* The two versions are interchangeable.
Symmetry == Permutations({v1, v2})
=============================================================================
