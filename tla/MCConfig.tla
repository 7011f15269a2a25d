------------------------------ MODULE MCConfig ------------------------------
(***************************************************************************)
(* A Landscaper while provider configs are edited: two configs, of which   *)
(* either may be the default, may name a CA bundle or may be missing.      *)
(***************************************************************************)
EXTENDS InstanceLabel, TLC

CONSTANTS p1, p2, v1, ca1

MCConfigValues ==
    {[exists |-> TRUE, default |-> TRUE, versions |-> {v1}, ca |-> NoCA],
     [exists |-> TRUE, default |-> FALSE, versions |-> {v1}, ca |-> ca1],
     [exists |-> FALSE, default |-> FALSE, versions |-> {}, ca |-> NoCA]}

\* The two configs are interchangeable.
Symmetry == Permutations({p1, p2})
=============================================================================
