-------------------------- MODULE MCEventHandlers --------------------------
(***************************************************************************)
(* Two Landscapers with the same provider config, which lists its own pull *)
(* secret or leaves that to the ServiceProvider, with and without a CA     *)
(* bundle.                                                                 *)
(***************************************************************************)
EXTENDS EventHandlers

CONSTANTS l1, l2, p1, s1, ca1

MCSpecRef == [l \in Landscapers |-> p1]

MCConfigValues ==
    {[inherits |-> FALSE, secrets |-> {s1}, ca |-> ca1],
     [inherits |-> TRUE, secrets |-> {}, ca |-> NoCA]}

\* Two Landscapers whose config, secrets and bundle change while one is deleted
\* or cannot be annotated, and one whose controller restarts besides.
MCScenarios ==
    ({{l1, l2}} \X {{"contents", "deletion"}, {"contents", "refusal"},
                    {"contents", "lookup"}, {"contents", "provider"},
                    {"config", "deletion"}, {"config", "refusal"},
                    {"config", "worker"}})
        \cup
    ({{l1}} \X {{"contents", "lookup", "restart"},
                {"config", "contents"}})
=============================================================================
