------------------------ MODULE LandscaperLifecycle ------------------------
(***************************************************************************)
(* What the controller promises about one Landscaper resource, without     *)
(* queues, copies, statuses or retries: an instance and the access to its  *)
(* clusters exist only under the protection of the finalizer, access       *)
(* outlives the instance, and the resource is let go last.                 *)
(***************************************************************************)

VARIABLES
    resource,   \* "absent", "live" or "deleting"
    protected,  \* the controller's finalizer is set
    access,     \* requests that exist
    usable,     \* requests that are granted and not being deleted
    instance    \* something is installed

vars == <<resource, protected, access, usable, instance>>

Requests == {"mcp", "workload"}

TypeOK ==
    /\ resource \in {"absent", "live", "deleting"}
    /\ protected \in BOOLEAN
    /\ access \in SUBSET Requests
    /\ usable \in SUBSET access
    /\ instance \in BOOLEAN

Init ==
    /\ resource = "absent"
    /\ protected = FALSE
    /\ access = {}
    /\ usable = {}
    /\ instance = FALSE

Create ==
    /\ resource = "absent"
    /\ resource' = "live"
    /\ UNCHANGED <<protected, access, usable, instance>>

\* A live resource may also vanish at once, when nothing protects it.
RequestDeletion ==
    /\ resource = "live"
    /\ resource' \in (IF protected THEN {"deleting"} ELSE {"deleting", "absent"})
    /\ UNCHANGED <<protected, access, usable, instance>>

Protect ==
    /\ resource = "live" /\ ~protected
    /\ protected' = TRUE
    /\ UNCHANGED <<resource, access, usable, instance>>

\* The workload cluster is asked for once the MCP cluster is usable.
Acquire ==
    /\ protected
    /\ \E r \in Requests \ access :
          /\ r = "workload" => "mcp" \in usable
          /\ access' = access \cup {r}
    /\ UNCHANGED <<resource, protected, usable, instance>>

Grant ==
    /\ \E r \in access \ usable : usable' = usable \cup {r}
    /\ UNCHANGED <<resource, protected, access, instance>>

Install ==
    /\ protected /\ usable = Requests
    /\ instance' = TRUE
    /\ UNCHANGED <<resource, protected, access, usable>>

\* Only the deletion of the resource takes the instance away.
Uninstall ==
    /\ resource = "deleting" /\ instance /\ usable = Requests
    /\ instance' = FALSE
    /\ UNCHANGED <<resource, protected, access, usable>>

Release ==
    /\ resource = "deleting" /\ ~instance
    /\ access' \in SUBSET access
    /\ usable' \in SUBSET (usable \cap access')
    /\ UNCHANGED <<resource, protected, instance>>

\* Dropping the finalizer may make the resource vanish.
LetGo ==
    /\ resource = "deleting" /\ access = {} /\ ~instance
    /\ protected' = FALSE
    /\ resource' \in {"deleting", "absent"}
    /\ UNCHANGED <<access, usable, instance>>

Next ==
    \/ Create \/ RequestDeletion \/ Protect \/ Acquire \/ Grant
    \/ Install \/ Uninstall \/ Release \/ LetGo

Spec == Init /\ [][Next]_vars
=============================================================================
