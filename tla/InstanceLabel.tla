---------------------------- MODULE InstanceLabel ----------------------------
(***************************************************************************)
(* The instance id is a label of the Landscaper, computed once and then    *)
(* believed (internal/controller/reconcile.go, ensureInstanceID;           *)
(* internal/shared/identity/id.go).  Nothing protects a label: this module *)
(* adds a user who removes it, at any moment, to LandscaperReconciler.     *)
(* The id is a hash of namespace and name, so that the one computed again  *)
(* is the same.                                                            *)
(*                                                                         *)
(* Without the label the delete path loses the instance: it looks for      *)
(* everything in the namespace of the empty id, finds nothing, and gives   *)
(* back access and finalizer.  Against "A finalizer ensures the Service    *)
(* Provider managed resources ... are cleaned-up" (README.md), NoOrphans   *)
(* does not hold here, and is not checked of LabelSpec.                    *)
(***************************************************************************)
EXTENDS LandscaperReconciler

\* A label is metadata: its removal is no new generation.
RemoveLabel ==
    /\ UserOp
    /\ ls.exists /\ ls.id
    /\ OtherWrite([ls EXCEPT !.id = FALSE])
    /\ UNCHANGED <<requests, install, gateway, config, pc, obj, oldStatus, st,
                   cfg, res, configEdits, faults>>

LabelNext == Next \/ RemoveLabel

LabelSpec == Init /\ [][LabelNext]_vars

-----------------------------------------------------------------------------

(***************************************************************************)
(* The label comes back: whenever it is removed, during a reconciliation   *)
(* or between two, an instance that is ready and at rest carries it, in    *)
(* the stored resource and not only in the copy of a worker                *)
(* (ensureInstanceID).                                                     *)
(***************************************************************************)
LabelComesBack ==
    (/\ ls.exists /\ ~ls.deleting /\ ls.status.phase = "Ready"
     /\ pc = "idle" /\ queued # "now") => ls.id
=============================================================================
