------------------------ MODULE LandscaperReconciler ------------------------
(***************************************************************************)
(* The reconciliation of one Landscaper resource                           *)
(* (internal/controller/reconcile.go, landscaper_controller.go): the       *)
(* controller's worker, which takes the key from the work queue and runs   *)
(* reconcile() one API call at a time, next to everything that may happen  *)
(* between two of those calls: the user who creates, edits, annotates and  *)
(* deletes the resource, the platform operator who edits provider configs, *)
(* the watch on provider configs, the cluster access controllers, the      *)
(* gateway, the rollout of the deployments, failing calls and crashes.     *)
(*                                                                         *)
(* The API server's optimistic lock is the variable fresh: it is TRUE as   *)
(* long as the resourceVersion of the worker's copy obj is the stored one. *)
(* The key of the resource is handled by one worker, and reads go to the   *)
(* API server directly (the clients have no cache); what is delayed are    *)
(* the events, which only put the key into the queue.                      *)
(***************************************************************************)
EXTENDS Integers, FiniteSets, ReconcileStatus

CONSTANTS
    Versions,             \* versions a user can ask for
    ProviderConfigNames,  \* names of ProviderConfig resources
    CABundles,            \* names of CA bundle ConfigMaps
    NoRef,                \* a nil provider config reference
    NoCA,                 \* a nil CA bundle reference
    ConfigValues,         \* contents an operator gives to a ProviderConfig
    ForeignFinalizers,    \* whether a new resource has a foreign finalizer
    MaxUserOps,           \* bound on the operations of the user
    MaxConfigEdits,       \* bound on the operator's edits
    MaxFaults             \* bound on failing calls, crashes and outages

ConfigContents ==
    [exists : BOOLEAN, default : BOOLEAN, versions : SUBSET Versions,
     ca : CABundles \cup {NoCA}]

ASSUME ConstantsAssumption ==
    /\ Versions \cap {"absent", "mixed", "present"} = {}
    /\ NoRef \notin ProviderConfigNames
    /\ NoCA \notin CABundles
    /\ ConfigValues \subseteq ConfigContents
    /\ ForeignFinalizers \subseteq BOOLEAN
    /\ MaxUserOps \in Nat /\ MaxConfigEdits \in Nat /\ MaxFaults \in Nat

VARIABLES
    ls,               \* the Landscaper resource on the onboarding cluster
    queued,           \* its key: "now" in the work queue (an event, or an error
                      \* to retry), due after a "timer", or "no"
    requests,         \* the access requests on the platform cluster
    components,       \* what is installed of each component
    rolledOut,        \* the deployments pass the readiness check
    route,            \* the TLSRoute on the workload cluster
    caCopies,         \* CA bundle copies on the workload cluster
    applied,          \* provider config of the last complete installation
    gateway,          \* the default gateway: "absent", "ready", or "unnamed"
                      \* (without the annotation with its base domain)
    providerConfigs,  \* the ProviderConfig resources
    configEvents,     \* provider configs with an undelivered watch event
    pc,               \* the worker's position in reconcile()
    obj,              \* ... its copy of the resource
    oldStatus,        \* ... the status it found
    st,               \* ... the status it is building up
    cfg,              \* ... the provider config it read
    fresh,            \* ... obj has the stored resourceVersion
    res,              \* ... the result it is going to return
    userOps, configEdits, faults   \* what is left of the bounds

local   == <<pc, obj, oldStatus, st, cfg, fresh, res>>
install == <<components, rolledOut, route, caCopies, applied>>
config  == <<providerConfigs, configEvents>>
bounds  == <<userOps, configEdits, faults>>
vars    == <<ls, queued, requests, install, gateway, config, local, bounds>>

-----------------------------------------------------------------------------
(* State space.                                                            *)

Components == {"rbac", "manifest", "helm", "landscaper"}

Requests == {"mcp", "workload"}

ConfigRefs == ProviderConfigNames \cup {NoRef}

LandscaperStatuses ==
    [installed : Conditions, ready : Conditions, uninstalled : Conditions,
     observedGeneration : Nat, phase : Phases, ref : ConfigRefs]

EmptyStatus ==
    [installed |-> NoCondition, ready |-> NoCondition,
     uninstalled |-> NoCondition, observedGeneration |-> 0, phase |-> "",
     ref |-> NoRef]

(***************************************************************************)
(* deleting: a deletion timestamp is set; finalizer: the controller's      *)
(* finalizer; foreign: a finalizer of somebody else; annotated: the        *)
(* operation annotation asks for a reconcile; id: the instance id label.   *)
(***************************************************************************)
Landscapers ==
    [exists : BOOLEAN, deleting : BOOLEAN, finalizer : BOOLEAN,
     foreign : BOOLEAN, annotated : BOOLEAN, id : BOOLEAN,
     version : Versions \cup {"absent"}, ref : ConfigRefs,
     generation : Nat, status : LandscaperStatuses]

NoLandscaper ==
    [exists |-> FALSE, deleting |-> FALSE, finalizer |-> FALSE,
     foreign |-> FALSE, annotated |-> FALSE, id |-> FALSE,
     version |-> "absent", ref |-> NoRef, generation |-> 0,
     status |-> EmptyStatus]

ReadConfigs ==
    [name : ConfigRefs, versions : SUBSET Versions, ca : CABundles \cup {NoCA}]

NoConfig == [name |-> NoRef, versions |-> {}, ca |-> NoCA]

(***************************************************************************)
(* What the installation of a component leaves on the clusters: the RBAC   *)
(* part is a namespace on the MCP cluster, the others depend on the        *)
(* version.  An interrupted installation or uninstallation is "mixed".     *)
(***************************************************************************)
Target(c, version) == IF c = "rbac" THEN "present" ELSE version

CreateSteps ==
    {"ensureFinalizer", "checkReconcileAnnotation", "ensureInstanceID",
     "getProviderConfig", "recordProviderConfig", "clusterAccess",
     "reconcileGateway", "createConfig", "syncCA", "installRBAC",
     "installManifest", "installHelm", "installLandscaper",
     "reconcileTLSRoute", "isTLSRouteReady", "checkReadiness"}

DeleteSteps ==
    {"getProviderConfigD", "recordProviderConfigD", "accessInDeletion",
     "clusterAccessD", "createConfigD", "deleteTLSRoute", "deleteCA",
     "uninstallLandscaper", "uninstallHelm", "uninstallManifest",
     "uninstallRBAC", "reconcileDelete", "removeFinalizer"}

Steps == CreateSteps \cup DeleteSteps \cup {"idle", "finish"}

TypeOK ==
    /\ ls \in Landscapers
    /\ queued \in {"no", "timer", "now"}
    /\ requests \in [Requests -> {"absent", "pending", "granted", "deleting"}]
    /\ components \in
           [Components -> Versions \cup {"absent", "mixed", "present"}]
    /\ rolledOut \in BOOLEAN
    /\ route \in {"absent", "created", "accepted"}
    /\ caCopies \in SUBSET CABundles
    /\ applied \in ReadConfigs
    /\ gateway \in {"absent", "unnamed", "ready"}
    /\ providerConfigs \in [ProviderConfigNames -> ConfigContents]
    /\ configEvents \in SUBSET ProviderConfigNames
    /\ pc \in Steps
    /\ obj \in Landscapers
    /\ oldStatus \in LandscaperStatuses
    /\ st \in ReconcileStatuses
    /\ cfg \in ReadConfigs
    /\ fresh \in BOOLEAN
    /\ res \in {"done", "requeue", "error"}
    /\ userOps \in Nat /\ configEdits \in Nat /\ faults \in Nat

-----------------------------------------------------------------------------
(* The ways a step of the worker continues.                                *)

Goto(step) == pc' = step /\ UNCHANGED <<oldStatus, st, cfg, res>>

\* The handler returns; reconcile() goes on to write the status.
Return(status, result) ==
    /\ pc' = "finish"
    /\ st' = status
    /\ res' = result
    /\ UNCHANGED <<oldStatus, cfg>>

Rest ==
    /\ pc' = "idle"
    /\ obj' = NoLandscaper
    /\ oldStatus' = EmptyStatus
    /\ st' = newCreateOrUpdateStatus(0)
    /\ cfg' = NoConfig
    /\ fresh' = FALSE
    /\ res' = "done"

(***************************************************************************)
(* A write to the stored resource, by the worker (whose copy is replaced   *)
(* by the response) and by anybody else.  The watch has no predicate, so   *)
(* every write puts the key into the queue.                                *)
(***************************************************************************)
OwnWrite(new) ==
    /\ ls' = new
    /\ obj' = new
    /\ fresh' = TRUE
    /\ queued' = "now"

OtherWrite(new) ==
    /\ ls' = new
    /\ fresh' = FALSE
    /\ queued' = "now"

-----------------------------------------------------------------------------
(* reconcile(): the worker takes the key and reads the resource.           *)

\* Mutant: the delete path is only taken while the finalizer is set.
IsDeletion_WithFinalizer(o) == o.deleting /\ o.finalizer

IsDeletion(o) == o.deleting

Get ==
    /\ pc = "idle" /\ queued # "no"
    /\ queued' = "no"
    /\ \/ /\ ~ls.exists
          /\ UNCHANGED local
       \/ /\ ls.exists
          /\ obj' = ls
          /\ oldStatus' = ls.status
          /\ fresh' = TRUE
          /\ \/ /\ ~IsDeletion(ls)
                /\ pc' = "ensureFinalizer"
                /\ st' = newCreateOrUpdateStatus(ls.generation)
             \/ /\ IsDeletion(ls)
                /\ pc' = "getProviderConfigD"
                /\ st' = newDeleteStatus(ls.generation)
          /\ UNCHANGED <<cfg, res>>
    /\ UNCHANGED <<ls, requests, install, gateway, config, bounds>>

(***************************************************************************)
(* The end of reconcile(): the status is written if it differs from the    *)
(* one found.  A missing resource is not an error; a conflict is, and an   *)
(* error or a RequeueAfter brings the key back into the queue.             *)
(***************************************************************************)
Finish ==
    /\ pc = "finish"
    /\ LET new == convertToLandscaperStatus(st, obj.status)
       IN  \/ /\ new # oldStatus /\ ls.exists /\ fresh
             /\ ls' = [obj EXCEPT !.status = new]
             /\ queued' = "now"
          \/ /\ new # oldStatus /\ ls.exists /\ ~fresh
             /\ queued' = "now"
             /\ UNCHANGED ls
          \/ /\ new = oldStatus \/ ~ls.exists
             /\ queued' = IF queued = "now" \/ res = "error" THEN "now"
                         ELSE IF res = "requeue" THEN "timer" ELSE queued
             /\ UNCHANGED ls
    /\ Rest
    /\ UNCHANGED <<requests, install, gateway, config, bounds>>

-----------------------------------------------------------------------------
(* handleCreateUpdateOperation, call by call.                              *)

EnsureFinalizer ==
    /\ pc = "ensureFinalizer"
    /\ \/ /\ obj.finalizer \/ obj.deleting
          /\ Goto("checkReconcileAnnotation")
          /\ UNCHANGED <<ls, queued, obj, fresh>>
       \/ /\ ~obj.finalizer /\ ~obj.deleting /\ fresh
          /\ OwnWrite([obj EXCEPT !.finalizer = TRUE])
          /\ Goto("checkReconcileAnnotation")
       \/ /\ ~obj.finalizer /\ ~obj.deleting /\ ~fresh
          /\ Return(st, "error")
          /\ UNCHANGED <<ls, queued, obj, fresh>>
    /\ UNCHANGED <<requests, install, gateway, config, bounds>>

(***************************************************************************)
(* The annotation is removed with a merge patch, which does not carry a    *)
(* resourceVersion: it succeeds on whatever is stored, and the response    *)
(* replaces the worker's copy.  The generation that the status reports     *)
(* stays the one read by Get.                                              *)
(***************************************************************************)
CheckReconcileAnnotation ==
    /\ pc = "checkReconcileAnnotation"
    /\ \/ /\ ~obj.annotated
          /\ Goto("ensureInstanceID")
          /\ UNCHANGED <<ls, queued, obj, fresh>>
       \/ /\ obj.annotated /\ ls.exists
          /\ OwnWrite([ls EXCEPT !.annotated = FALSE])
          /\ Goto("ensureInstanceID")
       \/ /\ obj.annotated /\ ~ls.exists
          /\ Return(st, "error")
          /\ UNCHANGED <<ls, queued, obj, fresh>>
    /\ UNCHANGED <<requests, install, gateway, config, bounds>>

\* Mutant: the instance id is set in the worker's copy and not written.
StoreInstanceID_LocalOnly ==
    /\ obj' = [obj EXCEPT !.id = TRUE]
    /\ UNCHANGED <<ls, queued, fresh>>

StoreInstanceID == OwnWrite([obj EXCEPT !.id = TRUE])

EnsureInstanceID ==
    /\ pc = "ensureInstanceID"
    /\ \/ /\ obj.id
          /\ Goto("getProviderConfig")
          /\ UNCHANGED <<ls, queued, obj, fresh>>
       \/ /\ ~obj.id /\ fresh
          /\ StoreInstanceID
          /\ Goto("getProviderConfig")
       \/ /\ ~obj.id /\ ~fresh
          /\ Return(st, "error")
          /\ UNCHANGED <<ls, queued, obj, fresh>>
    /\ UNCHANGED <<requests, install, gateway, config, bounds>>

(***************************************************************************)
(* getProviderConfigForLandscaper, on both paths: the reference in the     *)
(* spec, else the one in the status, else one of the default configs (the  *)
(* code takes the first of the list).                                      *)
(***************************************************************************)
ConfigCandidates(o) ==
    IF o.ref # NoRef THEN {o.ref}
    ELSE IF o.status.ref # NoRef THEN {o.status.ref}
    ELSE {p \in ProviderConfigNames :
              providerConfigs[p].exists /\ providerConfigs[p].default}

ReadConfig(p) ==
    [name |-> p, versions |-> providerConfigs[p].versions,
     ca |-> providerConfigs[p].ca]

GetProviderConfig(at, next, failed) ==
    /\ pc = at
    /\ \/ \E p \in ConfigCandidates(obj) :
             /\ providerConfigs[p].exists
             /\ cfg' = ReadConfig(p)
             /\ pc' = next
             /\ UNCHANGED <<oldStatus, st, res>>
       \/ /\ ~ \E p \in ConfigCandidates(obj) : providerConfigs[p].exists
          /\ Return(failed, "error")
    /\ UNCHANGED <<ls, queued, obj, fresh, requests, install, gateway, config,
                   bounds>>

\* The reference is recorded in the status before the config is used.  The
\* create path also checks that the config offers the version.
RecordProviderConfig(at, next, failed, accepted) ==
    /\ pc = at
    /\ LET new == [obj EXCEPT !.status.ref = cfg.name]
       IN  \/ /\ obj.status.ref # cfg.name /\ ls.exists /\ fresh
             /\ OwnWrite(new)
             /\ IF accepted THEN Goto(next)
                              ELSE Return(failed, "error")
          \/ /\ obj.status.ref # cfg.name /\ ls.exists /\ ~fresh
             /\ obj' = new
             /\ Return(failed, "error")
             /\ UNCHANGED <<ls, queued, fresh>>
          \/ /\ obj.status.ref = cfg.name \/ ~ls.exists
             /\ obj' = new
             /\ IF accepted THEN Goto(next)
                              ELSE Return(failed, "error")
             /\ UNCHANGED <<ls, queued, fresh>>
    /\ UNCHANGED <<requests, install, gateway, config, bounds>>

IsVersionAvailable == obj.version \in cfg.versions

(***************************************************************************)
(* ClusterAccessReconciler.Reconcile (openmcp-operator library), on both   *)
(* paths: it creates the request for the MCP cluster, waits for its grant, *)
(* then does the same for the workload cluster.  With both granted the     *)
(* worker gets its clients for the two clusters.                           *)
(***************************************************************************)
\* Mutant: the RequeueAfter of the cluster access is not passed on.
WaitForAccess_NoRequeue(waiting) == Return(waiting, "done")

WaitForAccess(waiting) == Return(waiting, "requeue")

AccessGranted == \A r \in Requests : requests[r] = "granted"

ClusterAccess(at, next, waiting) ==
    /\ pc = at
    /\ \/ /\ AccessGranted
          /\ Goto(next)
          /\ UNCHANGED requests
       \/ /\ ~AccessGranted
          /\ LET r == IF requests["mcp"] = "granted" THEN "workload" ELSE "mcp"
             IN  requests' = [requests EXCEPT ![r] =
                                 IF @ = "absent" THEN "pending" ELSE @]
          /\ WaitForAccess(waiting)
    /\ UNCHANGED <<ls, queued, obj, fresh, install, gateway, config, bounds>>

\* Mutant: the RequeueAfter of the gateway is not passed on.
WaitForGateway_NoRequeue == Return(setInstallWaitForDNSReady(st), "done")

WaitForGateway == Return(setInstallWaitForDNSReady(st), "requeue")

\* Without the default gateway the handler waits; without a base domain it fails.
ReconcileGateway ==
    /\ pc = "reconcileGateway"
    /\ \/ gateway = "ready" /\ Goto("createConfig")
       \/ gateway = "absent" /\ WaitForGateway
       \/ gateway = "unnamed" /\ Return(setInstallDNSConfigFailed(st), "error")
    /\ UNCHANGED <<ls, queued, obj, fresh, requests, install, gateway, config,
                   bounds>>

\* Reads the ServiceProvider; the configuration itself is obj and cfg.
CreateConfig(at, next) ==
    /\ pc = at
    /\ Goto(next)
    /\ UNCHANGED <<ls, queued, obj, fresh, requests, install, gateway, config,
                   bounds>>

SyncCA ==
    /\ pc = "syncCA"
    /\ caCopies' = IF cfg.ca = NoCA THEN caCopies ELSE caCopies \cup {cfg.ca}
    /\ Goto("installRBAC")
    /\ UNCHANGED <<ls, queued, obj, fresh, requests, components, rolledOut,
                   route, applied, gateway, config, bounds>>

(***************************************************************************)
(* One component of InstallLandscaperInstance, which installs them in this *)
(* order.  A changed deployment is no longer rolled out.                   *)
(***************************************************************************)
Install(at, c, next) ==
    /\ pc = at
    /\ components' = [components EXCEPT ![c] = Target(c, obj.version)]
    /\ rolledOut' = (rolledOut /\ components[c] = Target(c, obj.version))
    /\ applied' = IF c = "landscaper" THEN cfg ELSE applied
    /\ Goto(next)
    /\ UNCHANGED <<ls, queued, obj, fresh, requests, route, caCopies, gateway,
                   config, bounds>>

\* Mutant: the Helm deployer is installed before the manifest deployer.
InstallLandscaperInstance_HelmFirst ==
    \/ Install("installRBAC", "rbac", "installHelm")
    \/ Install("installHelm", "helm", "installManifest")
    \/ Install("installManifest", "manifest", "installLandscaper")
    \/ Install("installLandscaper", "landscaper", "reconcileTLSRoute")

InstallLandscaperInstance ==
    \/ Install("installRBAC", "rbac", "installManifest")
    \/ Install("installManifest", "manifest", "installHelm")
    \/ Install("installHelm", "helm", "installLandscaper")
    \/ Install("installLandscaper", "landscaper", "reconcileTLSRoute")

\* The gateway is read a second time; here its absence is an error.
ReconcileTLSRoute ==
    /\ pc = "reconcileTLSRoute"
    /\ \/ /\ gateway = "ready"
          /\ route' = IF route = "absent" THEN "created" ELSE route
          /\ pc' = "isTLSRouteReady"
          /\ st' = setInstalled(st)
          /\ UNCHANGED <<oldStatus, cfg, res>>
       \/ /\ gateway # "ready"
          /\ Return(setInstallDNSConfigFailed(st), "error")
          /\ UNCHANGED route
    /\ UNCHANGED <<ls, queued, obj, fresh, requests, components, rolledOut,
                   caCopies, applied, gateway, config, bounds>>

IsTLSRouteReady ==
    /\ pc = "isTLSRouteReady"
    /\ IF route = "accepted" THEN Goto("checkReadiness")
       ELSE Return(setInstallWaitForDNSReady(st), "requeue")
    /\ UNCHANGED <<ls, queued, obj, fresh, requests, install, gateway, config,
                   bounds>>

\* Mutant: a ready instance is not looked at again.
InstanceReady_NoRequeue == Return(setReady(st), "done")

\* A ready instance is looked at again after ten minutes.
InstanceReady == Return(setReady(st), "requeue")

CheckReadiness ==
    /\ pc = "checkReadiness"
    /\ IF rolledOut THEN InstanceReady
       ELSE Return(setWaitForReadinessCheck(st), "requeue")
    /\ UNCHANGED <<ls, queued, obj, fresh, requests, install, gateway, config,
                   bounds>>

CreateOrUpdate ==
    \/ EnsureFinalizer
    \/ CheckReconcileAnnotation
    \/ EnsureInstanceID
    \/ GetProviderConfig("getProviderConfig", "recordProviderConfig",
                         setInstallProviderConfigError(st))
    \/ RecordProviderConfig("recordProviderConfig", "clusterAccess",
                            setInstallProviderConfigError(st),
                            IsVersionAvailable)
    \/ ClusterAccess("clusterAccess", "reconcileGateway",
                     setInstallWaitForClusterAccessReady(st))
    \/ ReconcileGateway
    \/ CreateConfig("createConfig", "syncCA")
    \/ SyncCA
    \/ InstallLandscaperInstance
    \/ ReconcileTLSRoute
    \/ IsTLSRouteReady
    \/ CheckReadiness

-----------------------------------------------------------------------------
(* handleDeleteOperation, call by call.                                    *)

\* Mutant: a missing request is not taken for a deleted one.
areAccessRequestsInDeletion_OnlyTimestamps ==
    \E r \in Requests : requests[r] = "deleting"

\* "deleted or has a deletion timestamp": a missing request counts.
areAccessRequestsInDeletion ==
    \E r \in Requests : requests[r] \in {"absent", "deleting"}

AccessInDeletion ==
    /\ pc = "accessInDeletion"
    /\ IF areAccessRequestsInDeletion THEN Goto("reconcileDelete")
                                      ELSE Goto("clusterAccessD")
    /\ UNCHANGED <<ls, queued, obj, fresh, requests, install, gateway, config,
                   bounds>>

\* Everything is looked up in the namespace of the instance id that the
\* worker's copy carries; in another namespace there is nothing to delete.
DeleteTLSRoute ==
    /\ pc = "deleteTLSRoute"
    /\ route' = IF obj.id THEN "absent" ELSE route
    /\ Goto("deleteCA")
    /\ UNCHANGED <<ls, queued, obj, fresh, requests, components, rolledOut,
                   caCopies, applied, gateway, config, bounds>>

DeleteCA ==
    /\ pc = "deleteCA"
    /\ caCopies' = IF obj.id THEN caCopies \ {cfg.ca} ELSE caCopies
    /\ Goto("uninstallLandscaper")
    /\ UNCHANGED <<ls, queued, obj, fresh, requests, components, rolledOut,
                   route, applied, gateway, config, bounds>>

Uninstall(at, c, next) ==
    /\ pc = at
    /\ components' = IF obj.id THEN [components EXCEPT ![c] = "absent"]
                     ELSE components
    /\ rolledOut' = FALSE
    /\ pc' = next
    /\ st' = IF next = "reconcileDelete" THEN setUninstalled(st) ELSE st
    /\ applied' = NoConfig
    /\ UNCHANGED <<ls, queued, obj, oldStatus, cfg, fresh, res, requests,
                   route, caCopies, gateway, config, bounds>>

UninstallLandscaperInstance ==
    \/ Uninstall("uninstallLandscaper", "landscaper", "uninstallHelm")
    \/ Uninstall("uninstallHelm", "helm", "uninstallManifest")
    \/ Uninstall("uninstallManifest", "manifest", "uninstallRBAC")
    \/ Uninstall("uninstallRBAC", "rbac", "reconcileDelete")

\* Mutants: the check of RequeueAfter is missing, and the finalizer goes while
\* requests still exist; the RequeueAfter of the deletion is not passed on.
WaitForRelease_Ignored == Goto("removeFinalizer")

WaitForRelease_NoRequeue == Return(st, "done")

RequestsGone == \A r \in Requests : requests[r] = "absent"

WaitForRelease == Return(st, "requeue")

(***************************************************************************)
(* ClusterAccessReconciler.ReconcileDelete (openmcp-operator library):     *)
(* deletes the requests that still exist, and asks to be called again      *)
(* until none is left.                                                     *)
(***************************************************************************)
ReconcileDelete ==
    /\ pc = "reconcileDelete"
    /\ \/ /\ RequestsGone
          /\ Goto("removeFinalizer")
          /\ UNCHANGED requests
       \/ /\ ~RequestsGone
          /\ requests' = [r \in Requests |->
                 IF requests[r] = "absent" THEN "absent" ELSE "deleting"]
          /\ WaitForRelease
    /\ UNCHANGED <<ls, queued, obj, fresh, install, gateway, config, bounds>>

\* A resource that is being deleted vanishes with its last finalizer.
RemoveFinalizer ==
    /\ pc = "removeFinalizer"
    /\ \/ /\ ~obj.finalizer
          /\ Return(st, "done")
          /\ UNCHANGED <<ls, queued, obj, fresh>>
       \/ /\ obj.finalizer /\ fresh
          /\ obj' = [obj EXCEPT !.finalizer = FALSE]
          /\ ls' = IF obj.foreign THEN [obj EXCEPT !.finalizer = FALSE]
                   ELSE NoLandscaper
          /\ fresh' = obj.foreign
          /\ queued' = "now"
          /\ Return(st, "done")
       \/ /\ obj.finalizer /\ ~fresh
          /\ Return(st, "error")
          /\ UNCHANGED <<ls, queued, obj, fresh>>
    /\ UNCHANGED <<requests, install, gateway, config, bounds>>

Delete ==
    \/ GetProviderConfig("getProviderConfigD", "recordProviderConfigD",
                         setUninstallProviderConfigError(st))
    \/ RecordProviderConfig("recordProviderConfigD", "accessInDeletion",
                            setUninstallProviderConfigError(st), TRUE)
    \/ AccessInDeletion
    \/ ClusterAccess("clusterAccessD", "createConfigD",
                     setUninstallWaitForClusterAccessReady(st))
    \/ CreateConfig("createConfigD", "deleteTLSRoute")
    \/ DeleteTLSRoute
    \/ DeleteCA
    \/ UninstallLandscaperInstance
    \/ ReconcileDelete
    \/ RemoveFinalizer

Reconcile == Get \/ CreateOrUpdate \/ Delete \/ Finish

-----------------------------------------------------------------------------
(* Failing calls and crashes.                                              *)

\* What each call of the handlers records in the status when it fails.
FailureStatus ==
    CASE pc \in {"getProviderConfig", "recordProviderConfig"} ->
             setInstallProviderConfigError(st)
      [] pc = "clusterAccess" -> setInstallClusterAccessError(st)
      [] pc \in {"reconcileGateway", "reconcileTLSRoute", "isTLSRouteReady"} ->
             setInstallDNSConfigFailed(st)
      [] pc = "createConfig" -> setInstallConfigurationError(st)
      [] pc \in {"getProviderConfigD", "recordProviderConfigD"} ->
             setUninstallProviderConfigError(st)
      [] pc \in {"accessInDeletion", "clusterAccessD", "reconcileDelete"} ->
             setUninstallClusterAccessError(st)
      [] pc = "createConfigD" -> setUninstallConfigurationError(st)
      [] pc = "deleteTLSRoute" -> SetUninstallDNSConfigFailed(st)
      [] OTHER -> st

\* These steps find nothing to write or to copy, and make no call.
MakesNoCall ==
    \/ pc = "ensureFinalizer" /\ (obj.finalizer \/ obj.deleting)
    \/ pc = "checkReconcileAnnotation" /\ ~obj.annotated
    \/ pc = "ensureInstanceID" /\ obj.id
    \/ pc \in {"recordProviderConfig", "recordProviderConfigD"}
       /\ obj.status.ref = cfg.name
    \/ pc \in {"syncCA", "deleteCA"} /\ cfg.ca = NoCA
    \/ pc = "removeFinalizer" /\ ~obj.finalizer

\* A reference that could not be recorded stays in the worker's copy.
KeptCopy ==
    IF pc \in {"recordProviderConfig", "recordProviderConfigD"}
    THEN [obj EXCEPT !.status.ref = cfg.name] ELSE obj

\* The call returns an error and has no effect.  CheckReadiness reports an
\* error as "not ready"; the installers are below.
CallFails ==
    /\ faults > 0
    /\ faults' = faults - 1
    /\ pc \in {"ensureFinalizer", "checkReconcileAnnotation",
               "ensureInstanceID", "getProviderConfig", "recordProviderConfig",
               "clusterAccess", "reconcileGateway", "createConfig", "syncCA",
               "reconcileTLSRoute", "isTLSRouteReady", "getProviderConfigD",
               "recordProviderConfigD", "accessInDeletion", "clusterAccessD",
               "createConfigD", "deleteTLSRoute", "deleteCA",
               "reconcileDelete", "removeFinalizer"}
    /\ ~MakesNoCall
    /\ obj' = KeptCopy
    /\ Return(FailureStatus, "error")
    /\ UNCHANGED <<ls, queued, fresh, requests, install, gateway, config,
                   userOps, configEdits>>

\* Mutants: the error of a component is swallowed, and the handler goes on.
InstallError_Swallowed == Goto("reconcileTLSRoute")

UninstallError_Swallowed == Goto("reconcileDelete")

InstallError == Return(setInstallFailed(st), "error")

UninstallError == Return(setUninstallFailed(st), "error")

(***************************************************************************)
(* An installer stops at its first error, with some of the component's     *)
(* resources written.  Where they already had the wanted contents, that    *)
(* makes no difference.                                                    *)
(***************************************************************************)
InstallFails(at, c) ==
    /\ faults > 0
    /\ faults' = faults - 1
    /\ pc = at
    /\ \E left \in {components[c],
                    IF components[c] = Target(c, obj.version)
                        THEN components[c] ELSE "mixed"} :
          /\ components' = [components EXCEPT ![c] = left]
          /\ rolledOut' = (rolledOut /\ left = components[c])
    /\ InstallError
    /\ UNCHANGED <<ls, queued, obj, fresh, requests, route, caCopies, applied,
                   gateway, config, userOps, configEdits>>

UninstallFails(at, c) ==
    /\ faults > 0
    /\ faults' = faults - 1
    /\ pc = at
    /\ components' = IF obj.id /\ components[c] # "absent"
                     THEN [components EXCEPT ![c] = "mixed"] ELSE components
    /\ rolledOut' = FALSE
    /\ UninstallError
    /\ UNCHANGED <<ls, queued, obj, fresh, requests, route, caCopies, applied,
                   gateway, config, userOps, configEdits>>

InstallerFails ==
    \/ InstallFails("installRBAC", "rbac")
    \/ InstallFails("installManifest", "manifest")
    \/ InstallFails("installHelm", "helm")
    \/ InstallFails("installLandscaper", "landscaper")
    \/ UninstallFails("uninstallLandscaper", "landscaper")
    \/ UninstallFails("uninstallHelm", "helm")
    \/ UninstallFails("uninstallManifest", "manifest")
    \/ UninstallFails("uninstallRBAC", "rbac")

\* ReconcileDelete fails after it has deleted one of the requests.
ReconcileDeleteFails ==
    /\ faults > 0
    /\ faults' = faults - 1
    /\ pc = "reconcileDelete"
    /\ \E r \in Requests :
          /\ requests[r] # "absent"
          /\ requests' = [requests EXCEPT ![r] = "deleting"]
    /\ Return(FailureStatus, "error")
    /\ UNCHANGED <<ls, queued, obj, fresh, install, gateway, config, userOps,
                   configEdits>>

\* The handler of the watch cannot list or annotate: the event is dropped.
HandlerFails ==
    /\ faults > 0
    /\ faults' = faults - 1
    /\ \E p \in configEvents : configEvents' = configEvents \ {p}
    /\ UNCHANGED <<ls, queued, requests, install, gateway, providerConfigs,
                   local, userOps, configEdits>>

\* The process stops between two calls.  Its successor lists the existing
\* resources, provider configs included, and so gets an event for each.
Crash ==
    /\ faults > 0
    /\ faults' = faults - 1
    /\ pc # "idle"
    /\ Rest
    /\ queued' = IF ls.exists THEN "now" ELSE "no"
    /\ configEvents' = {p \in ProviderConfigNames : providerConfigs[p].exists}
    /\ UNCHANGED <<ls, requests, install, gateway, providerConfigs, userOps,
                   configEdits>>

\* The gateway or its annotation goes away, or the deployments stop being ready.
Outage ==
    /\ faults > 0
    /\ faults' = faults - 1
    /\ \/ /\ gateway = "ready"
          /\ gateway' \in {"absent", "unnamed"}
          /\ UNCHANGED rolledOut
       \/ rolledOut /\ rolledOut' = FALSE /\ UNCHANGED gateway
    /\ UNCHANGED <<ls, queued, requests, components, route, caCopies, applied,
                   config, local, userOps, configEdits>>

Fault ==
    \/ CallFails \/ InstallerFails \/ ReconcileDeleteFails
    \/ HandlerFails \/ Crash \/ Outage

-----------------------------------------------------------------------------
(* The user of the onboarding cluster.                                     *)

UserOp == userOps > 0 /\ userOps' = userOps - 1

Create ==
    /\ UserOp
    /\ ~ls.exists
    /\ \E v \in Versions, p \in ConfigRefs, f \in ForeignFinalizers :
          OtherWrite([NoLandscaper EXCEPT !.exists = TRUE, !.version = v,
                          !.ref = p, !.foreign = f, !.generation = 1])
    /\ UNCHANGED <<requests, install, gateway, config, pc, obj, oldStatus, st,
                   cfg, res, configEdits, faults>>

Edit ==
    /\ UserOp
    /\ ls.exists
    /\ \E v \in Versions, p \in ConfigRefs :
          /\ <<v, p>> # <<ls.version, ls.ref>>
          /\ OtherWrite([ls EXCEPT !.version = v, !.ref = p,
                                   !.generation = @ + 1])
    /\ UNCHANGED <<requests, install, gateway, config, pc, obj, oldStatus, st,
                   cfg, res, configEdits, faults>>

Annotate ==
    /\ UserOp
    /\ ls.exists /\ ~ls.annotated
    /\ OtherWrite([ls EXCEPT !.annotated = TRUE])
    /\ UNCHANGED <<requests, install, gateway, config, pc, obj, oldStatus, st,
                   cfg, res, configEdits, faults>>

\* With a finalizer left, deleting only sets the deletion timestamp, which
\* is a new generation.
RequestDeletion ==
    /\ UserOp
    /\ ls.exists /\ ~ls.deleting
    /\ IF ls.finalizer \/ ls.foreign
       THEN OtherWrite([ls EXCEPT !.deleting = TRUE, !.generation = @ + 1])
       ELSE OtherWrite(NoLandscaper)
    /\ UNCHANGED <<requests, install, gateway, config, pc, obj, oldStatus, st,
                   cfg, res, configEdits, faults>>

User == Create \/ Edit \/ Annotate \/ RequestDeletion

-----------------------------------------------------------------------------
(* The rest of the environment.                                            *)

\* The owner of the other finalizer removes it after the deletion.
ReleaseForeign ==
    /\ ls.exists /\ ls.deleting /\ ls.foreign
    /\ IF ls.finalizer THEN OtherWrite([ls EXCEPT !.foreign = FALSE])
                       ELSE OtherWrite(NoLandscaper)
    /\ UNCHANGED <<requests, install, gateway, config, pc, obj, oldStatus, st,
                   cfg, res, bounds>>

\* The operator of the platform creates, changes, deletes a provider config.
\* The watch drops updates that leave the generation (the spec) alone.
EditProviderConfig ==
    /\ configEdits > 0
    /\ configEdits' = configEdits - 1
    /\ \E p \in ProviderConfigNames, v \in ConfigValues :
          /\ v # providerConfigs[p]
          /\ providerConfigs' = [providerConfigs EXCEPT ![p] = v]
          /\ configEvents' =
                 IF v = [providerConfigs[p] EXCEPT !.default = v.default]
                 THEN configEvents ELSE configEvents \cup {p}
    /\ UNCHANGED <<ls, queued, requests, install, gateway, local, userOps,
                   faults>>

\* Mutant: the config is compared with the reference in the spec.
IsUserOf_Spec(o, p) == o.ref = p

IsUserOf(o, p) == o.status.ref = p

\* The handler of the watch annotates the resources whose status refers to
\* the config; the annotation's own event puts the key into the queue.
mapProviderConfigToRequests(p) ==
    /\ p \in configEvents
    /\ configEvents' = configEvents \ {p}
    /\ IF ls.exists /\ IsUserOf(ls, p) /\ ~ls.annotated
       THEN OtherWrite([ls EXCEPT !.annotated = TRUE])
       ELSE UNCHANGED <<ls, fresh, queued>>
    /\ UNCHANGED <<requests, install, gateway, providerConfigs, pc, obj,
                   oldStatus, st, cfg, res, bounds>>

GrantRequest(r) ==
    /\ requests[r] = "pending"
    /\ requests' = [requests EXCEPT ![r] = "granted"]
    /\ UNCHANGED <<ls, queued, install, gateway, config, local, bounds>>

RemoveRequest(r) ==
    /\ requests[r] = "deleting"
    /\ requests' = [requests EXCEPT ![r] = "absent"]
    /\ UNCHANGED <<ls, queued, install, gateway, config, local, bounds>>

ProvideGateway ==
    /\ gateway # "ready"
    /\ gateway' = "ready"
    /\ UNCHANGED <<ls, queued, requests, install, config, local, bounds>>

AcceptRoute ==
    /\ route = "created"
    /\ route' = "accepted"
    /\ UNCHANGED <<ls, queued, requests, components, rolledOut, caCopies,
                   applied, gateway, config, local, bounds>>

\* Only a complete installation can pass the readiness check.
RollOut ==
    /\ ~rolledOut
    /\ \A c \in Components : components[c] \notin {"absent", "mixed"}
    /\ rolledOut' = TRUE
    /\ UNCHANGED <<ls, queued, requests, components, route, caCopies, applied,
                   gateway, config, local, bounds>>

Environment ==
    \/ ReleaseForeign
    \/ EditProviderConfig
    \/ \E p \in ProviderConfigNames : mapProviderConfigToRequests(p)
    \/ \E r \in Requests : GrantRequest(r) \/ RemoveRequest(r)
    \/ ProvideGateway
    \/ AcceptRoute
    \/ RollOut

-----------------------------------------------------------------------------

Init ==
    /\ ls = NoLandscaper
    /\ queued = "no"
    /\ requests = [r \in Requests |-> "absent"]
    /\ components = [c \in Components |-> "absent"]
    /\ rolledOut = FALSE
    /\ route = "absent"
    /\ caCopies = {}
    /\ applied = NoConfig
    /\ gateway = "absent"
    /\ providerConfigs \in [ProviderConfigNames -> ConfigValues]
    /\ configEvents = {}
    /\ pc = "idle"
    /\ obj = NoLandscaper
    /\ oldStatus = EmptyStatus
    /\ st = newCreateOrUpdateStatus(0)
    /\ cfg = NoConfig
    /\ fresh = FALSE
    /\ res = "done"
    /\ userOps = MaxUserOps
    /\ configEdits = MaxConfigEdits
    /\ faults = MaxFaults

Next == Reconcile \/ Fault \/ User \/ Environment

Spec == Init /\ [][Next]_vars

(***************************************************************************)
(* The worker takes its next step, and retries and delayed requeues come   *)
(* due; the platform grants and removes requests, provides the gateway,    *)
(* accepts routes and rolls out deployments.  Nothing is assumed of the    *)
(* user, of the operator or of faults.                                     *)
(***************************************************************************)
Fairness ==
    /\ WF_vars(Reconcile)
    /\ WF_vars(ReleaseForeign)
    /\ \A p \in ProviderConfigNames : WF_vars(mapProviderConfigToRequests(p))
    /\ \A r \in Requests : WF_vars(GrantRequest(r)) /\ WF_vars(RemoveRequest(r))
    /\ WF_vars(ProvideGateway)
    /\ WF_vars(AcceptRoute)
    /\ WF_vars(RollOut)

FairSpec == Spec /\ Fairness

-----------------------------------------------------------------------------
(* Safety.                                                                 *)

\* Something of the instance exists on the MCP or the workload cluster.
Footprint ==
    \/ route # "absent"
    \/ \E c \in Components : components[c] # "absent"

(***************************************************************************)
(* No orphans: without the controller's finalizer on the resource (or      *)
(* without the resource) there is no component, no route and no access     *)
(* request.  The finalizer is written before the first of them is created  *)
(* and removed after the last one is gone, whatever deletions, edits,      *)
(* failures and crashes come in between.                                   *)
(***************************************************************************)
NoOrphans ==
    ~(ls.exists /\ ls.finalizer) =>
        /\ ~Footprint
        /\ \A r \in Requests : requests[r] = "absent"

(***************************************************************************)
(* Access outlives the instance: as long as anything is installed, both    *)
(* requests are granted; in particular none is deleted before the          *)
(* uninstallation is complete (the three steps described in                *)
(* handleDeleteOperation), after which it could not be completed.          *)
(***************************************************************************)
UninstallBeforeRelease == Footprint => AccessGranted

(***************************************************************************)
(* An installed or ready status that speaks of the current generation is   *)
(* true: every component is completely installed in the wanted version,    *)
(* and a ready instance has its route.                                     *)
(***************************************************************************)
StatusIsTruthful ==
    (ls.exists /\ ls.status.observedGeneration = ls.generation) =>
        /\ (ls.status.installed.status = "True" \/ ls.status.phase = "Ready") =>
               /\ \A c \in Components : components[c] = Target(c, ls.version)
               /\ route # "absent"
        /\ ls.status.uninstalled.status = "True" => ~Footprint

(***************************************************************************)
(* No lost wakeup: a resource that still needs the controller is being     *)
(* reconciled, or its key is in the queue.  Only a resource that is being  *)
(* deleted and has lost the controller's finalizer may be left alone.      *)
(***************************************************************************)
NoLostWakeup ==
    (ls.exists /\ (ls.finalizer \/ ~ls.deleting)) => (queued # "no" \/ pc # "idle")

(***************************************************************************)
(* Config changes are noticed: a ready instance, for which nothing is on   *)
(* its way but the periodic timer, was installed with the present contents *)
(* of the provider config its status refers to ("triggers reconciliation   *)
(* of Landscaper resources whenever a ProviderConfig they reference        *)
(* changes", mapProviderConfigToRequests).  The worker reads the config    *)
(* before it records the reference that the watch goes by.                 *)
(***************************************************************************)
ConfigChangesAreNoticed ==
    (/\ ls.exists /\ ~ls.deleting /\ ls.status.phase = "Ready"
     /\ pc = "idle" /\ queued # "now"
     /\ ls.status.ref \notin configEvents)
        => /\ applied.name = ls.status.ref
           /\ providerConfigs[ls.status.ref].exists =>
                  applied = ReadConfig(ls.status.ref)

(***************************************************************************)
(* The copies of CA bundles are cleaned up together with the rest ("A      *)
(* finalizer ensures the Service Provider managed resources ... are        *)
(* cleaned-up", README.md).  Does not hold: see the run ca_copies.         *)
(***************************************************************************)
CACopiesCleanedUp == ~(ls.exists /\ ls.finalizer) => caCopies = {}

(***************************************************************************)
(* A resource whose spec names no provider config is reconciled with a     *)
(* default one ("If not specified, the controller will use the default     *)
(* ProviderConfig in the cluster", landscaper_types.go).  Does not hold:   *)
(* see the run default_config.                                             *)
(***************************************************************************)
DefaultConfigIsUsed ==
    [][(/\ pc \in {"getProviderConfig", "getProviderConfigD"}
        /\ pc' \in {"recordProviderConfig", "recordProviderConfigD"}
        /\ obj.ref = NoRef)
           => providerConfigs[cfg'.name].default]_vars

(***************************************************************************)
(* Requests are not created again: neither the delete path nor, while a    *)
(* request is being deleted, any other step creates a missing request ("so *)
(* that we do not recreate the requests", handleDeleteOperation), also     *)
(* after a deletion that got only half way.                                *)
(***************************************************************************)
NoRecreateRequests ==
    [][(pc \in DeleteSteps \/ \E r \in Requests : requests[r] = "deleting") =>
           \A r \in Requests :
               requests[r] = "absent" => requests'[r] = "absent"]_vars

(***************************************************************************)
(* Terminating is final: once the status of a resource says Terminating,   *)
(* no reconciliation, however late, replaces it by another phase.          *)
(***************************************************************************)
TerminatingIsFinal ==
    [][(ls.status.phase = "Terminating" /\ ls'.exists) =>
           ls'.status.phase = "Terminating"]_vars

-----------------------------------------------------------------------------
(***************************************************************************)
(* The inductive invariant behind NoOrphans, UninstallBeforeRelease and    *)
(* NoRecreateRequests: what each position of the worker knows about the    *)
(* stored resource, the requests and the installation.                     *)
(***************************************************************************)
SomeRequest == \E r \in Requests : requests[r] # "absent"

InDeletion == \E r \in Requests : requests[r] = "deleting"

\* Finalizer, id and deletion timestamp belong to a stored resource.
ResourceInv ==
    /\ ls.finalizer => ls.exists
    /\ ls.deleting => ls.exists

\* What exists, exists under the finalizer; what is installed can be reached.
ProtectionInv ==
    /\ Footprint => ls.finalizer /\ ls.id /\ AccessGranted
    /\ SomeRequest => ls.finalizer
    /\ InDeletion => ls.deleting

\* A fresh copy agrees with the stored resource.
CopyInv ==
    fresh => /\ ls.exists /\ obj.exists
             /\ obj.deleting = ls.deleting
             /\ obj.finalizer = ls.finalizer
             /\ obj.foreign = ls.foreign
             /\ obj.id = ls.id

BeforeID == {"ensureFinalizer", "checkReconcileAnnotation", "ensureInstanceID"}

AfterAccess ==
    {"reconcileGateway", "createConfig", "syncCA", "installRBAC",
     "installManifest", "installHelm", "installLandscaper",
     "reconcileTLSRoute", "isTLSRouteReady", "checkReadiness"}

CreateInv ==
    /\ pc \in CreateSteps => ~InDeletion
    /\ pc = "ensureFinalizer" =>
           ~obj.deleting /\ (obj.finalizer => ls.finalizer /\ (obj.id => ls.id))
    /\ pc \in CreateSteps \ {"ensureFinalizer"} => ls.finalizer
    /\ pc \in {"checkReconcileAnnotation", "ensureInstanceID"} =>
           (obj.id => ls.id)
    /\ pc \in CreateSteps \ BeforeID => ls.id
    /\ pc \in AfterAccess => AccessGranted

Uninstalling ==
    {"createConfigD", "deleteTLSRoute", "deleteCA", "uninstallLandscaper",
     "uninstallHelm", "uninstallManifest", "uninstallRBAC"}

\* The delete path takes the installation down in this order.
DeleteInv ==
    /\ (pc \in DeleteSteps /\ obj.finalizer) =>
           ls.finalizer /\ ls.deleting /\ obj.id = ls.id
    /\ (pc \in DeleteSteps /\ ~obj.finalizer) => ~SomeRequest
    /\ pc = "clusterAccessD" => ~areAccessRequestsInDeletion
    /\ pc \in Uninstalling => AccessGranted
    /\ pc \in {"deleteCA", "uninstallLandscaper", "uninstallHelm",
               "uninstallManifest", "uninstallRBAC"} => route = "absent"
    /\ pc \in {"uninstallHelm", "uninstallManifest", "uninstallRBAC"} =>
           components["landscaper"] = "absent"
    /\ pc \in {"uninstallManifest", "uninstallRBAC"} =>
           components["helm"] = "absent"
    /\ pc = "uninstallRBAC" => components["manifest"] = "absent"
    /\ pc \in {"reconcileDelete", "removeFinalizer"} => ~Footprint
    /\ pc = "removeFinalizer" => ~SomeRequest

\* The controller knows where it stands: each position in reconcile() comes
\* with the facts about resource, requests and installation listed above.
SafetyInv ==
    ResourceInv /\ ProtectionInv /\ CopyInv /\ CreateInv /\ DeleteInv

-----------------------------------------------------------------------------
(***************************************************************************)
(* The controller implements the abstract life cycle: the resource as the  *)
(* API server shows it, its finalizer, the requests that exist and those   *)
(* that are granted, and whether anything is installed.                    *)
(***************************************************************************)
Lifecycle == INSTANCE LandscaperLifecycle WITH
    resource  <- IF ~ls.exists THEN "absent"
                 ELSE IF ls.deleting THEN "deleting" ELSE "live",
    protected <- ls.finalizer,
    access    <- {r \in Requests : requests[r] # "absent"},
    usable    <- {r \in Requests : requests[r] = "granted"},
    instance  <- Footprint

\* Every step of the controller and of its environment is a step of the
\* abstract life cycle, or changes nothing of it.
ImplementsLifecycle == Lifecycle!Spec

(***************************************************************************)
(* The operation the worker is carrying out.  It lasts from the first      *)
(* installer, through a failure of one of them, to the step that decides   *)
(* whether the handler goes on.                                            *)
(***************************************************************************)
Operation ==
    IF \/ pc \in {"installRBAC", "installManifest", "installHelm",
                  "installLandscaper", "reconcileTLSRoute"}
       \/ pc = "finish" /\ st.installed.reason = "InstallFailed"
    THEN "install"
    ELSE IF \/ pc \in {"uninstallLandscaper", "uninstallHelm",
                       "uninstallManifest", "uninstallRBAC"}
            \/ pc = "reconcileDelete" /\ st.uninstalled.status = "True"
            \/ pc = "finish" /\ st.uninstalled.reason = "InstallFailed"
    THEN "uninstall"
    ELSE "none"

\* What the status that is being built up says has been done.
Reported ==
    IF st.installed.status = "True" THEN "install"
    ELSE IF st.uninstalled.status = "True" /\ pc # "reconcileDelete"
    THEN "uninstall"
    ELSE "none"

Installs == INSTANCE Installation WITH
    op      <- Operation,
    version <- IF Operation = "install" THEN obj.version ELSE "none",
    done    <- Reported

(***************************************************************************)
(* The worker installs and uninstalls as Installation says: one component  *)
(* after the other and in one version, and takes them down in the opposite *)
(* order.  It says Installed or Uninstalled only when that is complete,    *)
(* whatever failures, crashes and edits came in between.                   *)
(***************************************************************************)
InstallsInOrder == Installs!Spec

-----------------------------------------------------------------------------
(* Liveness.                                                               *)

\* The provider config that the resource is going to use exists.
ConfigFound == \E p \in ConfigCandidates(ls) : providerConfigs[p].exists

\* The resource asks for a version that its provider config offers.
WantsInstance ==
    /\ ls.exists /\ ~ls.deleting
    /\ ConfigFound
    /\ \A p \in ConfigCandidates(ls) : ls.version \in providerConfigs[p].versions

(***************************************************************************)
(* Deletion completes: a resource that is being deleted disappears, if     *)
(* from some time on its provider config can be found.                     *)
(***************************************************************************)
DeletionCompletes ==
    <>[](ls.exists => ConfigFound) =>
        ((ls.exists /\ ls.deleting) ~> ~ls.exists)

(***************************************************************************)
(* The present config is applied in the end: under the same condition the  *)
(* instance ends up installed with the present contents of the provider    *)
(* config that its status refers to, even if the event that announced them *)
(* was dropped: the reconciliation of a ready instance every ten minutes   *)
(* makes up for it.                                                        *)
(***************************************************************************)
ConfigIsApplied ==
    <>[]WantsInstance
    => <>[](/\ ls.status.ref # NoRef
            /\ applied = ReadConfig(ls.status.ref))

(***************************************************************************)
(* The controller converges: if from some time on the resource exists, is  *)
(* not being deleted and asks for a version that its provider configs      *)
(* offer, it becomes and stays ready, reports its current generation, and  *)
(* has every component in the wanted version.                              *)
(***************************************************************************)
Converges ==
    <>[]WantsInstance
    => <>[](/\ ls.status.phase = "Ready"
            /\ ls.status.observedGeneration = ls.generation
            /\ \A c \in Components : components[c] = Target(c, ls.version))
=============================================================================
