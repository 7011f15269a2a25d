--------------------- MODULE LandscaperReconcilerProofs ---------------------
(***************************************************************************)
(* Proofs about LandscaperReconciler, for every set of versions, provider  *)
(* configs and CA bundles and for every value of the bounds: the types,    *)
(* what each position of the worker knows, and what a step may never do    *)
(* (create requests again, overwrite Terminating, lose the key of the      *)
(* resource, or leave the abstract life cycle).                            *)
(***************************************************************************)
EXTENDS LandscaperReconciler, TLAPS

-----------------------------------------------------------------------------
(* Types.                                                                  *)

\* The records that status.go builds are reconcile statuses.
LEMMA StatusTypes ==
    /\ \A n \in Nat : newCreateOrUpdateStatus(n) \in ReconcileStatuses
    /\ \A n \in Nat : newDeleteStatus(n) \in ReconcileStatuses
    /\ \A s \in ReconcileStatuses :
          /\ setInstallWaitForClusterAccessReady(s) \in ReconcileStatuses
          /\ setUninstallWaitForClusterAccessReady(s) \in ReconcileStatuses
          /\ setInstalled(s) \in ReconcileStatuses
          /\ setUninstalled(s) \in ReconcileStatuses
          /\ setWaitForReadinessCheck(s) \in ReconcileStatuses
          /\ setReady(s) \in ReconcileStatuses
          /\ setInstallFailed(s) \in ReconcileStatuses
          /\ setUninstallFailed(s) \in ReconcileStatuses
          /\ setInstallClusterAccessError(s) \in ReconcileStatuses
          /\ setUninstallClusterAccessError(s) \in ReconcileStatuses
          /\ setInstallProviderConfigError(s) \in ReconcileStatuses
          /\ setUninstallProviderConfigError(s) \in ReconcileStatuses
          /\ setInstallConfigurationError(s) \in ReconcileStatuses
          /\ setUninstallConfigurationError(s) \in ReconcileStatuses
          /\ setInstallDNSConfigFailed(s) \in ReconcileStatuses
          /\ setInstallWaitForDNSReady(s) \in ReconcileStatuses
          /\ SetUninstallDNSConfigFailed(s) \in ReconcileStatuses
  <1>1. /\ NoCondition \in Conditions
        /\ \A c \in {"True", "False", "Unknown"}, r \in ConditionReasons :
              Condition(c, r) \in Conditions
    BY DEF Conditions, Condition
  <1>2. \A s \in ReconcileStatuses, c \in Conditions :
           /\ [s EXCEPT !.installed = c] \in ReconcileStatuses
           /\ [s EXCEPT !.uninstalled = c] \in ReconcileStatuses
           /\ [s EXCEPT !.ready = c] \in ReconcileStatuses
           /\ [s EXCEPT !.ready = c, !.phase = "Ready"] \in ReconcileStatuses
    BY DEF ReconcileStatuses, Phases
  <1>3. \A n \in Nat : /\ newCreateOrUpdateStatus(n) \in ReconcileStatuses
                       /\ newDeleteStatus(n) \in ReconcileStatuses
    BY <1>1 DEF ReconcileStatuses, Phases, ConditionReasons,
                newCreateOrUpdateStatus, newDeleteStatus
  <1> SUFFICES ASSUME NEW s \in ReconcileStatuses
               PROVE  /\ setInstallWaitForClusterAccessReady(s) \in ReconcileStatuses
                      /\ setUninstallWaitForClusterAccessReady(s) \in ReconcileStatuses
                      /\ setInstalled(s) \in ReconcileStatuses
                      /\ setUninstalled(s) \in ReconcileStatuses
                      /\ setWaitForReadinessCheck(s) \in ReconcileStatuses
                      /\ setReady(s) \in ReconcileStatuses
                      /\ setInstallFailed(s) \in ReconcileStatuses
                      /\ setUninstallFailed(s) \in ReconcileStatuses
                      /\ setInstallClusterAccessError(s) \in ReconcileStatuses
                      /\ setUninstallClusterAccessError(s) \in ReconcileStatuses
                      /\ setInstallProviderConfigError(s) \in ReconcileStatuses
                      /\ setUninstallProviderConfigError(s) \in ReconcileStatuses
                      /\ setInstallConfigurationError(s) \in ReconcileStatuses
                      /\ setUninstallConfigurationError(s) \in ReconcileStatuses
                      /\ setInstallDNSConfigFailed(s) \in ReconcileStatuses
                      /\ setInstallWaitForDNSReady(s) \in ReconcileStatuses
                      /\ SetUninstallDNSConfigFailed(s) \in ReconcileStatuses
    BY <1>3
  <1>4. \A c \in {"True", "False", "Unknown"}, r \in ConditionReasons :
           /\ [s EXCEPT !.installed = Condition(c, r)] \in ReconcileStatuses
           /\ [s EXCEPT !.uninstalled = Condition(c, r)] \in ReconcileStatuses
           /\ [s EXCEPT !.ready = Condition(c, r)] \in ReconcileStatuses
           /\ [s EXCEPT !.ready = Condition(c, r), !.phase = "Ready"]
                  \in ReconcileStatuses
    BY <1>1, <1>2
  <1> QED
    BY <1>4
       DEF ConditionReasons, setInstallWaitForClusterAccessReady,
           setUninstallWaitForClusterAccessReady, setInstalled, setUninstalled,
           setWaitForReadinessCheck, setReady, setInstallFailed,
           setUninstallFailed, setInstallClusterAccessError,
           setUninstallClusterAccessError, setInstallProviderConfigError,
           setUninstallProviderConfigError, setInstallConfigurationError,
           setUninstallConfigurationError, setInstallDNSConfigFailed,
           setInstallWaitForDNSReady, SetUninstallDNSConfigFailed

\* Converting a reconcile status yields a Landscaper status.
LEMMA ConvertType ==
    \A s \in ReconcileStatuses, status \in LandscaperStatuses :
        convertToLandscaperStatus(s, status) \in LandscaperStatuses
  BY DEF ReconcileStatuses, LandscaperStatuses, convertToLandscaperStatus

\* The canonical values of the worker's variables have their types.
LEMMA RestTypes ==
    /\ EmptyStatus \in LandscaperStatuses
    /\ NoLandscaper \in Landscapers
    /\ NoConfig \in ReadConfigs
  <1>1. EmptyStatus \in LandscaperStatuses
    BY DEF EmptyStatus, LandscaperStatuses, Conditions, NoCondition, Phases,
           ConfigRefs
  <1>2. NoLandscaper \in Landscapers
    BY <1>1 DEF NoLandscaper, Landscapers, ConfigRefs
  <1>3. NoConfig \in ReadConfigs
    BY DEF NoConfig, ReadConfigs, ConfigRefs
  <1> QED BY <1>1, <1>2, <1>3

\* Changing one field of a resource keeps its type.
LEMMA ResourceTypes ==
    ASSUME NEW o \in Landscapers
    PROVE  /\ o.status \in LandscaperStatuses
           /\ o.generation \in Nat
           /\ [o EXCEPT !.finalizer = TRUE] \in Landscapers
           /\ [o EXCEPT !.finalizer = FALSE] \in Landscapers
           /\ [o EXCEPT !.annotated = TRUE] \in Landscapers
           /\ [o EXCEPT !.annotated = FALSE] \in Landscapers
           /\ [o EXCEPT !.id = TRUE] \in Landscapers
           /\ [o EXCEPT !.foreign = FALSE] \in Landscapers
           /\ [o EXCEPT !.deleting = TRUE, !.generation = o.generation + 1]
                  \in Landscapers
           /\ \A v \in Versions, p \in ConfigRefs :
                 [o EXCEPT !.version = v, !.ref = p,
                           !.generation = o.generation + 1] \in Landscapers
           /\ \A s \in LandscaperStatuses : [o EXCEPT !.status = s] \in Landscapers
           /\ \A p \in ConfigRefs : [o EXCEPT !.status.ref = p] \in Landscapers
  <1>1. \A p \in ConfigRefs : [o EXCEPT !.status.ref = p] \in Landscapers
    BY DEF Landscapers, LandscaperStatuses
  <1>2. o.status \in LandscaperStatuses /\ o.generation \in Nat
    BY DEF Landscapers
  <1>3. /\ [o EXCEPT !.finalizer = TRUE] \in Landscapers
        /\ [o EXCEPT !.finalizer = FALSE] \in Landscapers
    BY DEF Landscapers
  <1>4. /\ [o EXCEPT !.annotated = TRUE] \in Landscapers
        /\ [o EXCEPT !.annotated = FALSE] \in Landscapers
    BY DEF Landscapers
  <1>5. /\ [o EXCEPT !.id = TRUE] \in Landscapers
        /\ [o EXCEPT !.foreign = FALSE] \in Landscapers
    BY DEF Landscapers
  <1>6. \A n \in Nat : [o EXCEPT !.deleting = TRUE, !.generation = n]
                          \in Landscapers
    BY Zenon DEF Landscapers
  <1>7. \A v \in Versions, p \in ConfigRefs, n \in Nat :
           [o EXCEPT !.version = v, !.ref = p, !.generation = n]
               \in Landscapers
    BY Zenon DEF Landscapers
  <1>8. \A s \in LandscaperStatuses : [o EXCEPT !.status = s] \in Landscapers
    BY DEF Landscapers
  <1>9. o.generation + 1 \in Nat
    BY <1>2
  <1> QED BY <1>1, <1>2, <1>3, <1>4, <1>5, <1>6, <1>7, <1>8, <1>9

\* A new resource is well typed.
LEMMA NewResourceType ==
    \A v \in Versions, p \in ConfigRefs, f \in BOOLEAN :
        [NoLandscaper EXCEPT !.exists = TRUE, !.version = v, !.ref = p,
                             !.foreign = f, !.generation = 1] \in Landscapers
  <1>1. 1 \in Nat
    OBVIOUS
  <1> QED BY <1>1, RestTypes, Zenon DEF Landscapers

\* The initial state, with no resource and an idle worker, is well typed.
LEMMA TypeInit == Init => TypeOK
  BY StatusTypes, RestTypes, ConstantsAssumption
     DEF Init, TypeOK, Steps

\* The steps of the worker that several positions share.
LEMMA TypeSharedSteps ==
    ASSUME TypeOK, NEW at, NEW next \in Steps, NEW c \in Components,
           NEW status \in ReconcileStatuses, NEW accepted \in BOOLEAN,
           \/ GetProviderConfig(at, next, status)
           \/ RecordProviderConfig(at, next, status, accepted)
           \/ ClusterAccess(at, next, status)
           \/ CreateConfig(at, next)
           \/ Install(at, c, next)
           \/ Uninstall(at, c, next)
           \/ InstallFails(at, c)
           \/ UninstallFails(at, c)
    PROVE  TypeOK'
  <1>1. CASE GetProviderConfig(at, next, status)
    <2>1. \A p \in ConfigCandidates(obj) : p \in ProviderConfigNames
      BY DEF TypeOK, ConfigCandidates, Landscapers, LandscaperStatuses, ConfigRefs
    <2>2. \A p \in ProviderConfigNames : ReadConfig(p) \in ReadConfigs
      BY DEF TypeOK, ReadConfig, ReadConfigs, ConfigRefs, ConfigContents
    <2> QED
      BY <1>1, <2>1, <2>2
         DEF TypeOK, GetProviderConfig, Return, Steps, install, config, bounds
  <1>2. CASE RecordProviderConfig(at, next, status, accepted)
    <2>1. cfg.name \in ConfigRefs
      BY DEF TypeOK, ReadConfigs
    <2>2. [obj EXCEPT !.status.ref = cfg.name] \in Landscapers
      BY <2>1, ResourceTypes DEF TypeOK
    <2> QED
      BY <1>2, <2>2
         DEF TypeOK, RecordProviderConfig, OwnWrite, Goto, Return, Steps, install,
             config, bounds
  <1>3. CASE ClusterAccess(at, next, status)
    BY <1>3
       DEF TypeOK, ClusterAccess, WaitForAccess, Goto, Return, Steps, Requests,
           install, config, bounds
  <1>4. CASE CreateConfig(at, next)
    BY <1>4 DEF TypeOK, CreateConfig, Goto, install, config, bounds
  <1>5. CASE Install(at, c, next)
    BY <1>5
       DEF TypeOK, Install, Goto, Target, Landscapers, config, bounds
  <1>6. CASE Uninstall(at, c, next)
    BY <1>6, StatusTypes, RestTypes
       DEF TypeOK, Uninstall, config, bounds
  <1>7. CASE InstallFails(at, c)
    BY <1>7, StatusTypes
       DEF TypeOK, InstallFails, InstallError, Return, Steps, config
  <1>8. CASE UninstallFails(at, c)
    <2>1. components' \in
              [Components -> Versions \cup {"absent", "mixed", "present"}]
      BY <1>8 DEF TypeOK, UninstallFails
    <2>2. faults' \in Nat
      BY <1>8 DEF TypeOK, UninstallFails
    <2>3. setUninstallFailed(st) \in ReconcileStatuses
      BY StatusTypes DEF TypeOK
    <2> QED
      BY <1>8, <2>1, <2>2, <2>3, Zenon
         DEF TypeOK, UninstallFails, UninstallError, Return, Steps, config
  <1> QED
    BY <1>1, <1>2, <1>3, <1>4, <1>5, <1>6, <1>7, <1>8

\* Every step of reconcile(), from the work queue to the status update, keeps
\* the types.
LEMMA TypeReconcile == TypeOK /\ Reconcile => TypeOK'
  <1> SUFFICES ASSUME TypeOK, Reconcile PROVE TypeOK'
    OBVIOUS
  <1>1. CASE Get
    BY <1>1, StatusTypes, ResourceTypes
       DEF TypeOK, Get, Steps, CreateSteps, DeleteSteps, local, install, config,
           bounds
  <1>2. CASE Finish
    <2>1. [obj EXCEPT !.status = convertToLandscaperStatus(st, obj.status)]
              \in Landscapers
      BY ConvertType, ResourceTypes DEF TypeOK
    <2> QED
      BY <1>2, <2>1, StatusTypes, RestTypes
         DEF TypeOK, Finish, Rest, Steps, install, config, bounds
  <1>3. CASE EnsureFinalizer
    BY <1>3, ResourceTypes
       DEF TypeOK, EnsureFinalizer, Goto, Return, OwnWrite, Steps, CreateSteps,
           install, config, bounds
  <1>4. CASE CheckReconcileAnnotation
    BY <1>4, ResourceTypes
       DEF TypeOK, CheckReconcileAnnotation, Goto, Return, OwnWrite, Steps,
           CreateSteps, install, config, bounds
  <1>5. CASE EnsureInstanceID
    BY <1>5, ResourceTypes
       DEF TypeOK, EnsureInstanceID, StoreInstanceID, Goto, Return, OwnWrite,
           Steps, CreateSteps, install, config, bounds
  <1>6. CASE ReconcileGateway \/ IsTLSRouteReady \/ CheckReadiness
    BY <1>6, StatusTypes
       DEF TypeOK, ReconcileGateway, WaitForGateway, IsTLSRouteReady,
           CheckReadiness, InstanceReady, Goto, Return, Steps, CreateSteps, install, config,
           bounds
  <1>7. CASE SyncCA
    BY <1>7
       DEF TypeOK, SyncCA, Goto, ReadConfigs, Steps, CreateSteps, config, bounds
  <1>8. CASE ReconcileTLSRoute
    BY <1>8, StatusTypes
       DEF TypeOK, ReconcileTLSRoute, Return, Steps, CreateSteps, config, bounds
  <1>9. CASE AccessInDeletion \/ DeleteTLSRoute \/ DeleteCA
    BY <1>9
       DEF TypeOK, AccessInDeletion, DeleteTLSRoute, DeleteCA, Goto, Steps,
           DeleteSteps, install, config, bounds
  <1>10. CASE ReconcileDelete
    BY <1>10
       DEF TypeOK, ReconcileDelete, WaitForRelease, Goto, Return, Steps,
           DeleteSteps, install, config, bounds
  <1>11. CASE RemoveFinalizer
    <2>1. obj.foreign \in BOOLEAN
      BY DEF TypeOK, Landscapers
    <2> QED
      BY <1>11, <2>1, ResourceTypes, RestTypes
         DEF TypeOK, RemoveFinalizer, Return, Steps, install, config, bounds
  <1>12. CASE InstallLandscaperInstance \/ UninstallLandscaperInstance
    BY <1>12, TypeSharedSteps, StatusTypes
       DEF InstallLandscaperInstance, UninstallLandscaperInstance, Components,
           Steps, CreateSteps, DeleteSteps, TypeOK
  <1>13. ASSUME NEW at, NEW next \in Steps, NEW status \in ReconcileStatuses,
                NEW accepted \in BOOLEAN,
                \/ GetProviderConfig(at, next, status)
                \/ RecordProviderConfig(at, next, status, accepted)
                \/ ClusterAccess(at, next, status)
                \/ CreateConfig(at, next)
         PROVE  TypeOK'
    <2>1. "rbac" \in Components
      BY DEF Components
    <2> QED BY <1>13, <2>1, TypeSharedSteps
  <1>14. CASE \/ GetProviderConfig("getProviderConfig", "recordProviderConfig",
                                   setInstallProviderConfigError(st))
              \/ RecordProviderConfig("recordProviderConfig", "clusterAccess",
                                      setInstallProviderConfigError(st),
                                      IsVersionAvailable)
              \/ ClusterAccess("clusterAccess", "reconcileGateway",
                               setInstallWaitForClusterAccessReady(st))
              \/ CreateConfig("createConfig", "syncCA")
    <2>1. /\ setInstallProviderConfigError(st) \in ReconcileStatuses
          /\ setInstallWaitForClusterAccessReady(st) \in ReconcileStatuses
          /\ IsVersionAvailable \in BOOLEAN
      BY StatusTypes DEF TypeOK, IsVersionAvailable
    <2>2. {"recordProviderConfig", "clusterAccess", "reconcileGateway", "syncCA"}
              \subseteq Steps
      BY DEF Steps, CreateSteps
    <2> QED BY <1>13, <1>14, <2>1, <2>2
  <1>15. CASE \/ GetProviderConfig("getProviderConfigD", "recordProviderConfigD",
                                   setUninstallProviderConfigError(st))
              \/ RecordProviderConfig("recordProviderConfigD", "accessInDeletion",
                                      setUninstallProviderConfigError(st), TRUE)
              \/ ClusterAccess("clusterAccessD", "createConfigD",
                               setUninstallWaitForClusterAccessReady(st))
              \/ CreateConfig("createConfigD", "deleteTLSRoute")
    <2>1. /\ setUninstallProviderConfigError(st) \in ReconcileStatuses
          /\ setUninstallWaitForClusterAccessReady(st) \in ReconcileStatuses
      BY StatusTypes DEF TypeOK
    <2>2. {"recordProviderConfigD", "accessInDeletion", "createConfigD",
           "deleteTLSRoute"} \subseteq Steps
      BY DEF Steps, DeleteSteps
    <2> QED BY <1>13, <1>15, <2>1, <2>2
  <1> QED
    BY <1>1, <1>2, <1>3, <1>4, <1>5, <1>6, <1>7, <1>8, <1>9, <1>10, <1>11,
       <1>12, <1>14, <1>15
       DEF Reconcile, CreateOrUpdate, Delete

\* So do failing calls, dropped events, crashes and outages.
LEMMA TypeFault == TypeOK /\ Fault => TypeOK'
  <1> SUFFICES ASSUME TypeOK, Fault PROVE TypeOK'
    OBVIOUS
  <1>1. CASE CallFails
    <2>1. FailureStatus \in ReconcileStatuses
      BY StatusTypes DEF TypeOK, FailureStatus
    <2>2. KeptCopy \in Landscapers
      BY DEF TypeOK, KeptCopy, Landscapers, LandscaperStatuses, ReadConfigs
    <2> QED
      BY <1>1, <2>1, <2>2 DEF TypeOK, CallFails, Return, Steps, install, config
  <1>2. CASE InstallerFails
    BY <1>2, TypeSharedSteps, StatusTypes
       DEF InstallerFails, Components, Steps, CreateSteps, TypeOK
  <1>3. CASE ReconcileDeleteFails
    <2>1. FailureStatus \in ReconcileStatuses
      BY StatusTypes DEF TypeOK, FailureStatus
    <2> QED
      BY <1>3, <2>1
         DEF TypeOK, ReconcileDeleteFails, Return, Steps, install, config
  <1>4. CASE HandlerFails
    BY <1>4 DEF TypeOK, HandlerFails, install, local
  <1>5. CASE Crash
    <2>1. faults' \in Nat
      BY <1>5 DEF TypeOK, Crash
    <2>2. newCreateOrUpdateStatus(0) \in ReconcileStatuses
      BY StatusTypes
    <2>3. configEvents' \in SUBSET ProviderConfigNames
      BY <1>5 DEF Crash
    <2> QED
      BY <1>5, <2>1, <2>2, <2>3, RestTypes, Zenon
         DEF TypeOK, Crash, Rest, Steps, install
  <1>6. CASE Outage
    <2>1. faults' \in Nat
      BY <1>6 DEF TypeOK, Outage
    <2> QED
      BY <1>6, <2>1, Zenon DEF TypeOK, Outage, config, local
  <1> QED BY <1>1, <1>2, <1>3, <1>4, <1>5, <1>6 DEF Fault

\* So does the user, who may write the resource at any moment.
LEMMA TypeUser == TypeOK /\ User => TypeOK'
  <1> SUFFICES ASSUME TypeOK, User PROVE TypeOK'
    OBVIOUS
  <1>1. CASE Create
    <2>1. userOps' \in Nat
      BY <1>1 DEF TypeOK, Create, UserOp
    <2>2. ls' \in Landscapers
      <3>1. PICK v \in Versions, p \in ConfigRefs, f \in ForeignFinalizers :
                ls' = [NoLandscaper EXCEPT !.exists = TRUE, !.version = v,
                           !.ref = p, !.foreign = f, !.generation = 1]
        BY <1>1, Zenon DEF Create, OtherWrite
      <3>2. f \in BOOLEAN
        BY ConstantsAssumption
      <3> QED BY <3>1, <3>2, NewResourceType
    <2> QED
      BY <1>1, <2>1, <2>2, Zenon DEF TypeOK, Create, OtherWrite, install, config
  <1>2. CASE Edit
    <2>1. userOps' \in Nat
      BY <1>2 DEF TypeOK, Edit, UserOp
    <2>2. ls' \in Landscapers
      <3>1. PICK v \in Versions, p \in ConfigRefs :
                ls' = [ls EXCEPT !.version = v, !.ref = p,
                                 !.generation = ls.generation + 1]
        BY <1>2 DEF Edit, OtherWrite
      <3> QED BY <3>1, ResourceTypes DEF TypeOK
    <2> QED
      BY <1>2, <2>1, <2>2, Zenon DEF TypeOK, Edit, OtherWrite, install, config
  <1>3. CASE Annotate
    <2>1. userOps' \in Nat
      BY <1>3 DEF TypeOK, Annotate, UserOp
    <2>2. ls' \in Landscapers
      BY <1>3, ResourceTypes DEF TypeOK, Annotate, OtherWrite
    <2> QED
      BY <1>3, <2>1, <2>2, Zenon DEF TypeOK, Annotate, OtherWrite, install, config
  <1>4. CASE RequestDeletion
    <2>1. userOps' \in Nat
      BY <1>4 DEF TypeOK, RequestDeletion, UserOp
    <2>2. ls' \in Landscapers
      BY <1>4, ResourceTypes, RestTypes DEF TypeOK, RequestDeletion, OtherWrite
    <2> QED
      BY <1>4, <2>1, <2>2, Zenon DEF TypeOK, RequestDeletion, OtherWrite, install, config
  <1> QED BY <1>1, <1>2, <1>3, <1>4 DEF User

\* So do the operator, the watch on provider configs and the platform.
LEMMA TypeEnvironment == TypeOK /\ Environment => TypeOK'
  <1> SUFFICES ASSUME TypeOK, Environment PROVE TypeOK'
    OBVIOUS
  <1>1. CASE ReleaseForeign
    BY <1>1, ResourceTypes, RestTypes
       DEF TypeOK, ReleaseForeign, OtherWrite, install, config, bounds
  <1>2. CASE EditProviderConfig
    BY <1>2, ConstantsAssumption
       DEF TypeOK, EditProviderConfig, install, local
  <1>3. ASSUME NEW p \in ProviderConfigNames, mapProviderConfigToRequests(p)
        PROVE  TypeOK'
    BY <1>3, ResourceTypes
       DEF TypeOK, mapProviderConfigToRequests, OtherWrite, install, bounds
  <1>4. ASSUME NEW r \in Requests, GrantRequest(r) \/ RemoveRequest(r)
        PROVE  TypeOK'
    BY <1>4
       DEF TypeOK, GrantRequest, RemoveRequest, install, config, local, bounds
  <1>5. CASE ProvideGateway \/ AcceptRoute \/ RollOut
    BY <1>5
       DEF TypeOK, ProvideGateway, AcceptRoute, RollOut, install, config, local,
           bounds
  <1> QED BY <1>1, <1>2, <1>3, <1>4, <1>5 DEF Environment

(***************************************************************************)
(* Type correctness: whatever the user, the operator, the platform and     *)
(* faults do, every variable keeps to the values the code can give it.     *)
(***************************************************************************)
THEOREM TypeCorrect == Spec => []TypeOK
  <1>1. TypeOK /\ UNCHANGED vars => TypeOK'
    BY DEF TypeOK, vars, local, install, config, bounds
  <1>2. TypeOK /\ [Next]_vars => TypeOK'
    BY <1>1, TypeReconcile, TypeFault, TypeUser, TypeEnvironment DEF Next
  <1> QED BY TypeInit, <1>2, PTL DEF Spec

-----------------------------------------------------------------------------
(* The safety invariants, by way of the inductive invariant SafetyInv.     *)

USE DEF SafetyInv, ResourceInv, ProtectionInv, CopyInv, CreateInv, DeleteInv,
        SomeRequest, InDeletion, AccessGranted, Footprint,
        areAccessRequestsInDeletion, Requests, Components, CreateSteps,
        DeleteSteps, AfterAccess, BeforeID, Uninstalling

\* Initially nothing exists, and the worker holds no copy.
LEMMA SafetyInit == Init => SafetyInv
  BY DEF Init, NoLandscaper

\* Recording the provider config changes nothing but the status.
LEMMA RecordKeepsFields ==
    ASSUME TypeOK, SafetyInv, NEW at, NEW next, NEW status, NEW accepted,
           RecordProviderConfig(at, next, status, accepted)
    PROVE  /\ ls'.exists = ls.exists /\ ls'.deleting = ls.deleting
           /\ ls'.finalizer = ls.finalizer /\ ls'.foreign = ls.foreign
           /\ ls'.id = ls.id
           /\ obj'.exists = obj.exists /\ obj'.deleting = obj.deleting
           /\ obj'.finalizer = obj.finalizer /\ obj'.foreign = obj.foreign
           /\ obj'.id = obj.id
           /\ fresh' = fresh
           /\ pc' \in {next, "finish"}
           /\ UNCHANGED <<requests, install>>
  <1> DEFINE new == [obj EXCEPT !.status.ref = cfg.name]
  <1>1. /\ new.exists = obj.exists /\ new.deleting = obj.deleting
        /\ new.finalizer = obj.finalizer /\ new.foreign = obj.foreign
        /\ new.id = obj.id
    BY DEF TypeOK, Landscapers
  <1>2. obj' = new
    BY DEF RecordProviderConfig, OwnWrite
  <1>3. /\ pc' \in {next, "finish"}
        /\ UNCHANGED <<requests, install>>
    BY DEF RecordProviderConfig, Goto, Return
  <1>4. \/ ls' = ls /\ fresh' = fresh
        \/ ls' = new /\ fresh /\ fresh' = fresh
    <2>1. fresh \in BOOLEAN
      BY DEF TypeOK
    <2>2. \/ UNCHANGED <<ls, queued, fresh>>
          \/ fresh /\ OwnWrite(new)
      BY DEF RecordProviderConfig
    <2> QED BY <2>1, <2>2 DEF OwnWrite
  <1> HIDE DEF new
  <1> QED BY <1>1, <1>2, <1>3, <1>4 DEF TypeOK

\* The create path acquires finalizer, id and access in this order and only
\* then installs, so that each position can rely on the earlier ones.
LEMMA SafetyCreateOrUpdate == TypeOK /\ SafetyInv /\ CreateOrUpdate => SafetyInv'
  <1> SUFFICES ASSUME TypeOK, SafetyInv, CreateOrUpdate PROVE SafetyInv'
    OBVIOUS
  <1>1. CASE EnsureFinalizer
    <2>1. CASE obj.finalizer \/ obj.deleting \/ ~fresh
      BY <1>1, <2>1 DEF EnsureFinalizer, Goto, Return, install
    <2>2. CASE ~obj.finalizer /\ ~obj.deleting /\ fresh
      <3>1. /\ ls' = obj' /\ fresh' /\ ls'.finalizer
            /\ ls'.exists = obj.exists /\ ls'.deleting = obj.deleting
            /\ ls'.id = obj.id /\ ls'.foreign = obj.foreign
        BY <1>1, <2>2 DEF EnsureFinalizer, OwnWrite, TypeOK, Landscapers
      <3> QED BY <1>1, <2>2, <3>1 DEF EnsureFinalizer, Goto, Return, install
    <2> QED BY <2>1, <2>2
  <1>2. CASE CheckReconcileAnnotation
    <2>1. CASE ~obj.annotated \/ ~ls.exists
      BY <1>2, <2>1 DEF CheckReconcileAnnotation, Goto, Return, install
    <2>2. CASE obj.annotated /\ ls.exists
      <3>1. /\ ls' = obj' /\ fresh' /\ ls'.finalizer = ls.finalizer
            /\ ls'.exists = ls.exists /\ ls'.deleting = ls.deleting
            /\ ls'.id = ls.id /\ ls'.foreign = ls.foreign
        BY <1>2, <2>2 DEF CheckReconcileAnnotation, OwnWrite, TypeOK, Landscapers
      <3> QED
        BY <1>2, <2>2, <3>1 DEF CheckReconcileAnnotation, Goto, Return, install
    <2> QED BY <2>1, <2>2
  <1>3. CASE EnsureInstanceID
    <2>1. CASE obj.id \/ ~fresh
      BY <1>3, <2>1 DEF EnsureInstanceID, Goto, Return, install
    <2>2. CASE ~obj.id /\ fresh
      <3>1. /\ ls' = obj' /\ fresh' /\ ls'.finalizer = obj.finalizer
            /\ ls'.exists = obj.exists /\ ls'.deleting = obj.deleting
            /\ ls'.id /\ ls'.foreign = obj.foreign
        BY <1>3, <2>2
           DEF EnsureInstanceID, StoreInstanceID, OwnWrite, TypeOK, Landscapers
      <3> QED
        BY <1>3, <2>2, <3>1
           DEF EnsureInstanceID, Goto, Return, install
    <2> QED BY <2>1, <2>2
  <1>4. CASE GetProviderConfig("getProviderConfig", "recordProviderConfig",
                               setInstallProviderConfigError(st))
    BY <1>4 DEF GetProviderConfig, Return, install
  <1>5. CASE RecordProviderConfig("recordProviderConfig", "clusterAccess",
                                  setInstallProviderConfigError(st),
                                  IsVersionAvailable)
    BY <1>5, RecordKeepsFields DEF RecordProviderConfig, install
  <1>6. CASE ClusterAccess("clusterAccess", "reconcileGateway",
                           setInstallWaitForClusterAccessReady(st))
    BY <1>6 DEF ClusterAccess, WaitForAccess, Goto, Return, TypeOK, install
  <1>7. CASE \/ ReconcileGateway \/ CreateConfig("createConfig", "syncCA") \/ SyncCA
             \/ IsTLSRouteReady \/ CheckReadiness
    BY <1>7
       DEF ReconcileGateway, WaitForGateway, CreateConfig, SyncCA, IsTLSRouteReady,
           CheckReadiness, InstanceReady, Goto, Return, install
  <1>8. CASE InstallLandscaperInstance
    BY <1>8 DEF InstallLandscaperInstance, Install, Goto, TypeOK
  <1>9. CASE ReconcileTLSRoute
    BY <1>9 DEF ReconcileTLSRoute, Return
  <1> QED
    BY <1>1, <1>2, <1>3, <1>4, <1>5, <1>6, <1>7, <1>8, <1>9 DEF CreateOrUpdate

\* The delete path removes the installation, then the requests, and then the
\* finalizer.
LEMMA SafetyDelete == TypeOK /\ SafetyInv /\ Delete => SafetyInv'
  <1> SUFFICES ASSUME TypeOK, SafetyInv, Delete PROVE SafetyInv'
    OBVIOUS
  <1>1. CASE GetProviderConfig("getProviderConfigD", "recordProviderConfigD",
                               setUninstallProviderConfigError(st))
    BY <1>1 DEF GetProviderConfig, Return, install
  <1>2. CASE RecordProviderConfig("recordProviderConfigD", "accessInDeletion",
                                  setUninstallProviderConfigError(st), TRUE)
    BY <1>2, RecordKeepsFields DEF RecordProviderConfig, install
  <1>3. CASE AccessInDeletion
    BY <1>3 DEF AccessInDeletion, Goto, TypeOK, install
  <1>4. CASE ClusterAccess("clusterAccessD", "createConfigD",
                           setUninstallWaitForClusterAccessReady(st))
    BY <1>4 DEF ClusterAccess, WaitForAccess, Goto, Return, TypeOK, install
  <1>5. CASE CreateConfig("createConfigD", "deleteTLSRoute")
    BY <1>5 DEF CreateConfig, Goto, install
  <1>6. CASE DeleteTLSRoute \/ DeleteCA
    BY <1>6 DEF DeleteTLSRoute, DeleteCA, Goto
  <1>7. CASE UninstallLandscaperInstance
    <2>1. CASE Uninstall("uninstallLandscaper", "landscaper", "uninstallHelm")
      BY <1>7, <2>1 DEF Uninstall, TypeOK
    <2>2. CASE Uninstall("uninstallHelm", "helm", "uninstallManifest")
      BY <1>7, <2>2 DEF Uninstall, TypeOK
    <2>3. CASE Uninstall("uninstallManifest", "manifest", "uninstallRBAC")
      BY <1>7, <2>3 DEF Uninstall, TypeOK
    <2>4. CASE Uninstall("uninstallRBAC", "rbac", "reconcileDelete")
      BY <1>7, <2>4 DEF Uninstall, TypeOK
    <2> QED BY <1>7, <2>1, <2>2, <2>3, <2>4 DEF UninstallLandscaperInstance
  <1>8. CASE ReconcileDelete
    BY <1>8 DEF ReconcileDelete, RequestsGone, WaitForRelease, Goto, Return, TypeOK, install
  <1>9. CASE RemoveFinalizer
    <2>1. CASE ~obj.finalizer \/ ~fresh
      BY <1>9, <2>1 DEF RemoveFinalizer, Return, install
    <2>2. CASE obj.finalizer /\ fresh
      <3>1. /\ obj'.exists = obj.exists /\ obj'.deleting = obj.deleting
            /\ ~obj'.finalizer /\ obj'.foreign = obj.foreign /\ obj'.id = obj.id
            /\ fresh' = obj.foreign
            /\ ls' = IF obj.foreign THEN obj' ELSE NoLandscaper
            /\ pc' = "finish" /\ UNCHANGED <<requests, components, route>>
        BY <1>9, <2>2 DEF RemoveFinalizer, Return, install, TypeOK, Landscapers
      <3> QED BY <1>9, <2>2, <3>1 DEF RemoveFinalizer, NoLandscaper
    <2> QED BY <2>1, <2>2
  <1> QED
    BY <1>1, <1>2, <1>3, <1>4, <1>5, <1>6, <1>7, <1>8, <1>9 DEF Delete

\* A step of the worker: taking the key, a handler, or the status update,
\* which leaves everything but the status alone.
LEMMA SafetyReconcile == TypeOK /\ SafetyInv /\ Reconcile => SafetyInv'
  <1> SUFFICES ASSUME TypeOK, SafetyInv, Reconcile PROVE SafetyInv'
    OBVIOUS
  <1>1. CASE Get
    BY <1>1 DEF Get, TypeOK, Landscapers, IsDeletion, local, install
  <1>2. CASE Finish
    <2>1. /\ ls'.exists = ls.exists /\ ls'.deleting = ls.deleting
          /\ ls'.finalizer = ls.finalizer /\ ls'.foreign = ls.foreign
          /\ ls'.id = ls.id
      <3>1. PICK status : ls' = ls \/ (fresh /\ ls' = [obj EXCEPT !.status = status])
        BY <1>2 DEF Finish
      <3>2. CASE ls' = ls
        BY <3>2
      <3>3. CASE fresh /\ ls' = [obj EXCEPT !.status = status]
        <4>1. /\ ls'.exists = obj.exists /\ ls'.deleting = obj.deleting
              /\ ls'.finalizer = obj.finalizer /\ ls'.foreign = obj.foreign
              /\ ls'.id = obj.id
          BY <3>3 DEF TypeOK, Landscapers
        <4> QED BY <3>3, <4>1 DEF TypeOK, Landscapers
      <3> QED BY <3>1, <3>2, <3>3
    <2> QED BY <1>2, <2>1 DEF Finish, Rest, install
  <1> QED
    BY <1>1, <1>2, SafetyCreateOrUpdate, SafetyDelete DEF Reconcile

\* A failing call or a crash ends the reconciliation where it stands, with at
\* most a part of the call's effect.
LEMMA SafetyFault == TypeOK /\ SafetyInv /\ Fault => SafetyInv'
  <1> SUFFICES ASSUME TypeOK, SafetyInv, Fault PROVE SafetyInv'
    OBVIOUS
  <1>1. CASE CallFails
    <2>1. /\ KeptCopy.exists = obj.exists /\ KeptCopy.deleting = obj.deleting
          /\ KeptCopy.finalizer = obj.finalizer /\ KeptCopy.foreign = obj.foreign
          /\ KeptCopy.id = obj.id
      BY DEF KeptCopy, TypeOK, Landscapers
    <2> QED
      BY <1>1, <2>1 DEF CallFails, Return, install
  <1>2. ASSUME NEW at, NEW c \in Components, InstallFails(at, c), at \in AfterAccess
        PROVE  SafetyInv'
    BY <1>2 DEF InstallFails, InstallError, Return, TypeOK
  <1>3. ASSUME NEW at, NEW c \in Components, UninstallFails(at, c)
        PROVE  SafetyInv'
    BY <1>3 DEF UninstallFails, UninstallError, Return, TypeOK
  <1>4. CASE InstallerFails
    BY <1>2, <1>3, <1>4 DEF InstallerFails
  <1>5. CASE ReconcileDeleteFails
    BY <1>5 DEF ReconcileDeleteFails, Return, install, TypeOK
  <1>6. CASE HandlerFails
    BY <1>6 DEF HandlerFails, install, local
  <1>7. CASE Crash
    BY <1>7 DEF Crash, Rest, install
  <1>8. CASE Outage
    BY <1>8 DEF Outage, local
  <1> QED BY <1>1, <1>4, <1>5, <1>6, <1>7, <1>8 DEF Fault

\* The user changes nothing of finalizer, id, requests or installation, and
\* makes the worker's copy stale.
LEMMA SafetyUser == TypeOK /\ SafetyInv /\ User => SafetyInv'
  <1> SUFFICES ASSUME TypeOK, SafetyInv, User PROVE SafetyInv'
    OBVIOUS
  <1>1. UNCHANGED <<requests, install, pc, obj>>
    BY DEF User, Create, Edit, Annotate, RequestDeletion
  <1>2. CASE Create
    <2>1. ~ls.exists /\ ls'.exists /\ ~ls'.deleting /\ ~ls'.finalizer /\ ~fresh'
      BY <1>2 DEF Create, OtherWrite, NoLandscaper
    <2> QED BY <1>1, <2>1 DEF TypeOK, install
  <1>3. CASE Edit
    <2>1. /\ ~fresh' /\ ls'.exists = ls.exists /\ ls'.deleting = ls.deleting
          /\ ls'.finalizer = ls.finalizer /\ ls'.id = ls.id
      BY <1>3 DEF Edit, OtherWrite, TypeOK, Landscapers
    <2> QED BY <1>1, <2>1 DEF install
  <1>4. CASE Annotate
    <2>1. /\ ~fresh' /\ ls'.exists = ls.exists /\ ls'.deleting = ls.deleting
          /\ ls'.finalizer = ls.finalizer /\ ls'.id = ls.id
      BY <1>4 DEF Annotate, OtherWrite, TypeOK, Landscapers
    <2> QED BY <1>1, <2>1 DEF install
  <1>5. CASE RequestDeletion
    <2>1. CASE ls.finalizer \/ ls.foreign
      <3>1. /\ ~fresh' /\ ls'.exists = ls.exists /\ ls'.exists /\ ls'.deleting
            /\ ls'.finalizer = ls.finalizer /\ ls'.id = ls.id
        BY <1>5, <2>1 DEF RequestDeletion, OtherWrite, TypeOK, Landscapers
      <3> QED BY <1>1, <3>1 DEF install
    <2>2. CASE ~(ls.finalizer \/ ls.foreign)
      <3>1. ~fresh' /\ ~ls.finalizer /\ ls' = NoLandscaper
        BY <1>5, <2>2 DEF RequestDeletion, OtherWrite
      <3> QED BY <1>1, <3>1 DEF install, NoLandscaper
    <2> QED BY <2>1, <2>2
  <1> QED BY <1>2, <1>3, <1>4, <1>5 DEF User

\* A request is only removed after the worker has begun to delete it, that is
\* when nothing is installed any more; the rest of the environment does not
\* touch what the invariant speaks of.
LEMMA SafetyEnvironment ==
    TypeOK /\ SafetyInv /\ Environment => SafetyInv'
  <1> SUFFICES ASSUME TypeOK, SafetyInv, Environment PROVE SafetyInv'
    OBVIOUS
  <1>1. CASE ReleaseForeign
    <2>1. UNCHANGED <<requests, install, pc, obj>> /\ ~fresh'
      BY <1>1 DEF ReleaseForeign, OtherWrite
    <2>2. CASE ls.finalizer
      <3>1. /\ ls'.exists = ls.exists /\ ls'.deleting = ls.deleting
            /\ ls'.finalizer = ls.finalizer /\ ls'.id = ls.id
        BY <1>1, <2>2 DEF ReleaseForeign, OtherWrite, TypeOK, Landscapers
      <3> QED BY <2>1, <3>1 DEF install
    <2>3. CASE ~ls.finalizer
      <3>1. ls' = NoLandscaper
        BY <1>1, <2>3 DEF ReleaseForeign, OtherWrite
      <3> QED BY <2>1, <2>3, <3>1 DEF install, NoLandscaper
    <2> QED BY <2>2, <2>3
  <1>2. CASE EditProviderConfig
    BY <1>2 DEF EditProviderConfig, install, local
  <1>3. ASSUME NEW p \in ProviderConfigNames, mapProviderConfigToRequests(p)
        PROVE  SafetyInv'
    <2>1. UNCHANGED <<requests, install, pc, obj>>
      BY <1>3 DEF mapProviderConfigToRequests
    <2>2. \/ UNCHANGED <<ls, fresh>>
          \/ ~fresh' /\ ls' = [ls EXCEPT !.annotated = TRUE]
      BY <1>3 DEF mapProviderConfigToRequests, OtherWrite
    <2>3. CASE UNCHANGED <<ls, fresh>>
      BY <2>1, <2>3 DEF install
    <2>4. CASE ~fresh' /\ ls' = [ls EXCEPT !.annotated = TRUE]
      <3>1. /\ ls'.exists = ls.exists /\ ls'.deleting = ls.deleting
            /\ ls'.finalizer = ls.finalizer /\ ls'.id = ls.id
        BY <2>4 DEF TypeOK, Landscapers
      <3> QED BY <2>1, <2>4, <3>1 DEF install
    <2> QED BY <2>2, <2>3, <2>4
  <1>4. ASSUME NEW r \in Requests, GrantRequest(r) PROVE SafetyInv'
    BY <1>4 DEF GrantRequest, install, local, TypeOK
  <1>5. ASSUME NEW r \in Requests, RemoveRequest(r) PROVE SafetyInv'
    BY <1>5 DEF RemoveRequest, install, local, TypeOK
  <1>6. CASE ProvideGateway
    BY <1>6 DEF ProvideGateway, install, local
  <1>7. CASE AcceptRoute
    BY <1>7 DEF AcceptRoute, local
  <1>8. CASE RollOut
    BY <1>8 DEF RollOut, local
  <1> QED
    BY <1>1, <1>2, <1>3, <1>4, <1>5, <1>6, <1>7, <1>8 DEF Environment

HIDE DEF SafetyInv, ResourceInv, ProtectionInv, CopyInv, CreateInv, DeleteInv,
         SomeRequest, InDeletion, AccessGranted, Footprint,
         areAccessRequestsInDeletion, Requests, Components, CreateSteps,
         DeleteSteps, AfterAccess, BeforeID, Uninstalling

(***************************************************************************)
(* SafetyInv is an invariant: wherever the worker stands in reconcile(),   *)
(* the facts it relies on hold, whatever users, operators, faults and the  *)
(* platform have done since it read the resource.                          *)
(***************************************************************************)
THEOREM SafetyCorrect == Spec => []SafetyInv
  <1>1. Init => SafetyInv
    BY SafetyInit
  <1>2. TypeOK /\ SafetyInv /\ [Next]_vars => SafetyInv'
    <2> SUFFICES ASSUME TypeOK, SafetyInv, [Next]_vars PROVE SafetyInv'
      OBVIOUS
    <2>1. CASE UNCHANGED vars
      BY <2>1
         DEF vars, install, local, SafetyInv, ResourceInv, ProtectionInv, CopyInv,
             CreateInv, DeleteInv, SomeRequest, InDeletion, AccessGranted,
             Footprint, areAccessRequestsInDeletion
    <2> QED
      BY <2>1, SafetyReconcile, SafetyFault, SafetyUser, SafetyEnvironment
         DEF Next
  <1> QED BY <1>1, <1>2, TypeCorrect, PTL DEF Spec

(***************************************************************************)
(* NoOrphans: without the finalizer there is no component, no route and no *)
(* access request.                                                         *)
(***************************************************************************)
THEOREM NoOrphansCorrect == Spec => []NoOrphans
  <1>1. SafetyInv => NoOrphans
    BY DEF NoOrphans, SafetyInv, ResourceInv, ProtectionInv, SomeRequest
  <1> QED BY <1>1, SafetyCorrect, PTL

(***************************************************************************)
(* UninstallBeforeRelease: what is installed can be reached through both   *)
(* access requests, until its uninstallation is complete.                  *)
(***************************************************************************)
THEOREM UninstallBeforeReleaseCorrect == Spec => []UninstallBeforeRelease
  <1>1. SafetyInv => UninstallBeforeRelease
    BY DEF UninstallBeforeRelease, SafetyInv, ProtectionInv
  <1> QED BY <1>1, SafetyCorrect, PTL

-----------------------------------------------------------------------------
(* Requests.                                                               *)

\* A request appears only where the worker reconciles its cluster access.
LEMMA RequestsAppear ==
    ASSUME TypeOK, [Next]_vars, NEW r \in Requests,
           requests[r] = "absent", requests'[r] # "absent"
    PROVE  \/ ClusterAccess("clusterAccess", "reconcileGateway",
                            setInstallWaitForClusterAccessReady(st))
           \/ ClusterAccess("clusterAccessD", "createConfigD",
                            setUninstallWaitForClusterAccessReady(st))
  <1>1. requests' # requests
    OBVIOUS
  <1>2. CASE UNCHANGED vars
    BY <1>1, <1>2 DEF vars
  <1>3. CASE Get \/ Finish
    BY <1>1, <1>3 DEF Get, Finish
  <1>4. CASE CreateOrUpdate
    BY <1>1, <1>4
       DEF CreateOrUpdate, EnsureFinalizer, CheckReconcileAnnotation,
           EnsureInstanceID, GetProviderConfig, RecordProviderConfig,
           ReconcileGateway, CreateConfig, SyncCA, InstallLandscaperInstance,
           Install, ReconcileTLSRoute, IsTLSRouteReady, CheckReadiness
  <1>5. CASE Delete
    <2>1. ~ReconcileDelete
      BY DEF ReconcileDelete
    <2> QED
      BY <1>1, <1>5, <2>1
         DEF Delete, GetProviderConfig, RecordProviderConfig, AccessInDeletion,
             CreateConfig, DeleteTLSRoute, DeleteCA, UninstallLandscaperInstance,
             Uninstall, RemoveFinalizer
  <1>6. CASE Fault
    <2>1. ~ReconcileDeleteFails
      BY DEF ReconcileDeleteFails, TypeOK
    <2> QED
      BY <1>1, <1>6, <2>1
         DEF Fault, CallFails, InstallerFails, InstallFails, UninstallFails,
             HandlerFails, Crash, Outage
  <1>7. CASE User
    BY <1>1, <1>7 DEF User, Create, Edit, Annotate, RequestDeletion
  <1>8. CASE Environment
    <2>1. \A q \in Requests : ~GrantRequest(q) /\ ~RemoveRequest(q)
      BY DEF GrantRequest, RemoveRequest, TypeOK
    <2> QED
      BY <1>1, <1>8, <2>1
         DEF Environment, ReleaseForeign, EditProviderConfig,
             mapProviderConfigToRequests, ProvideGateway, AcceptRoute, RollOut
  <1> QED
    BY <1>2, <1>3, <1>4, <1>5, <1>6, <1>7, <1>8 DEF Next, Reconcile

(***************************************************************************)
(* NoRecreateRequests: the delete path comes to its cluster access only    *)
(* while both requests exist, and the create path not while one of them is *)
(* being deleted.                                                          *)
(***************************************************************************)
THEOREM NoRecreateCorrect == Spec => NoRecreateRequests
  <1> DEFINE Step ==
        (pc \in DeleteSteps \/ \E r \in Requests : requests[r] = "deleting") =>
            \A r \in Requests : requests[r] = "absent" => requests'[r] = "absent"
  <1>1. TypeOK /\ SafetyInv /\ [Next]_vars => Step
    <2> SUFFICES ASSUME TypeOK, SafetyInv, [Next]_vars,
                        pc \in DeleteSteps \/ InDeletion,
                        NEW r \in Requests, requests[r] = "absent",
                        requests'[r] # "absent"
                 PROVE  FALSE
      BY DEF InDeletion
    <2>1. pc \in {"clusterAccess", "clusterAccessD"}
      BY RequestsAppear DEF ClusterAccess
    <2>2. CASE pc = "clusterAccess"
      BY <2>2 DEF SafetyInv, CreateInv, CreateSteps, DeleteSteps
    <2>3. CASE pc = "clusterAccessD"
      BY <2>3 DEF SafetyInv, DeleteInv, areAccessRequestsInDeletion
    <2> QED BY <2>1, <2>2, <2>3
  <1>2. TypeOK /\ SafetyInv /\ [Next]_vars => [Step]_vars
    BY <1>1
  <1>3. [][Step]_vars <=> NoRecreateRequests
    BY DEF NoRecreateRequests
  <1> HIDE DEF Step
  <1> QED BY <1>2, <1>3, TypeCorrect, SafetyCorrect, PTL DEF Spec

-----------------------------------------------------------------------------
(* What the steps do to the resource, the worker's copy and its status.    *)

\* Two statuses agree on all but the readiness condition and the reference.
SameStatus(s, t) ==
    /\ t.phase = s.phase /\ t.observedGeneration = s.observedGeneration
    /\ t.installed = s.installed /\ t.uninstalled = s.uninstalled

\* Two copies of a resource agree on what the user wants and on the status.
SameContent(a, b) ==
    /\ b.exists = a.exists /\ b.deleting = a.deleting
    /\ b.version = a.version /\ b.generation = a.generation
    /\ SameStatus(a.status, b.status)

\* No resource, and the status of a new one.
LEMMA EmptyRecords ==
    /\ ~NoLandscaper.exists /\ ~NoLandscaper.deleting /\ ~NoLandscaper.finalizer
    /\ NoLandscaper.status = EmptyStatus
    /\ EmptyStatus.phase = "" /\ EmptyStatus.observedGeneration = 0
    /\ EmptyStatus.installed.status = "nil"
    /\ EmptyStatus.uninstalled.status = "nil"
  BY DEF NoLandscaper, EmptyStatus, NoCondition

\* The writes that change only metadata keep the content.
LEMMA ContentKept ==
    ASSUME NEW o \in Landscapers
    PROVE  /\ SameContent(o, o)
           /\ \A b \in BOOLEAN : /\ SameContent(o, [o EXCEPT !.annotated = b])
                                 /\ SameContent(o, [o EXCEPT !.finalizer = b])
                                 /\ SameContent(o, [o EXCEPT !.foreign = b])
                                 /\ SameContent(o, [o EXCEPT !.id = b])
           /\ \A p \in ConfigRefs : SameContent(o, [o EXCEPT !.status.ref = p])
  BY DEF Landscapers, LandscaperStatuses, SameContent, SameStatus

\* A status that promises no more than the one before.
Setback(s, t) ==
    /\ t \in ReconcileStatuses
    /\ t.phase = s.phase /\ t.observedGeneration = s.observedGeneration
    /\ t.installed.status = "True" => s.installed.status = "True"
    /\ t.uninstalled.status = "True" => s.uninstalled.status = "True"

\* Every setter but setInstalled, setReady and setUninstalled is a setback.
LEMMA SettersAreSetbacks ==
    ASSUME NEW s \in ReconcileStatuses
    PROVE  /\ Setback(s, s)
           /\ Setback(s, setInstallWaitForClusterAccessReady(s))
           /\ Setback(s, setUninstallWaitForClusterAccessReady(s))
           /\ Setback(s, setWaitForReadinessCheck(s))
           /\ Setback(s, setInstallFailed(s))
           /\ Setback(s, setUninstallFailed(s))
           /\ Setback(s, setInstallClusterAccessError(s))
           /\ Setback(s, setUninstallClusterAccessError(s))
           /\ Setback(s, setInstallProviderConfigError(s))
           /\ Setback(s, setUninstallProviderConfigError(s))
           /\ Setback(s, setInstallConfigurationError(s))
           /\ Setback(s, setUninstallConfigurationError(s))
           /\ Setback(s, setInstallDNSConfigFailed(s))
           /\ Setback(s, setInstallWaitForDNSReady(s))
           /\ Setback(s, SetUninstallDNSConfigFailed(s))
  <1>1. \A reason :
           LET c == Condition("False", reason)
           IN  /\ [s EXCEPT !.installed = c] \in ReconcileStatuses =>
                      Setback(s, [s EXCEPT !.installed = c])
               /\ [s EXCEPT !.uninstalled = c] \in ReconcileStatuses =>
                      Setback(s, [s EXCEPT !.uninstalled = c])
               /\ [s EXCEPT !.ready = c] \in ReconcileStatuses =>
                      Setback(s, [s EXCEPT !.ready = c])
    BY DEF Setback, Condition, ReconcileStatuses
  <1>2. Setback(s, s)
    BY DEF Setback
  <1> QED
    BY <1>1, <1>2, StatusTypes
       DEF setInstallWaitForClusterAccessReady,
           setUninstallWaitForClusterAccessReady, setWaitForReadinessCheck,
           setInstallFailed, setUninstallFailed, setInstallClusterAccessError,
           setUninstallClusterAccessError, setInstallProviderConfigError,
           setUninstallProviderConfigError, setInstallConfigurationError,
           setUninstallConfigurationError, setInstallDNSConfigFailed,
           setInstallWaitForDNSReady, SetUninstallDNSConfigFailed

\* The three setters that promise something.
LEMMA SettersThatPromise ==
    ASSUME NEW s \in ReconcileStatuses
    PROVE  /\ setInstalled(s).phase = s.phase
           /\ setInstalled(s).observedGeneration = s.observedGeneration
           /\ setInstalled(s).uninstalled = s.uninstalled
           /\ setReady(s).phase = "Ready"
           /\ setReady(s).observedGeneration = s.observedGeneration
           /\ setReady(s).installed = s.installed
           /\ setReady(s).uninstalled = s.uninstalled
           /\ setUninstalled(s).phase = s.phase
           /\ setUninstalled(s).observedGeneration = s.observedGeneration
           /\ setUninstalled(s).installed = s.installed
  BY DEF ReconcileStatuses, setInstalled, setReady, setUninstalled, Condition

\* What a failing call records is a setback.
LEMMA FailuresAreSetbacks == TypeOK => Setback(st, FailureStatus)
  BY SettersAreSetbacks DEF TypeOK, FailureStatus

\* The steps of the worker between Get and Finish, and the failing ones.
Handler ==
    \/ CreateOrUpdate \/ Delete
    \/ CallFails \/ InstallerFails \/ ReconcileDeleteFails

\* A fresh copy has the content of the stored resource.
FreshInv == fresh => SameContent(ls, obj)

\* A handler keeps the content of the stored resource and of the worker's
\* copy; only the patch that removes the annotation takes over what is stored.
KeepsContent ==
    /\ SameContent(ls, ls')
    /\ \/ SameContent(obj, obj') /\ fresh' = fresh
       \/ /\ pc = "checkReconcileAnnotation"
          /\ ls.exists /\ SameContent(ls, obj') /\ fresh'
    /\ queued' \in {queued, "now"}

\* The removal of the last finalizer.
LetsGo ==
    /\ RemoveFinalizer /\ pc = "removeFinalizer"
    /\ ls' = NoLandscaper
    /\ SameContent(obj, obj')
    /\ ~fresh' /\ queued' = "now"

LEMMA HandlerKeepsContent ==
    ASSUME TypeOK, FreshInv, Handler
    PROVE  KeepsContent \/ LetsGo
  <1>1. /\ obj \in Landscapers /\ ls \in Landscapers /\ cfg.name \in ConfigRefs
        /\ fresh \in BOOLEAN
    BY DEF TypeOK, ReadConfigs
  <1>2. SameContent(ls, ls) /\ SameContent(obj, obj)
    BY <1>1, ContentKept
  <1>3. CASE UNCHANGED <<ls, queued, obj, fresh>>
    BY <1>2, <1>3 DEF KeepsContent
  <1>4. CASE EnsureFinalizer
    <2>1. SameContent(obj, [obj EXCEPT !.finalizer = TRUE])
      BY <1>1, ContentKept
    <2> QED
      BY <1>1, <1>3, <1>4, <2>1
         DEF EnsureFinalizer, OwnWrite, KeepsContent, FreshInv, SameContent,
             SameStatus
  <1>5. CASE CheckReconcileAnnotation
    <2>1. SameContent(ls, [ls EXCEPT !.annotated = FALSE])
      BY <1>1, ContentKept
    <2> QED
      BY <1>3, <1>5, <2>1 DEF CheckReconcileAnnotation, OwnWrite, KeepsContent
  <1>6. CASE EnsureInstanceID
    <2>1. SameContent(obj, [obj EXCEPT !.id = TRUE])
      BY <1>1, ContentKept
    <2> QED
      BY <1>1, <1>3, <1>6, <2>1
         DEF EnsureInstanceID, StoreInstanceID, OwnWrite, KeepsContent, FreshInv,
             SameContent, SameStatus
  <1>7. ASSUME NEW at, NEW next, NEW status, NEW accepted,
               RecordProviderConfig(at, next, status, accepted)
        PROVE  KeepsContent
    <2>1. SameContent(obj, [obj EXCEPT !.status.ref = cfg.name])
      BY <1>1, ContentKept
    <2>2. \/ /\ UNCHANGED <<ls, queued, fresh>>
             /\ obj' = [obj EXCEPT !.status.ref = cfg.name]
          \/ fresh /\ OwnWrite([obj EXCEPT !.status.ref = cfg.name])
      BY <1>7 DEF RecordProviderConfig, OwnWrite
    <2> QED
      BY <1>1, <1>2, <2>1, <2>2
         DEF OwnWrite, KeepsContent, FreshInv, SameContent, SameStatus
  <1>8. CASE RemoveFinalizer
    <2>1. SameContent(obj, [obj EXCEPT !.finalizer = FALSE])
      BY <1>1, ContentKept
    <2>2. CASE obj.finalizer /\ fresh /\ obj.foreign
      <3>1. /\ ls' = [obj EXCEPT !.finalizer = FALSE]
            /\ obj' = [obj EXCEPT !.finalizer = FALSE]
            /\ fresh' = fresh /\ queued' = "now"
        BY <1>1, <1>8, <2>2 DEF RemoveFinalizer
      <3> QED
        BY <2>1, <2>2, <3>1 DEF KeepsContent, FreshInv, SameContent, SameStatus
    <2>3. CASE obj.finalizer /\ fresh /\ ~obj.foreign
      BY <1>8, <2>1, <2>3 DEF RemoveFinalizer, LetsGo
    <2> QED BY <1>3, <1>8, <2>2, <2>3 DEF RemoveFinalizer
  <1>9. CASE CallFails
    <2>1. SameContent(obj, KeptCopy)
      BY <1>1, <1>2, ContentKept DEF KeptCopy
    <2> QED BY <1>2, <1>9, <2>1 DEF CallFails, KeepsContent
  <1>10. CASE \/ GetProviderConfig("getProviderConfig", "recordProviderConfig",
                                   setInstallProviderConfigError(st))
              \/ GetProviderConfig("getProviderConfigD", "recordProviderConfigD",
                                   setUninstallProviderConfigError(st))
              \/ ClusterAccess("clusterAccess", "reconcileGateway",
                               setInstallWaitForClusterAccessReady(st))
              \/ ClusterAccess("clusterAccessD", "createConfigD",
                               setUninstallWaitForClusterAccessReady(st))
              \/ ReconcileGateway
              \/ CreateConfig("createConfig", "syncCA")
              \/ CreateConfig("createConfigD", "deleteTLSRoute")
              \/ SyncCA \/ InstallLandscaperInstance \/ ReconcileTLSRoute
              \/ IsTLSRouteReady \/ CheckReadiness \/ AccessInDeletion
              \/ DeleteTLSRoute \/ DeleteCA \/ UninstallLandscaperInstance
              \/ ReconcileDelete \/ InstallerFails \/ ReconcileDeleteFails
    BY <1>3, <1>10
       DEF GetProviderConfig, ClusterAccess, ReconcileGateway, CreateConfig,
           SyncCA, InstallLandscaperInstance, Install, ReconcileTLSRoute,
           IsTLSRouteReady, CheckReadiness, AccessInDeletion, DeleteTLSRoute,
           DeleteCA, UninstallLandscaperInstance, Uninstall, ReconcileDelete,
           InstallerFails, InstallFails, UninstallFails, ReconcileDeleteFails
  <1> QED
    BY <1>4, <1>5, <1>6, <1>7, <1>8, <1>9, <1>10
       DEF Handler, CreateOrUpdate, Delete

\* Where a handler goes, and what it adds to the status that is built up.
LEMMA HandlerMoves ==
    ASSUME TypeOK, Handler
    PROVE  /\ \/ pc \in CreateSteps /\ pc' \in CreateSteps \cup {"finish"}
              \/ pc \in DeleteSteps /\ pc' \in DeleteSteps \cup {"finish"}
           /\ \/ Setback(st, st')
              \/ /\ pc = "reconcileTLSRoute" /\ pc' = "isTLSRouteReady"
                 /\ st' = setInstalled(st)
              \/ /\ pc = "checkReadiness" /\ pc' = "finish"
                 /\ st' = setReady(st)
              \/ /\ pc = "uninstallRBAC" /\ pc' = "reconcileDelete"
                 /\ st' = setUninstalled(st)
           /\ (pc' = "finish" /\ res' = "done") =>
                 pc = "removeFinalizer" /\ ~obj'.finalizer
  <1> DEFINE P ==
        /\ \/ pc \in CreateSteps /\ pc' \in CreateSteps \cup {"finish"}
           \/ pc \in DeleteSteps /\ pc' \in DeleteSteps \cup {"finish"}
        /\ Setback(st, st')
        /\ pc' = "finish" => res' # "done"
  <1>1. st \in ReconcileStatuses /\ obj \in Landscapers
    BY DEF TypeOK
  <1>2. CASE \/ EnsureFinalizer \/ CheckReconcileAnnotation \/ EnsureInstanceID
             \/ GetProviderConfig("getProviderConfig", "recordProviderConfig",
                                  setInstallProviderConfigError(st))
             \/ RecordProviderConfig("recordProviderConfig", "clusterAccess",
                                     setInstallProviderConfigError(st),
                                     IsVersionAvailable)
             \/ ClusterAccess("clusterAccess", "reconcileGateway",
                              setInstallWaitForClusterAccessReady(st))
             \/ ReconcileGateway
             \/ CreateConfig("createConfig", "syncCA")
             \/ SyncCA
             \/ InstallLandscaperInstance
    <2>1. P
      BY <1>1, <1>2, SettersAreSetbacks
         DEF EnsureFinalizer, CheckReconcileAnnotation, EnsureInstanceID,
             GetProviderConfig, RecordProviderConfig, ClusterAccess,
             WaitForAccess, ReconcileGateway, WaitForGateway, CreateConfig,
             SyncCA, InstallLandscaperInstance, Install, Goto, Return,
             CreateSteps
    <2> QED BY <2>1
  <1>3. CASE ReconcileTLSRoute \/ IsTLSRouteReady
    BY <1>1, <1>3, SettersAreSetbacks
       DEF ReconcileTLSRoute, IsTLSRouteReady, Goto, Return, CreateSteps
  <1>4. CASE CheckReadiness
    BY <1>1, <1>4, SettersAreSetbacks
       DEF CheckReadiness, InstanceReady, Return, CreateSteps
  <1>5. CASE \/ GetProviderConfig("getProviderConfigD", "recordProviderConfigD",
                                  setUninstallProviderConfigError(st))
             \/ RecordProviderConfig("recordProviderConfigD", "accessInDeletion",
                                     setUninstallProviderConfigError(st), TRUE)
             \/ AccessInDeletion
             \/ ClusterAccess("clusterAccessD", "createConfigD",
                              setUninstallWaitForClusterAccessReady(st))
             \/ CreateConfig("createConfigD", "deleteTLSRoute")
             \/ DeleteTLSRoute \/ DeleteCA \/ ReconcileDelete
    <2>1. P
      BY <1>1, <1>5, SettersAreSetbacks
         DEF GetProviderConfig, RecordProviderConfig, AccessInDeletion,
             ClusterAccess, WaitForAccess, CreateConfig, DeleteTLSRoute,
             DeleteCA, ReconcileDelete, WaitForRelease, Goto, Return,
             DeleteSteps
    <2> QED BY <2>1
  <1>6. CASE UninstallLandscaperInstance
    BY <1>1, <1>6, SettersAreSetbacks
       DEF UninstallLandscaperInstance, Uninstall, DeleteSteps
  <1>7. CASE RemoveFinalizer
    <2>1. ~[obj EXCEPT !.finalizer = FALSE].finalizer
      BY <1>1 DEF Landscapers
    <2> QED
      BY <1>1, <1>7, <2>1, SettersAreSetbacks
         DEF RemoveFinalizer, Return, DeleteSteps
  <1>8. CASE CallFails \/ InstallerFails \/ ReconcileDeleteFails
    <2>1. P
      BY <1>1, <1>8, SettersAreSetbacks, FailuresAreSetbacks
         DEF CallFails, InstallerFails, InstallFails, InstallError,
             UninstallFails, UninstallError, ReconcileDeleteFails, Return,
             CreateSteps, DeleteSteps
    <2> QED BY <2>1
  <1> QED
    BY <1>2, <1>3, <1>4, <1>5, <1>6, <1>7, <1>8
       DEF Handler, CreateOrUpdate, Delete

-----------------------------------------------------------------------------
(* What the others do to the resource.                                     *)

\* The steps of anybody but the worker.
Others ==
    \/ HandlerFails \/ Outage \/ User \/ Environment

Created ==
    /\ ~ls.exists /\ ls'.exists /\ ~ls'.deleting /\ ~ls'.finalizer
    /\ ls'.version \in Versions /\ ls'.generation = 1
    /\ ls'.status = EmptyStatus

Edited ==
    /\ ls.exists /\ ls'.exists
    /\ ls'.version \in Versions /\ ls'.generation = ls.generation + 1
    /\ ls'.deleting = ls.deleting /\ ls'.finalizer = ls.finalizer
    /\ ls'.status = ls.status

Touched ==
    /\ ls.exists /\ SameContent(ls, ls')
    /\ ls'.finalizer = ls.finalizer

MarkedDeleted ==
    /\ ls.exists /\ ls'.exists /\ ~ls.deleting /\ ls'.deleting
    /\ ls'.generation = ls.generation + 1
    /\ ls'.version = ls.version /\ ls'.finalizer = ls.finalizer
    /\ ls'.status = ls.status

Vanished == ls.exists /\ ~ls.finalizer /\ ls' = NoLandscaper

\* Whoever else writes the resource makes the worker's copy stale and puts
\* the key into the queue; the worker itself stays where it is.
LEMMA OthersWrite ==
    ASSUME TypeOK, Others
    PROVE  /\ UNCHANGED <<pc, obj, oldStatus, st, cfg, res, components>>
           /\ \/ UNCHANGED <<ls, queued, fresh>>
              \/ /\ Created \/ Edited \/ Touched \/ MarkedDeleted \/ Vanished
                 /\ ~fresh' /\ queued' = "now"
           /\ route' = route \/ (route # "absent" /\ route' # "absent")
  <1>1. ls \in Landscapers
    BY DEF TypeOK
  <1>2. UNCHANGED <<pc, obj, oldStatus, st, cfg, res, components>>
    BY DEF Others, HandlerFails, Outage, User, Create, Edit, Annotate,
           RequestDeletion, Environment, ReleaseForeign, EditProviderConfig,
           mapProviderConfigToRequests, GrantRequest, RemoveRequest,
           ProvideGateway, AcceptRoute, RollOut, install, local
  <1>3. route' = route \/ (route # "absent" /\ route' # "absent")
    BY DEF Others, HandlerFails, Outage, User, Create, Edit, Annotate,
           RequestDeletion, Environment, ReleaseForeign, EditProviderConfig,
           mapProviderConfigToRequests, GrantRequest, RemoveRequest,
           ProvideGateway, AcceptRoute, RollOut, install, local
  <1> DEFINE W == /\ Created \/ Edited \/ Touched \/ MarkedDeleted \/ Vanished
                  /\ ~fresh' /\ queued' = "now"
  <1>4. CASE Create
    <2>1. PICK v \in Versions, p \in ConfigRefs, f \in ForeignFinalizers :
              OtherWrite([NoLandscaper EXCEPT !.exists = TRUE, !.version = v,
                              !.ref = p, !.foreign = f, !.generation = 1])
      BY <1>4 DEF Create
    <2>2. Created
      BY <1>4, <2>1 DEF Create, OtherWrite, NoLandscaper, Created
    <2> QED BY <1>2, <1>3, <2>1, <2>2 DEF OtherWrite
  <1>5. CASE Edit
    <2>1. PICK v \in Versions, p \in ConfigRefs :
              OtherWrite([ls EXCEPT !.version = v, !.ref = p,
                                    !.generation = @ + 1])
      BY <1>5 DEF Edit
    <2>2. Edited
      BY <1>1, <1>5, <2>1 DEF Edit, OtherWrite, Edited, Landscapers
    <2> QED BY <1>2, <1>3, <2>1, <2>2 DEF OtherWrite
  <1>6. ASSUME OtherWrite([ls EXCEPT !.annotated = TRUE]), ls.exists PROVE W
    <2>1. /\ SameContent(ls, [ls EXCEPT !.annotated = TRUE])
          /\ [ls EXCEPT !.annotated = TRUE].finalizer = ls.finalizer
      BY <1>1, ContentKept DEF Landscapers
    <2> QED BY <1>6, <2>1 DEF OtherWrite, Touched
  <1>7. CASE RequestDeletion
    <2>1. CASE ls.finalizer \/ ls.foreign
      <3>1. MarkedDeleted
        BY <1>1, <1>7, <2>1
           DEF RequestDeletion, OtherWrite, MarkedDeleted, Landscapers
      <3> QED BY <1>2, <1>3, <1>7, <2>1, <3>1 DEF RequestDeletion, OtherWrite
    <2>2. CASE ~(ls.finalizer \/ ls.foreign)
      BY <1>2, <1>3, <1>7, <2>2 DEF RequestDeletion, OtherWrite, Vanished
    <2> QED BY <2>1, <2>2
  <1>8. CASE ReleaseForeign
    <2>1. /\ SameContent(ls, [ls EXCEPT !.foreign = FALSE])
          /\ [ls EXCEPT !.foreign = FALSE].finalizer = ls.finalizer
      BY <1>1, ContentKept DEF Landscapers
    <2> QED
      BY <1>2, <1>3, <1>8, <2>1 DEF ReleaseForeign, OtherWrite, Touched, Vanished
  <1>9. CASE Annotate
    BY <1>2, <1>3, <1>6, <1>9 DEF Annotate
  <1>10. ASSUME NEW p \in ProviderConfigNames, mapProviderConfigToRequests(p)
         PROVE  UNCHANGED <<ls, queued, fresh>> \/ W
    BY <1>6, <1>10 DEF mapProviderConfigToRequests
  <1>11. CASE \/ HandlerFails \/ Outage \/ EditProviderConfig
              \/ \E r \in Requests : GrantRequest(r) \/ RemoveRequest(r)
              \/ ProvideGateway \/ AcceptRoute \/ RollOut
    <2>1. UNCHANGED <<ls, queued, fresh>>
      BY <1>11
         DEF HandlerFails, Outage, EditProviderConfig, GrantRequest,
             RemoveRequest, ProvideGateway, AcceptRoute, RollOut, local
    <2> QED BY <1>2, <1>3, <2>1
  <1> QED
    BY <1>2, <1>3, <1>4, <1>5, <1>7, <1>8, <1>9, <1>10, <1>11
       DEF Others, User, Environment

\* Every step is one of these.
LEMMA StepKinds == Next <=> Get \/ Handler \/ Finish \/ Crash \/ Others
  BY DEF Next, Reconcile, Handler, Fault, Others

-----------------------------------------------------------------------------
(* The phase, the wakeups and the copies.                                  *)

\* Terminating is only ever written for a resource that is being deleted, and
\* no worker on the create path holds a copy from before it was written.
PhaseInv ==
    /\ ls.status.phase = "Terminating" => ls.deleting
    /\ pc \in DeleteSteps => obj.deleting /\ st.phase = "Terminating"
    /\ pc \in CreateSteps =>
           st.phase # "Terminating" /\ ls.status.phase # "Terminating"
    /\ pc = "finish" /\ st.phase = "Terminating" => obj.deleting
    /\ pc = "finish" /\ st.phase # "Terminating" =>
           ls.status.phase # "Terminating"

\* A worker whose copy is stale has its key in the queue again, and it only
\* stops for good where the controller has nothing left to do.
WakeInv ==
    /\ pc # "idle" => fresh \/ queued = "now"
    /\ pc = "finish" /\ res = "done" =>
           queued = "now" \/ (obj.deleting /\ ~obj.finalizer)
    /\ NoLostWakeup

\* A resource has a version.
VersionInv ==
    /\ ls.exists => ls.version # "absent"
    /\ pc # "idle" => obj.version # "absent"

\* What holds whoever else has a worker on the resource.
HeldInv == FreshInv /\ PhaseInv /\ VersionInv

StepInv == HeldInv /\ WakeInv

LEMMA StepInit == Init => StepInv
  <1> SUFFICES ASSUME Init PROVE StepInv
    OBVIOUS
  <1>1. ls = NoLandscaper /\ pc = "idle" /\ ~fresh
    BY DEF Init
  <1> QED
    BY <1>1, EmptyRecords
       DEF StepInv, HeldInv, FreshInv, PhaseInv, WakeInv, VersionInv,
           NoLostWakeup, CreateSteps, DeleteSteps

\* Get and Finish, as far as content and status go.
LEMMA GetMoves ==
    ASSUME TypeOK, Get
    PROVE  /\ ls' = ls /\ queued' = "no" /\ UNCHANGED <<components, route, requests>>
           /\ pc = "idle"
           /\ \/ ~ls.exists /\ UNCHANGED local
              \/ /\ ls.exists /\ obj' = ls /\ fresh'
                 /\ \/ /\ ~ls.deleting /\ pc' = "ensureFinalizer"
                       /\ st' = newCreateOrUpdateStatus(ls.generation)
                    \/ /\ ls.deleting /\ pc' = "getProviderConfigD"
                       /\ st' = newDeleteStatus(ls.generation)
  BY DEF Get, IsDeletion, install

LEMMA FinishMoves ==
    ASSUME TypeOK, Finish
    PROVE  /\ pc = "finish" /\ pc' = "idle" /\ ~fresh'
           /\ UNCHANGED <<components, route, requests>>
           /\ \/ /\ fresh /\ ls.exists /\ queued' = "now"
                 /\ ls' = [obj EXCEPT !.status =
                               convertToLandscaperStatus(st, obj.status)]
              \/ UNCHANGED ls /\ queued' = "now"
              \/ /\ UNCHANGED ls
                 /\ res = "done" => queued' = queued
                 /\ res # "done" => queued' # "no"
  BY DEF Finish, Rest, install, TypeOK

\* The record that Finish writes.
LEMMA WrittenStatus ==
    ASSUME NEW o \in Landscapers, NEW s \in ReconcileStatuses
    PROVE  LET n == [o EXCEPT !.status = convertToLandscaperStatus(s, o.status)]
           IN  /\ n.exists = o.exists /\ n.deleting = o.deleting
               /\ n.version = o.version /\ n.generation = o.generation
               /\ n.finalizer = o.finalizer
               /\ SameStatus(s, n.status)
  BY DEF Landscapers, LandscaperStatuses, convertToLandscaperStatus, SameStatus

LEMMA HeldInvKept ==
    ASSUME TypeOK, SafetyInv, HeldInv, [Next]_vars
    PROVE  HeldInv'
  <1> USE DEF HeldInv, FreshInv, PhaseInv, VersionInv
  <1>1. /\ ls \in Landscapers /\ obj \in Landscapers /\ st \in ReconcileStatuses
        /\ fresh \in BOOLEAN
    BY DEF TypeOK
  <1>2. CASE UNCHANGED vars
    BY <1>2 DEF vars, local, SameContent, SameStatus
  <1>3. CASE Get
    BY <1>1, <1>3, GetMoves, ContentKept
       DEF local, CreateSteps, DeleteSteps, newCreateOrUpdateStatus,
           newDeleteStatus
  <1>4. CASE Handler
    <2>1. pc # "idle" /\ pc' # "idle"
      BY <1>4, HandlerMoves DEF CreateSteps, DeleteSteps
    <2>2. /\ pc \in DeleteSteps => st'.phase = st.phase
          /\ pc \in CreateSteps => st'.phase \in {st.phase, "Ready"}
      BY <1>1, <1>4, HandlerMoves, SettersThatPromise
         DEF Setback, CreateSteps, DeleteSteps
    <2>3. CASE KeepsContent
      BY <1>1, <1>4, <2>1, <2>2, <2>3, HandlerMoves
         DEF KeepsContent, SameContent, SameStatus, CreateSteps, DeleteSteps
    <2>4. CASE LetsGo
      BY <1>1, <1>4, <2>1, <2>2, <2>4, HandlerMoves, EmptyRecords
         DEF LetsGo, SameContent, SameStatus, CreateSteps, DeleteSteps
    <2> QED BY <1>4, <2>3, <2>4, HandlerKeepsContent
  <1>5. CASE Finish
    <2>1. CASE ls' = [obj EXCEPT !.status = convertToLandscaperStatus(st, obj.status)]
               /\ fresh
      <3>1. /\ ls'.exists = obj.exists /\ ls'.deleting = obj.deleting
            /\ ls'.version = obj.version /\ SameStatus(st, ls'.status)
        BY <1>1, <2>1, WrittenStatus
      <3>2. pc = "finish" /\ pc' = "idle" /\ ~fresh'
        BY <1>5, <2>1, FinishMoves
      <3> QED
        BY <3>1, <3>2 DEF SameContent, SameStatus, CreateSteps, DeleteSteps
    <2>2. CASE UNCHANGED ls
      BY <1>5, <2>2, FinishMoves DEF CreateSteps, DeleteSteps
    <2> QED BY <1>5, <2>1, <2>2, FinishMoves
  <1>6. CASE Crash
    BY <1>6 DEF Crash, Rest, CreateSteps, DeleteSteps
  <1>7. CASE Others
    <2>1. CASE UNCHANGED <<ls, queued, fresh>>
      BY <1>7, <2>1, OthersWrite
    <2>2. CASE Created \/ Edited \/ Touched \/ MarkedDeleted \/ Vanished
      <3>1. /\ ls'.exists => ls'.version # "absent"
            /\ ls'.status.phase = "Terminating" =>
                   ls'.deleting /\ ls.status.phase = "Terminating"
        BY <2>2, ConstantsAssumption, EmptyRecords
           DEF Created, Edited, Touched, MarkedDeleted, Vanished, SameContent,
               SameStatus
      <3> QED BY <1>7, <2>1, <3>1, OthersWrite
    <2> QED BY <1>7, <2>1, <2>2, OthersWrite
  <1> QED
    BY <1>2, <1>3, <1>4, <1>5, <1>6, <1>7, StepKinds

LEMMA WakeInvKept ==
    ASSUME TypeOK, SafetyInv, HeldInv, WakeInv, [Next]_vars
    PROVE  WakeInv'
  <1> USE DEF WakeInv, NoLostWakeup
  <1>1. CASE UNCHANGED vars
    BY <1>1 DEF vars, local
  <1>2. CASE Get
    BY <1>2, GetMoves DEF local
  <1>3. CASE Handler
    <2>1. pc # "idle" /\ pc' # "idle"
      BY <1>3, HandlerMoves DEF CreateSteps, DeleteSteps
    <2>2. CASE KeepsContent
      <3>1. fresh' \/ queued' = "now"
        BY <2>1, <2>2 DEF KeepsContent
      <3>2. pc' = "finish" /\ res' = "done" =>
                obj'.deleting /\ ~obj'.finalizer
        BY <1>3, <2>2, HandlerMoves
           DEF KeepsContent, SameContent, HeldInv, PhaseInv, DeleteSteps
      <3> QED BY <2>1, <3>1, <3>2
    <2>3. CASE LetsGo
      BY <1>3, <2>1, <2>3, HandlerMoves DEF LetsGo, CreateSteps, DeleteSteps
    <2> QED BY <1>3, <2>2, <2>3, HandlerKeepsContent DEF HeldInv
  <1>4. CASE Finish
    <2>1. CASE queued' = "now"
      BY <1>4, <2>1, FinishMoves
    <2>2. CASE UNCHANGED ls
      <3>1. pc = "finish" /\ res = "done" /\ queued = "no" =>
                ~(ls.exists /\ (ls.finalizer \/ ~ls.deleting))
        BY DEF SafetyInv, CopyInv, HeldInv, FreshInv, SameContent
      <3> QED BY <1>4, <2>2, <3>1, FinishMoves
    <2> QED BY <1>4, <2>1, <2>2, FinishMoves
  <1>5. CASE Crash
    BY <1>5 DEF Crash, Rest
  <1>6. CASE Others
    <2>1. CASE UNCHANGED <<ls, queued, fresh>>
      BY <1>6, <2>1, OthersWrite
    <2>2. CASE ~UNCHANGED <<ls, queued, fresh>>
      BY <1>6, <2>2, OthersWrite, EmptyRecords DEF Vanished
    <2> QED BY <2>1, <2>2
  <1> QED
    BY <1>1, <1>2, <1>3, <1>4, <1>5, <1>6, StepKinds

(***************************************************************************)
(* StepInv is an invariant.                                                *)
(***************************************************************************)
THEOREM StepCorrect == Spec => []StepInv
  <1>1. TypeOK /\ SafetyInv /\ StepInv /\ [Next]_vars => StepInv'
    BY HeldInvKept, WakeInvKept DEF StepInv, HeldInv
  <1> QED BY <1>1, StepInit, TypeCorrect, SafetyCorrect, PTL DEF Spec

(***************************************************************************)
(* NoLostWakeup: a resource that still needs the controller is being       *)
(* reconciled, or its key is in the queue.                                 *)
(***************************************************************************)
THEOREM NoLostWakeupCorrect == Spec => []NoLostWakeup
  <1>1. StepInv => NoLostWakeup
    BY DEF StepInv, WakeInv
  <1> QED BY <1>1, StepCorrect, PTL

LEMMA TerminatingStep ==
    ASSUME TypeOK, SafetyInv, HeldInv, [Next]_vars,
           ls.status.phase = "Terminating", ls'.exists
    PROVE  ls'.status.phase = "Terminating"
  <1>1. CASE UNCHANGED ls
    BY <1>1
  <1>2. CASE Handler
    BY <1>2, HandlerKeepsContent, EmptyRecords
       DEF HeldInv, KeepsContent, LetsGo, SameContent, SameStatus
  <1>3. CASE Finish /\ ls' # ls
    <2>1. /\ SameStatus(st, ls'.status)
          /\ pc = "finish"
      BY <1>3, FinishMoves, WrittenStatus DEF TypeOK
    <2> QED BY <2>1 DEF HeldInv, PhaseInv, SameStatus
  <1>4. CASE Others /\ ls' # ls
    <2>1. Created \/ Edited \/ Touched \/ MarkedDeleted \/ Vanished
      BY <1>4, OthersWrite
    <2>2. ls.exists
      BY DEF HeldInv, PhaseInv, SafetyInv, ResourceInv
    <2> QED
      BY <2>1, <2>2, EmptyRecords
         DEF Created, Edited, Touched, MarkedDeleted, Vanished, SameContent,
             SameStatus
  <1> QED
    BY <1>1, <1>2, <1>3, <1>4, StepKinds DEF vars, Get, Crash

(***************************************************************************)
(* TerminatingIsFinal: a late reconciliation of the resource as it was     *)
(* before its deletion has a stale copy, and its status is refused.        *)
(***************************************************************************)
THEOREM TerminatingCorrect == Spec => TerminatingIsFinal
  <1> DEFINE Step == (ls.status.phase = "Terminating" /\ ls'.exists) =>
                         ls'.status.phase = "Terminating"
  <1>1. TypeOK /\ SafetyInv /\ StepInv /\ [Next]_vars => [Step]_vars
    BY TerminatingStep DEF StepInv
  <1>2. [][Step]_vars <=> TerminatingIsFinal
    BY DEF TerminatingIsFinal
  <1> HIDE DEF Step
  <1> QED
    BY <1>1, <1>2, TypeCorrect, SafetyCorrect, StepCorrect, PTL DEF Spec

-----------------------------------------------------------------------------
(* A worker on its own, whoever else writes the resource.                  *)

\* A handler that leaves its copy fresh has written it, or written nothing.
LEMMA CopyFollows ==
    ASSUME TypeOK, Handler
    PROVE  fresh' => \/ ls' = obj'
                     \/ UNCHANGED <<ls, fresh>> /\ obj'.finalizer = obj.finalizer
  <1>1. obj \in Landscapers /\ fresh \in BOOLEAN
    BY DEF TypeOK
  <1> DEFINE copy == [obj EXCEPT !.status.ref = cfg.name]
  <1>2. copy.finalizer = obj.finalizer
    BY <1>1 DEF Landscapers
  <1>3. CASE EnsureFinalizer \/ CheckReconcileAnnotation \/ EnsureInstanceID
    <2>1. UNCHANGED <<ls, obj, fresh>> \/ ls' = obj'
      <3>1. CASE EnsureFinalizer
        BY <3>1 DEF EnsureFinalizer, OwnWrite
      <3>2. CASE CheckReconcileAnnotation
        BY <3>2 DEF CheckReconcileAnnotation, OwnWrite
      <3>3. CASE EnsureInstanceID
        BY <3>3 DEF EnsureInstanceID, StoreInstanceID, OwnWrite
      <3> QED BY <1>3, <3>1, <3>2, <3>3
    <2> QED BY <2>1
  <1>4. ASSUME NEW at, NEW next, NEW status, NEW accepted,
               RecordProviderConfig(at, next, status, accepted)
        PROVE  ls' = obj' \/ (UNCHANGED <<ls, fresh>> /\ obj'.finalizer = obj.finalizer)
    BY <1>2, <1>4 DEF RecordProviderConfig, OwnWrite
  <1>5. CASE RemoveFinalizer
    BY <1>5 DEF RemoveFinalizer
  <1>6. CASE CallFails
    <2>1. KeptCopy \in {obj, copy}
      BY DEF KeptCopy
    <2> QED BY <1>2, <1>6, <2>1 DEF CallFails
  <1>7. CASE \/ GetProviderConfig("getProviderConfig", "recordProviderConfig",
                                  setInstallProviderConfigError(st))
             \/ GetProviderConfig("getProviderConfigD", "recordProviderConfigD",
                                  setUninstallProviderConfigError(st))
             \/ ClusterAccess("clusterAccess", "reconcileGateway",
                              setInstallWaitForClusterAccessReady(st))
             \/ ClusterAccess("clusterAccessD", "createConfigD",
                              setUninstallWaitForClusterAccessReady(st))
             \/ ReconcileGateway
             \/ CreateConfig("createConfig", "syncCA")
             \/ CreateConfig("createConfigD", "deleteTLSRoute")
             \/ SyncCA \/ InstallLandscaperInstance \/ ReconcileTLSRoute
             \/ IsTLSRouteReady \/ CheckReadiness \/ AccessInDeletion
             \/ DeleteTLSRoute \/ DeleteCA \/ UninstallLandscaperInstance
             \/ ReconcileDelete \/ InstallerFails \/ ReconcileDeleteFails
    BY <1>7
       DEF GetProviderConfig, ClusterAccess, ReconcileGateway, CreateConfig,
           SyncCA, InstallLandscaperInstance, Install, ReconcileTLSRoute,
           IsTLSRouteReady, CheckReadiness, AccessInDeletion, DeleteTLSRoute,
           DeleteCA, UninstallLandscaperInstance, Uninstall, ReconcileDelete,
           InstallerFails, InstallFails, UninstallFails, ReconcileDeleteFails
  <1> QED
    BY <1>3, <1>4, <1>5, <1>6, <1>7 DEF Handler, CreateOrUpdate, Delete

\* What a worker knows without knowing who else is at work.
WorkerInv ==
    /\ FreshInv
    /\ fresh => obj.finalizer = ls.finalizer /\ pc # "idle"
    /\ pc # "idle" => fresh \/ queued = "now"
    /\ pc \in DeleteSteps => obj.deleting
    /\ pc = "finish" /\ res = "done" =>
           queued = "now" \/ (obj.deleting /\ ~obj.finalizer)

\* Nobody takes the version away from a resource or from a worker's copy.
LEMMA VersionKept ==
    ASSUME TypeOK, FreshInv, VersionInv, Reconcile \/ Others
    PROVE  VersionInv'
  <1>1. ls \in Landscapers /\ obj \in Landscapers /\ st \in ReconcileStatuses
    BY DEF TypeOK
  <1> USE DEF VersionInv
  <1>2. CASE Get
    BY <1>2, GetMoves DEF local
  <1>3. CASE Handler
    <2>1. pc # "idle"
      BY <1>3, HandlerMoves DEF CreateSteps, DeleteSteps
    <2> QED
      BY <1>3, <2>1, HandlerKeepsContent, EmptyRecords
         DEF KeepsContent, LetsGo, SameContent
  <1>4. CASE Finish
    <2>1. CASE ls' = [obj EXCEPT !.status = convertToLandscaperStatus(st, obj.status)]
      <3>1. ls'.exists = obj.exists /\ ls'.version = obj.version
        BY <1>1, <2>1, WrittenStatus
      <3> QED BY <1>4, <3>1, FinishMoves
    <2> QED BY <1>4, <2>1, FinishMoves
  <1>5. CASE Others
    <2>1. CASE Created \/ Edited \/ Touched \/ MarkedDeleted \/ Vanished
      <3>1. ls'.exists => ls'.version # "absent"
        BY <2>1, ConstantsAssumption, EmptyRecords
           DEF Created, Edited, Touched, MarkedDeleted, Vanished, SameContent
      <3> QED BY <1>5, <3>1, OthersWrite
    <2> QED BY <1>5, <2>1, OthersWrite
  <1> QED BY <1>2, <1>3, <1>4, <1>5 DEF Reconcile, Handler

\* A worker that is at it does not lose the key.
LEMMA WorkerReconciles ==
    ASSUME TypeOK, WorkerInv, Reconcile
    PROVE  WorkerInv' /\ (NoLostWakeup => NoLostWakeup')
  <1>1. ls \in Landscapers /\ obj \in Landscapers /\ fresh \in BOOLEAN
    BY DEF TypeOK
  <1>2. CASE Get
    <2>1. SameContent(ls, ls)
      BY <1>1, ContentKept
    <2> QED
      BY <1>2, <2>1, GetMoves
         DEF local, WorkerInv, FreshInv, NoLostWakeup, CreateSteps, DeleteSteps
  <1>3. CASE CreateOrUpdate \/ Delete
    <2>1. Handler
      BY <1>3 DEF Handler
    <2>2. /\ pc # "idle" /\ pc' # "idle"
          /\ pc' \in DeleteSteps => pc \in DeleteSteps
          /\ (pc' = "finish" /\ res' = "done") =>
                pc \in DeleteSteps /\ ~obj'.finalizer
      BY <2>1, HandlerMoves DEF CreateSteps, DeleteSteps
    <2>3. /\ FreshInv' /\ (fresh' \/ queued' = "now")
          /\ pc \in DeleteSteps => obj'.deleting
      <3>1. CASE KeepsContent
        BY <2>2, <3>1
           DEF WorkerInv, FreshInv, KeepsContent, SameContent, SameStatus,
               DeleteSteps
      <3>2. CASE LetsGo
        BY <2>2, <3>2 DEF WorkerInv, FreshInv, LetsGo, SameContent
      <3> QED BY <2>1, <3>1, <3>2, HandlerKeepsContent DEF WorkerInv
    <2>4. fresh' => obj'.finalizer = ls'.finalizer
      BY <2>1, CopyFollows DEF WorkerInv
    <2> QED BY <2>2, <2>3, <2>4 DEF WorkerInv, NoLostWakeup
  <1>4. CASE Finish
    <2>1. WorkerInv'
      BY <1>4, FinishMoves DEF WorkerInv, FreshInv, DeleteSteps
    <2>2. NoLostWakeup'
      BY <1>4, FinishMoves
         DEF WorkerInv, FreshInv, SameContent, NoLostWakeup
    <2> QED BY <2>1, <2>2
  <1> QED BY <1>2, <1>3, <1>4 DEF Reconcile

-----------------------------------------------------------------------------
(* The abstract life cycle.                                                *)

\* The initial state is the abstract one.
LEMMA LifecycleInit == Init => Lifecycle!Init
  <1> SUFFICES ASSUME Init PROVE Lifecycle!Init
    OBVIOUS
  <1>1. ~ls.exists /\ ls.finalizer = FALSE
    BY DEF Init, NoLandscaper
  <1>2. \A r \in Requests : requests[r] = "absent"
    BY DEF Init
  <1>3. ~Footprint
    BY DEF Init, Footprint
  <1> QED
    BY <1>1, <1>2, <1>3 DEF Lifecycle!Init

\* A step that keeps content, finalizer, requests and footprint stutters.
LEMMA SameLife ==
    ASSUME SameContent(ls, ls'), ls'.finalizer = ls.finalizer,
           UNCHANGED requests, Footprint' <=> Footprint
    PROVE  UNCHANGED Lifecycle!vars
  <1>1. Footprint' = Footprint
    BY DEF Footprint
  <1> QED BY <1>1 DEF SameContent, Lifecycle!vars

\* Only two handlers write the finalizer.
LEMMA FinalizerKept ==
    ASSUME TypeOK, SafetyInv, Handler, ~EnsureFinalizer, ~RemoveFinalizer
    PROVE  ls'.finalizer = ls.finalizer
  <1>1. /\ ls \in Landscapers /\ obj \in Landscapers
        /\ fresh => obj.finalizer = ls.finalizer
    BY DEF TypeOK, SafetyInv, CopyInv
  <1>2. CASE UNCHANGED ls
    BY <1>2
  <1>3. CASE CheckReconcileAnnotation
    <2>1. [ls EXCEPT !.annotated = FALSE].finalizer = ls.finalizer
      BY <1>1 DEF Landscapers
    <2> QED BY <1>2, <1>3, <2>1 DEF CheckReconcileAnnotation, OwnWrite
  <1>4. CASE EnsureInstanceID
    <2>1. [obj EXCEPT !.id = TRUE].finalizer = obj.finalizer
      BY <1>1 DEF Landscapers
    <2> QED
      BY <1>1, <1>2, <1>4, <2>1 DEF EnsureInstanceID, StoreInstanceID, OwnWrite
  <1>5. ASSUME NEW at, NEW next, NEW status, NEW accepted,
               RecordProviderConfig(at, next, status, accepted)
        PROVE  ls'.finalizer = ls.finalizer
    <2>1. [obj EXCEPT !.status.ref = cfg.name].finalizer = obj.finalizer
      BY <1>1 DEF Landscapers
    <2> QED BY <1>1, <1>5, <2>1 DEF RecordProviderConfig, OwnWrite
  <1> QED
    BY <1>2, <1>3, <1>4, <1>5
       DEF Handler, CreateOrUpdate, Delete, CallFails, InstallerFails,
           ReconcileDeleteFails, GetProviderConfig, ClusterAccess,
           ReconcileGateway, CreateConfig, SyncCA, InstallLandscaperInstance,
           Install, ReconcileTLSRoute, IsTLSRouteReady, CheckReadiness,
           AccessInDeletion, DeleteTLSRoute, DeleteCA,
           UninstallLandscaperInstance, Uninstall, ReconcileDelete,
           InstallFails, UninstallFails

\* What the worker knows where it lets go, acquires, installs and removes.
LEMMA PositionFacts ==
    ASSUME SafetyInv
    PROVE  /\ pc \in CreateSteps \ {"ensureFinalizer"} => ls.finalizer
           /\ pc \in AfterAccess => AccessGranted
           /\ pc \in DeleteSteps /\ SomeRequest => ls.exists /\ ls.deleting
           /\ pc \in {"reconcileDelete", "removeFinalizer"} => ~Footprint
           /\ pc = "removeFinalizer" => ~SomeRequest
           /\ Footprint => ls.finalizer /\ AccessGranted /\ SomeRequest
  BY DEF SafetyInv, ResourceInv, ProtectionInv, CreateInv, DeleteInv,
         AccessGranted, SomeRequest, Requests

\* EnsureFinalizer protects the resource, or fails.
LEMMA EnsureFinalizerLife ==
    ASSUME TypeOK, SafetyInv, EnsureFinalizer
    PROVE  [Lifecycle!Next]_(Lifecycle!vars)
  <1>1. UNCHANGED requests /\ Footprint' = Footprint
    BY DEF EnsureFinalizer, install, Footprint
  <1>2. CASE UNCHANGED ls
    BY <1>1, <1>2 DEF Lifecycle!vars
  <1>3. CASE ~obj.finalizer /\ ~obj.deleting /\ fresh
    <2>1. /\ ls'.exists /\ ~ls'.deleting /\ ls'.finalizer = TRUE
          /\ ls.exists /\ ~ls.deleting /\ ~ls.finalizer
      BY <1>3
         DEF EnsureFinalizer, OwnWrite, TypeOK, Landscapers, SafetyInv, CopyInv
    <2>2. Lifecycle!Protect
      BY <1>1, <2>1 DEF Lifecycle!Protect
    <2> QED BY <2>2 DEF Lifecycle!Next
  <1> QED BY <1>2, <1>3 DEF EnsureFinalizer

\* RemoveFinalizer lets the resource go, or fails.
LEMMA RemoveFinalizerLife ==
    ASSUME TypeOK, SafetyInv, RemoveFinalizer
    PROVE  [Lifecycle!Next]_(Lifecycle!vars)
  <1>1. UNCHANGED requests /\ Footprint' = Footprint /\ pc = "removeFinalizer"
    BY DEF RemoveFinalizer, install, Footprint
  <1>2. CASE UNCHANGED ls
    BY <1>1, <1>2 DEF Lifecycle!vars
  <1>3. CASE obj.finalizer /\ fresh
    <2>1. ~SomeRequest /\ ~Footprint
      BY <1>1, PositionFacts
    <2>2. ls.exists /\ ls.deleting
      BY <1>1, <1>3
         DEF SafetyInv, CopyInv, DeleteInv, DeleteSteps
    <2>3. ls'.finalizer = FALSE /\ (ls'.exists => ls'.deleting)
      <3>1. /\ obj.deleting
            /\ [obj EXCEPT !.finalizer = FALSE].finalizer = FALSE
            /\ [obj EXCEPT !.finalizer = FALSE].deleting = obj.deleting
        BY <1>3, <2>2 DEF TypeOK, Landscapers, SafetyInv, CopyInv
      <3>2. ls' \in {[obj EXCEPT !.finalizer = FALSE], NoLandscaper}
        BY <1>3 DEF RemoveFinalizer
      <3>3. NoLandscaper.finalizer = FALSE /\ ~NoLandscaper.exists
        BY DEF NoLandscaper
      <3> QED BY <3>1, <3>2, <3>3
    <2>4. Lifecycle!LetGo
      BY <1>1, <2>1, <2>2, <2>3 DEF Lifecycle!LetGo, SomeRequest
    <2> QED BY <2>4 DEF Lifecycle!Next
  <1> QED BY <1>2, <1>3 DEF RemoveFinalizer

\* ClusterAccess asks for one more request, under the finalizer; on the delete
\* path there is nothing left to ask for.
LEMMA ClusterAccessLife ==
    ASSUME TypeOK, SafetyInv,
           \/ ClusterAccess("clusterAccess", "reconcileGateway",
                            setInstallWaitForClusterAccessReady(st))
           \/ ClusterAccess("clusterAccessD", "createConfigD",
                            setUninstallWaitForClusterAccessReady(st))
    PROVE  [Lifecycle!Next]_(Lifecycle!vars)
  <1>1. UNCHANGED <<ls, components, route>> /\ Footprint' = Footprint
    BY DEF ClusterAccess, install, Footprint
  <1>2. CASE UNCHANGED requests
    BY <1>1, <1>2 DEF Lifecycle!vars
  <1>3. CASE requests' # requests
    <2>1. PICK r \in Requests :
             /\ r = "workload" => requests["mcp"] = "granted"
             /\ requests[r] # "granted"
             /\ requests' = [requests EXCEPT ![r] =
                                IF @ = "absent" THEN "pending" ELSE @]
             /\ pc \in {"clusterAccess", "clusterAccessD"}
      <3> DEFINE next == IF requests["mcp"] = "granted" THEN "workload" ELSE "mcp"
      <3>1. /\ ~AccessGranted
            /\ pc \in {"clusterAccess", "clusterAccessD"}
            /\ requests' = [requests EXCEPT ![next] =
                               IF @ = "absent" THEN "pending" ELSE @]
        BY <1>3 DEF ClusterAccess
      <3>2. /\ next \in Requests /\ requests[next] # "granted"
            /\ next = "workload" => requests["mcp"] = "granted"
        BY <3>1 DEF AccessGranted, Requests
      <3> HIDE DEF next
      <3> QED BY <3>1, <3>2
    <2>2. requests[r] = "absent"
      BY <1>3, <2>1 DEF TypeOK
    <2>3. pc = "clusterAccess" /\ ls.finalizer
      BY <2>1, <2>2, PositionFacts
         DEF SafetyInv, DeleteInv, areAccessRequestsInDeletion, CreateSteps
    <2>4. \A q \in Requests :
             requests'[q] = IF q = r THEN "pending" ELSE requests[q]
      BY <2>1, <2>2 DEF TypeOK
    <2>5. Lifecycle!Acquire
      BY <1>1, <2>1, <2>2, <2>3, <2>4 DEF Lifecycle!Acquire, Lifecycle!Requests, Requests
    <2> QED BY <2>5 DEF Lifecycle!Next
  <1> QED BY <1>2, <1>3

\* The steps that install, completely or in part.
Adding ==
    InstallLandscaperInstance \/ ReconcileTLSRoute
        \/ \E c \in Components, at \in AfterAccess : InstallFails(at, c)

\* They may only put something where there was nothing, under the finalizer
\* and with access to both clusters.
LEMMA InstallingLife ==
    ASSUME TypeOK, SafetyInv, VersionInv, Adding
    PROVE  [Lifecycle!Next]_(Lifecycle!vars)
  <1>1. UNCHANGED <<ls, requests>>
    BY DEF Adding, InstallLandscaperInstance, Install, ReconcileTLSRoute,
           InstallFails
  <1>2. pc \in AfterAccess /\ pc # "idle"
    BY DEF Adding, InstallLandscaperInstance, Install, ReconcileTLSRoute,
           InstallFails, AfterAccess
  <1>3. \A c \in Components : Target(c, obj.version) # "absent"
    BY <1>2 DEF VersionInv, Target
  <1>4. Footprint' \/ (UNCHANGED <<components, route>>)
    <2>1. ASSUME NEW at, NEW c \in Components, NEW next, Install(at, c, next)
          PROVE  Footprint'
      <3>1. components'[c] = Target(c, obj.version)
        BY <2>1 DEF Install, TypeOK
      <3> QED BY <1>3, <3>1 DEF Footprint
    <2>2. ASSUME NEW at, NEW c \in Components, InstallFails(at, c)
          PROVE  Footprint' \/ (UNCHANGED <<components, route>>)
      <3>1. PICK left \in {components[c], "mixed"} :
               components' = [components EXCEPT ![c] = left]
        BY <2>2 DEF InstallFails
      <3>2. CASE left = components[c]
        BY <2>2, <3>1, <3>2 DEF TypeOK, InstallFails
      <3>3. CASE left = "mixed"
        <4>1. components'[c] = "mixed"
          BY <3>1, <3>3 DEF TypeOK
        <4> QED BY <4>1 DEF Footprint
      <3> QED BY <3>1, <3>2, <3>3
    <2>3. CASE ReconcileTLSRoute
      BY <2>3 DEF ReconcileTLSRoute, Footprint, TypeOK
    <2> QED
      BY <2>1, <2>2, <2>3 DEF Adding, InstallLandscaperInstance, Components
  <1>5. CASE UNCHANGED <<components, route>>
    BY <1>1, <1>5 DEF Lifecycle!vars, Footprint
  <1>6. CASE Footprint'
    <2>1. ls.finalizer /\ AccessGranted
      BY <1>2, PositionFacts DEF AfterAccess, CreateSteps
    <2>2. Footprint' = TRUE
      BY <1>6 DEF Footprint
    <2>3. Lifecycle!Install
      BY <1>1, <2>1, <2>2
         DEF Lifecycle!Install, Lifecycle!Requests, AccessGranted, Requests
    <2> QED BY <2>3 DEF Lifecycle!Next
  <1> QED BY <1>4, <1>5, <1>6

\* The steps that uninstall, completely or in part.
Removing ==
    UninstallLandscaperInstance \/ DeleteTLSRoute
        \/ \E c \in Components, at \in DeleteSteps : UninstallFails(at, c)

\* They add nothing.
LEMMA RemovingShrinks ==
    ASSUME TypeOK, Removing, Footprint'
    PROVE  Footprint
  <1>1. CASE DeleteTLSRoute
    BY <1>1 DEF DeleteTLSRoute, Footprint
  <1>2. ASSUME NEW at, NEW c \in Components, NEW next,
               Uninstall(at, c, next) \/ UninstallFails(at, c)
        PROVE  Footprint
    <2>1. route' = route
      BY <1>2 DEF Uninstall, UninstallFails
    <2>2. \A d \in Components : components'[d] # "absent" => components[d] # "absent"
      BY <1>2 DEF Uninstall, UninstallFails, TypeOK
    <2> QED BY <2>1, <2>2 DEF Footprint
  <1> QED
    BY <1>1, <1>2 DEF Removing, UninstallLandscaperInstance, Components

\* They take the rest away only from a resource that is being deleted.
LEMMA RemovingLife ==
    ASSUME TypeOK, SafetyInv, Removing
    PROVE  [Lifecycle!Next]_(Lifecycle!vars)
  <1>1. UNCHANGED <<ls, requests>> /\ pc \in DeleteSteps
    BY DEF Removing, UninstallLandscaperInstance, Uninstall, DeleteTLSRoute,
           UninstallFails, DeleteSteps
  <1>2. Footprint' => Footprint
    BY RemovingShrinks
  <1>3. CASE Footprint' <=> Footprint
    <2>1. Footprint' = Footprint
      BY <1>3 DEF Footprint
    <2> QED BY <1>1, <2>1 DEF Lifecycle!vars
  <1>4. CASE Footprint /\ ~Footprint'
    <2>1. ls.exists /\ ls.deleting /\ AccessGranted
      BY <1>1, <1>4, PositionFacts
    <2>2. Footprint' = FALSE
      BY <1>4 DEF Footprint
    <2>3. Lifecycle!Uninstall
      BY <1>1, <1>4, <2>1, <2>2
         DEF Lifecycle!Uninstall, Lifecycle!Requests, AccessGranted, Requests
    <2> QED BY <2>3 DEF Lifecycle!Next
  <1> QED BY <1>2, <1>3, <1>4

\* ReconcileDelete gives access back when nothing is installed any more.
LEMMA ReleaseLife ==
    ASSUME TypeOK, SafetyInv, ReconcileDelete \/ ReconcileDeleteFails
    PROVE  [Lifecycle!Next]_(Lifecycle!vars)
  <1>1. /\ UNCHANGED <<ls, components, route>> /\ Footprint' = Footprint
        /\ pc = "reconcileDelete"
    BY DEF ReconcileDelete, ReconcileDeleteFails, install, Footprint
  <1>2. \A r \in Requests : requests'[r] \in {requests[r], "deleting"}
                            /\ (requests[r] = "absent" => requests'[r] = "absent")
    BY DEF ReconcileDelete, ReconcileDeleteFails, TypeOK
  <1>3. CASE UNCHANGED requests
    BY <1>1, <1>3 DEF Lifecycle!vars
  <1>4. CASE requests' # requests
    <2>1. SomeRequest
      BY <1>1, <1>4
         DEF SomeRequest, ReconcileDelete, ReconcileDeleteFails, RequestsGone
    <2>2. ~Footprint /\ ls.exists /\ ls.deleting
      BY <1>1, <2>1, PositionFacts DEF DeleteSteps
    <2>3. Lifecycle!Release
      BY <1>1, <1>2, <2>2 DEF Lifecycle!Release
    <2> QED BY <2>3 DEF Lifecycle!Next
  <1> QED BY <1>3, <1>4

\* A handler takes a step of the life cycle, or none.
LEMMA HandlerLife ==
    ASSUME TypeOK, SafetyInv, FreshInv, VersionInv, Handler
    PROVE  [Lifecycle!Next]_(Lifecycle!vars)
  <1>1. CASE \/ EnsureFinalizer \/ RemoveFinalizer
             \/ ClusterAccess("clusterAccess", "reconcileGateway",
                              setInstallWaitForClusterAccessReady(st))
             \/ ClusterAccess("clusterAccessD", "createConfigD",
                              setUninstallWaitForClusterAccessReady(st))
             \/ Adding \/ Removing \/ ReconcileDelete \/ ReconcileDeleteFails
    BY <1>1, EnsureFinalizerLife, RemoveFinalizerLife, ClusterAccessLife,
       InstallingLife, RemovingLife, ReleaseLife
  <1>2. CASE InstallerFails
    <2>1. Adding \/ Removing
      BY <1>2
         DEF InstallerFails, Adding, Removing, Components, AfterAccess,
             DeleteSteps
    <2> QED BY <1>1, <2>1
  <1>3. CASE /\ ~EnsureFinalizer /\ ~RemoveFinalizer
             /\ \/ CheckReconcileAnnotation \/ EnsureInstanceID
                \/ GetProviderConfig("getProviderConfig", "recordProviderConfig",
                                     setInstallProviderConfigError(st))
                \/ RecordProviderConfig("recordProviderConfig", "clusterAccess",
                                        setInstallProviderConfigError(st),
                                        IsVersionAvailable)
                \/ ReconcileGateway \/ SyncCA \/ IsTLSRouteReady \/ CheckReadiness
                \/ CreateConfig("createConfig", "syncCA")
                \/ GetProviderConfig("getProviderConfigD", "recordProviderConfigD",
                                     setUninstallProviderConfigError(st))
                \/ RecordProviderConfig("recordProviderConfigD", "accessInDeletion",
                                        setUninstallProviderConfigError(st), TRUE)
                \/ AccessInDeletion
                \/ CreateConfig("createConfigD", "deleteTLSRoute")
                \/ DeleteCA \/ CallFails
    <2>1. UNCHANGED <<requests, components, route>>
      BY <1>3
         DEF CheckReconcileAnnotation, EnsureInstanceID, GetProviderConfig,
             RecordProviderConfig, ReconcileGateway, SyncCA, IsTLSRouteReady,
             CheckReadiness, CreateConfig, AccessInDeletion, DeleteCA, CallFails,
             install
    <2>2. Footprint' <=> Footprint
      BY <2>1 DEF Footprint
    <2>3. SameContent(ls, ls')
      BY <1>3, HandlerKeepsContent DEF LetsGo, KeepsContent
    <2>4. ls'.finalizer = ls.finalizer
      BY <1>3, FinalizerKept
    <2> QED BY <2>1, <2>2, <2>3, <2>4, SameLife
  <1> QED
    BY <1>1, <1>2, <1>3
       DEF Handler, CreateOrUpdate, Delete, Adding, Removing

\* The user creates, deletes and lets go; the platform grants and releases.
LEMMA OthersLife ==
    ASSUME TypeOK, SafetyInv, Others
    PROVE  [Lifecycle!Next]_(Lifecycle!vars)
  <1>1. Footprint' = Footprint
    BY OthersWrite DEF Footprint
  <1>2. CASE \E r \in Requests : GrantRequest(r)
    <2>1. PICK r \in Requests : GrantRequest(r)
      BY <1>2
    <2>2. /\ UNCHANGED ls /\ requests[r] = "pending"
          /\ \A q \in Requests :
                requests'[q] = IF q = r THEN "granted" ELSE requests[q]
      BY <2>1 DEF GrantRequest, TypeOK
    <2>3. Lifecycle!Grant
      BY <1>1, <2>2 DEF Lifecycle!Grant
    <2> QED BY <2>3 DEF Lifecycle!Next
  <1>3. CASE \E r \in Requests : RemoveRequest(r)
    <2>1. PICK r \in Requests : RemoveRequest(r)
      BY <1>3
    <2>2. /\ UNCHANGED ls /\ requests[r] = "deleting"
          /\ \A q \in Requests :
                requests'[q] = IF q = r THEN "absent" ELSE requests[q]
      BY <2>1 DEF RemoveRequest, TypeOK
    <2>3. ls.exists /\ ls.deleting /\ ~Footprint
      BY <2>2
         DEF SafetyInv, ResourceInv, ProtectionInv, InDeletion, AccessGranted
    <2>4. Lifecycle!Release
      BY <1>1, <2>2, <2>3 DEF Lifecycle!Release
    <2> QED BY <2>4 DEF Lifecycle!Next
  <1>4. CASE UNCHANGED requests
    <2>1. CASE UNCHANGED ls
      BY <1>1, <1>4, <2>1 DEF Lifecycle!vars
    <2>2. CASE Created
      <3>1. ls'.finalizer = ls.finalizer
        <4>1. ls \in Landscapers /\ ls' \in Landscapers
          <5>1. TypeOK'
            BY TypeUser, TypeEnvironment, TypeFault DEF Others, Fault
          <5> QED BY <5>1 DEF TypeOK
        <4> QED
          BY <2>2, <4>1 DEF Created, SafetyInv, ResourceInv, Landscapers
      <3>2. Lifecycle!Create
        BY <1>1, <1>4, <2>2, <3>1 DEF Created, Lifecycle!Create
      <3> QED BY <3>2 DEF Lifecycle!Next
    <2>3. CASE Edited \/ Touched
      BY <1>1, <1>4, <2>3 DEF Edited, Touched, SameContent, Lifecycle!vars
    <2>4. CASE MarkedDeleted
      <3>1. Lifecycle!RequestDeletion
        BY <1>1, <1>4, <2>4 DEF MarkedDeleted, Lifecycle!RequestDeletion
      <3> QED BY <3>1 DEF Lifecycle!Next
    <2>5. CASE Vanished
      <3>1. ls.exists /\ ls.finalizer = FALSE /\ ~ls'.exists
            /\ ls'.finalizer = FALSE
        <4>1. NoLandscaper.finalizer = FALSE
          BY DEF NoLandscaper
        <4>2. ls.exists /\ ls' = NoLandscaper /\ ls.finalizer = FALSE
          BY <2>5 DEF Vanished, TypeOK, Landscapers
        <4> QED BY <4>1, <4>2, EmptyRecords
      <3>2. ~Footprint /\ ~SomeRequest
        BY <3>1 DEF SafetyInv, ProtectionInv
      <3>3. CASE ls.deleting
        <4>1. Lifecycle!LetGo
          BY <1>1, <1>4, <3>1, <3>2, <3>3 DEF Lifecycle!LetGo, SomeRequest
        <4> QED BY <4>1 DEF Lifecycle!Next
      <3>4. CASE ~ls.deleting
        <4>1. Lifecycle!RequestDeletion
          BY <1>1, <1>4, <3>1, <3>4 DEF Lifecycle!RequestDeletion
        <4> QED BY <4>1 DEF Lifecycle!Next
      <3> QED BY <3>3, <3>4
    <2> QED BY <2>1, <2>2, <2>3, <2>4, <2>5, OthersWrite
  <1>5. \/ UNCHANGED requests
        \/ \E r \in Requests : GrantRequest(r) \/ RemoveRequest(r)
    BY DEF Others, HandlerFails, Outage, User, Create, Edit, Annotate,
           RequestDeletion, Environment, ReleaseForeign, EditProviderConfig,
           mapProviderConfigToRequests, ProvideGateway, AcceptRoute, RollOut
  <1> QED BY <1>2, <1>3, <1>4, <1>5

\* Get and Finish take none: Finish writes the status alone.
LEMMA GetAndFinishLife ==
    ASSUME TypeOK, SafetyInv, FreshInv, Get \/ Finish
    PROVE  UNCHANGED Lifecycle!vars
  <1>1. CASE Get
    <2>1. UNCHANGED <<ls, requests, components, route>>
      BY <1>1, GetMoves
    <2> QED BY <2>1 DEF Lifecycle!vars, Footprint
  <1>2. CASE Finish
    <2>1. UNCHANGED <<requests, components, route>>
      BY <1>2, FinishMoves
    <2>2. /\ ls'.exists = ls.exists /\ ls'.deleting = ls.deleting
          /\ ls'.finalizer = ls.finalizer
      <3>1. fresh => /\ obj.exists = ls.exists /\ obj.deleting = ls.deleting
                     /\ obj.finalizer = ls.finalizer
        BY DEF SafetyInv, CopyInv, HeldInv, FreshInv, SameContent
      <3>2. obj \in Landscapers /\ st \in ReconcileStatuses
        BY DEF TypeOK
      <3>3. CASE fresh /\ ls' = [obj EXCEPT !.status =
                                   convertToLandscaperStatus(st, obj.status)]
        BY <3>1, <3>2, <3>3, WrittenStatus
      <3> QED BY <1>2, <3>3, FinishMoves
    <2> QED BY <2>1, <2>2 DEF Lifecycle!vars, Footprint
  <1> QED BY <1>1, <1>2

\* The worker takes a step of the life cycle, or none.
LEMMA ReconcileLife ==
    ASSUME TypeOK, SafetyInv, FreshInv, VersionInv, Reconcile
    PROVE  [Lifecycle!Next]_(Lifecycle!vars)
  BY GetAndFinishLife, HandlerLife DEF Reconcile, Handler

(***************************************************************************)
(* ImplementsLifecycle: the controller implements the abstract life cycle. *)
(* The steps of the worker that are one step there are EnsureFinalizer,    *)
(* the creation of a request, the first step that installs something, the  *)
(* last that removes something, ReconcileDelete and RemoveFinalizer; every *)
(* other step of the worker is invisible.                                  *)
(***************************************************************************)
THEOREM LifecycleImplemented == Spec => ImplementsLifecycle
  <1>1. TypeOK /\ SafetyInv /\ StepInv /\ [Next]_vars
            => [Lifecycle!Next]_(Lifecycle!vars)
    <2> SUFFICES ASSUME TypeOK, SafetyInv, StepInv, [Next]_vars
                 PROVE  [Lifecycle!Next]_(Lifecycle!vars)
      OBVIOUS
    <2>1. FreshInv /\ VersionInv
      BY DEF StepInv, HeldInv
    <2>2. CASE UNCHANGED vars \/ Crash
      <3>1. UNCHANGED <<ls, requests, components, route>>
        BY <2>2 DEF vars, install, Crash
      <3> QED BY <3>1 DEF Lifecycle!vars, Footprint
    <2> QED
      BY <2>1, <2>2, GetAndFinishLife, HandlerLife, OthersLife, StepKinds
  <1> QED
    BY <1>1, LifecycleInit, TypeCorrect, SafetyCorrect, StepCorrect, PTL
       DEF Spec, ImplementsLifecycle, Lifecycle!Spec
=============================================================================
