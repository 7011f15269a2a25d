--------------------------- MODULE ProcessesProofs ---------------------------
(***************************************************************************)
(* Proofs about Processes, for every life of the two processes and every   *)
(* behaviour of users, operators and clusters: what the lease is worth,    *)
(* that a handover loses no key, that a process which takes over finds     *)
(* what it relies on, and that the two together keep what one controller   *)
(* promises.                                                               *)
(*                                                                         *)
(* What is proved of the worker in LandscaperReconcilerProofs and          *)
(* LandscaperStatusProofs is used twice: as it stands for the first        *)
(* worker, and by the instance Two for the second one.                     *)
(***************************************************************************)
EXTENDS Processes, LandscaperStatusProofs

(***************************************************************************)
(* The lease says who works: a worker that is busy belongs to a process    *)
(* whose controllers run, and those run for the holder of the lease alone. *)
(***************************************************************************)
LeaseInv ==
    /\ running \subseteq Processes
    /\ active \subseteq Processes
    /\ active \subseteq {lease}
    /\ pc # "idle" => 1 \in active
    /\ pc2 # "idle" => 2 \in active

\* What the rest of the world does leaves the first worker where it is.
LEMMA SurroundingsLeaveWorkers ==
    Surroundings => UNCHANGED <<pc, pc2, running, active, lease>>
  <1> SUFFICES ASSUME Surroundings
               PROVE  UNCHANGED <<pc, pc2, running, active, lease>>
    OBVIOUS
  <1>1. UNCHANGED <<pc2, running, active, lease>>
    BY DEF Surroundings, SecondIsTold, process
  <1>2. CASE User
    BY <1>1, <1>2 DEF User, Create, Edit, Annotate, RequestDeletion
  <1>3. CASE ReleaseForeign
    BY <1>1, <1>3 DEF ReleaseForeign
  <1>4. CASE \E p \in ProviderConfigNames : mapProviderConfigToRequests(p)
    BY <1>1, <1>4 DEF mapProviderConfigToRequests
  <1>5. CASE \E r \in Requests : GrantRequest(r) \/ RemoveRequest(r)
    BY <1>1, <1>5 DEF GrantRequest, RemoveRequest, local
  <1>6. CASE ProvideGateway \/ AcceptRoute \/ RollOut
    BY <1>1, <1>6 DEF ProvideGateway, AcceptRoute, RollOut, local
  <1> QED BY <1>2, <1>3, <1>4, <1>5, <1>6 DEF Surroundings

\* A process that ends takes its worker with it.
LEMMA EndKeepsLease ==
    ASSUME LeaseInv, NEW i \in Processes, Forget(i),
           running' = running \ {i}, active' = active \ {i},
           lease' = lease \/ lease = i
    PROVE  LeaseInv'
  <1>1. CASE i = 1
    <2>1. pc' = "idle" /\ pc2' = pc2
      BY <1>1 DEF Forget, Rest, local2
    <2> QED BY <1>1, <2>1 DEF LeaseInv, Processes
  <1>2. CASE i = 2
    <2>1. pc2' = "idle" /\ pc' = pc
      BY <1>2 DEF Forget, Second!Rest, local
    <2> QED BY <1>2, <2>1 DEF LeaseInv, Processes
  <1> QED BY <1>1, <1>2 DEF Processes

LEMMA LifetimeKeepsLease ==
    ASSUME LeaderElection, LeaseInv, Lifetime
    PROVE  LeaseInv'
  <1>1. CASE StartProcess
    BY <1>1 DEF StartProcess, LeaseInv, vars, local, local2
  <1>2. CASE LeaseExpires
    BY <1>2 DEF LeaseExpires, Abandoned, LeaseInv, vars, local, local2
  <1>3. ASSUME NEW i \in Processes, Lead(i) PROVE LeaseInv'
    <2>1. active = {}
      BY <1>3 DEF Lead, MayLead, LeaseInv, Nobody, Processes
    <2> QED
      BY <1>3, <2>1 DEF Lead, LeaseInv, local, local2
  <1>4. ASSUME NEW i \in Processes, Stop(i) PROVE LeaseInv'
    BY <1>4, EndKeepsLease DEF Stop, StillActive
  <1>5. ASSUME NEW i \in Processes, Kill(i) PROVE LeaseInv'
    BY <1>5, EndKeepsLease DEF Kill
  <1> QED BY <1>1, <1>2, <1>3, <1>4, <1>5 DEF Lifetime

LEMMA StepKeepsLease ==
    ASSUME LeaderElection, LeaseInv, [ProcessesNext]_allVars
    PROVE  LeaseInv'
  <1>1. CASE FirstWorks
    BY <1>1 DEF FirstWorks, SecondIsTold, process, LeaseInv
  <1>2. CASE SecondWorks
    BY <1>2 DEF SecondWorks, FirstIsTold, process, LeaseInv
  <1>3. CASE Lifetime
    BY <1>3, LifetimeKeepsLease
  <1>4. CASE Surroundings
    BY <1>4, SurroundingsLeaveWorkers DEF LeaseInv
  <1>5. CASE UNCHANGED allVars
    BY <1>5 DEF allVars, vars, local, local2, process, LeaseInv
  <1> QED BY <1>1, <1>2, <1>3, <1>4, <1>5 DEF ProcessesNext

(***************************************************************************)
(* OneAtWork: with leader election the workers of the two processes are    *)
(* never busy at the same time, however often processes are started,       *)
(* stopped and killed, and whenever a lease expires.                       *)
(***************************************************************************)
THEOREM OneAtWorkCorrect == LeaderElection => (ProcessesSpec => []OneAtWork)
  <1> SUFFICES ASSUME LeaderElection PROVE ProcessesSpec => []OneAtWork
    OBVIOUS
  <1>1. ProcessesInit => LeaseInv
    BY DEF ProcessesInit, Init, Rest, LeaseInv
  <1>2. LeaseInv /\ [ProcessesNext]_allVars => LeaseInv'
    BY StepKeepsLease
  <1>3. LeaseInv => OneAtWork
    BY DEF LeaseInv, OneAtWork
  <1> QED BY <1>1, <1>2, <1>3, PTL DEF ProcessesSpec

-----------------------------------------------------------------------------
(* The second worker.                                                      *)

\* The second worker, with what is proved of LandscaperReconciler.
Two == INSTANCE LandscaperStatusProofs WITH
    pc <- pc2, obj <- obj2, oldStatus <- oldStatus2, st <- st2, cfg <- cfg2,
    fresh <- fresh2, res <- res2, queued <- queued2

\* Both name the same actions.
LEMMA SecondIsTwo ==
    /\ Second!Reconcile => Two!Reconcile
    /\ Second!FailureStatus = Two!FailureStatus
    /\ Second!TypeOK <=> Two!TypeOK
  <1>1. Second!Reconcile => Two!Reconcile
    BY DEF Second!local, Two!local, Second!install, Two!install, Second!config,
         Two!config, Second!bounds, Two!bounds, Second!Requests, Two!Requests,
         Second!EmptyStatus, Two!EmptyStatus, Second!NoLandscaper,
         Two!NoLandscaper, Second!NoConfig, Two!NoConfig, Second!Target,
         Two!Target, Second!Goto, Two!Goto, Second!Return, Two!Return,
         Second!Rest, Two!Rest, Second!OwnWrite, Two!OwnWrite,
         Second!IsDeletion, Two!IsDeletion, Second!Get, Two!Get,
         Second!Finish, Two!Finish, Second!EnsureFinalizer,
         Two!EnsureFinalizer, Second!CheckReconcileAnnotation,
         Two!CheckReconcileAnnotation, Second!StoreInstanceID,
         Two!StoreInstanceID, Second!EnsureInstanceID, Two!EnsureInstanceID,
         Second!ConfigCandidates, Two!ConfigCandidates, Second!ReadConfig,
         Two!ReadConfig, Second!GetProviderConfig, Two!GetProviderConfig,
         Second!RecordProviderConfig, Two!RecordProviderConfig,
         Second!IsVersionAvailable, Two!IsVersionAvailable,
         Second!WaitForAccess, Two!WaitForAccess, Second!AccessGranted,
         Two!AccessGranted, Second!ClusterAccess, Two!ClusterAccess,
         Second!WaitForGateway, Two!WaitForGateway, Second!ReconcileGateway,
         Two!ReconcileGateway, Second!CreateConfig, Two!CreateConfig,
         Second!SyncCA, Two!SyncCA, Second!Install, Two!Install,
         Second!InstallLandscaperInstance, Two!InstallLandscaperInstance,
         Second!ReconcileTLSRoute, Two!ReconcileTLSRoute,
         Second!IsTLSRouteReady, Two!IsTLSRouteReady, Second!InstanceReady,
         Two!InstanceReady, Second!CheckReadiness, Two!CheckReadiness,
         Second!CreateOrUpdate, Two!CreateOrUpdate,
         Second!areAccessRequestsInDeletion, Two!areAccessRequestsInDeletion,
         Second!AccessInDeletion, Two!AccessInDeletion, Second!DeleteTLSRoute,
         Two!DeleteTLSRoute, Second!DeleteCA, Two!DeleteCA, Second!Uninstall,
         Two!Uninstall, Second!UninstallLandscaperInstance,
         Two!UninstallLandscaperInstance, Second!RequestsGone,
         Two!RequestsGone, Second!WaitForRelease, Two!WaitForRelease,
         Second!ReconcileDelete, Two!ReconcileDelete, Second!RemoveFinalizer,
         Two!RemoveFinalizer, Second!Delete, Two!Delete, Second!Reconcile,
         Two!Reconcile, Second!NoCondition, Two!NoCondition, Second!Condition,
         Two!Condition, Second!newCreateOrUpdateStatus,
         Two!newCreateOrUpdateStatus, Second!newDeleteStatus,
         Two!newDeleteStatus, Second!setInstallWaitForClusterAccessReady,
         Two!setInstallWaitForClusterAccessReady,
         Second!setUninstallWaitForClusterAccessReady,
         Two!setUninstallWaitForClusterAccessReady, Second!setInstalled,
         Two!setInstalled, Second!setUninstalled, Two!setUninstalled,
         Second!setWaitForReadinessCheck, Two!setWaitForReadinessCheck,
         Second!setReady, Two!setReady, Second!setInstallProviderConfigError,
         Two!setInstallProviderConfigError,
         Second!setUninstallProviderConfigError,
         Two!setUninstallProviderConfigError,
         Second!setInstallDNSConfigFailed, Two!setInstallDNSConfigFailed,
         Second!setInstallWaitForDNSReady, Two!setInstallWaitForDNSReady,
         Second!convertToLandscaperStatus, Two!convertToLandscaperStatus
  <1>2. Second!FailureStatus = Two!FailureStatus
    BY DEF Second!FailureStatus, Two!FailureStatus, Second!Condition,
         Two!Condition, Second!setInstallClusterAccessError,
         Two!setInstallClusterAccessError,
         Second!setUninstallClusterAccessError,
         Two!setUninstallClusterAccessError,
         Second!setInstallProviderConfigError,
         Two!setInstallProviderConfigError,
         Second!setUninstallProviderConfigError,
         Two!setUninstallProviderConfigError,
         Second!setInstallConfigurationError,
         Two!setInstallConfigurationError,
         Second!setUninstallConfigurationError,
         Two!setUninstallConfigurationError, Second!setInstallDNSConfigFailed,
         Two!setInstallDNSConfigFailed, Second!SetUninstallDNSConfigFailed,
         Two!SetUninstallDNSConfigFailed
  <1>3. Second!TypeOK <=> Two!TypeOK
    BY DEF Second!ConfigContents, Two!ConfigContents, Second!Components,
         Two!Components, Second!Requests, Two!Requests, Second!ConfigRefs,
         Two!ConfigRefs, Second!LandscaperStatuses, Two!LandscaperStatuses,
         Second!Landscapers, Two!Landscapers, Second!ReadConfigs,
         Two!ReadConfigs, Second!CreateSteps, Two!CreateSteps,
         Second!DeleteSteps, Two!DeleteSteps, Second!Steps, Two!Steps,
         Second!TypeOK, Two!TypeOK, Second!Phases, Two!Phases,
         Second!ConditionReasons, Two!ConditionReasons, Second!NoCondition,
         Two!NoCondition, Second!Conditions, Two!Conditions,
         Second!ReconcileStatuses, Two!ReconcileStatuses
  <1> QED BY <1>1, <1>2, <1>3

-----------------------------------------------------------------------------
(* Types.                                                                  *)

SharedTypes ==
    /\ ls \in Landscapers
    /\ requests \in [Requests -> {"absent", "pending", "granted", "deleting"}]
    /\ components \in
           [Components -> Versions \cup {"absent", "mixed", "present"}]
    /\ rolledOut \in BOOLEAN
    /\ route \in {"absent", "created", "accepted"}
    /\ caCopies \in SUBSET CABundles
    /\ applied \in ReadConfigs
    /\ gateway \in {"absent", "unnamed", "ready"}
    /\ providerConfigs \in [ProviderConfigNames -> ConfigContents]
    /\ configEvents \in SUBSET ProviderConfigNames
    /\ userOps \in Nat /\ configEdits \in Nat /\ faults \in Nat

FirstTypes ==
    /\ queued \in {"no", "timer", "now"} /\ pc \in Steps
    /\ obj \in Landscapers /\ oldStatus \in LandscaperStatuses
    /\ st \in ReconcileStatuses /\ cfg \in ReadConfigs
    /\ fresh \in BOOLEAN /\ res \in {"done", "requeue", "error"}

SecondTypes ==
    /\ queued2 \in {"no", "timer", "now"} /\ pc2 \in Steps
    /\ obj2 \in Landscapers /\ oldStatus2 \in LandscaperStatuses
    /\ st2 \in ReconcileStatuses /\ cfg2 \in ReadConfigs
    /\ fresh2 \in BOOLEAN /\ res2 \in {"done", "requeue", "error"}

LifetimeTypes ==
    /\ running \in SUBSET Processes
    /\ active \in SUBSET running
    /\ lease \in Processes \cup {Nobody}
    /\ stops \in Nat

\* The workers share all but what is local to them.
LEMMA TypeParts ==
    /\ TypeOK <=> SharedTypes /\ FirstTypes
    /\ Two!TypeOK <=> SharedTypes /\ SecondTypes
    /\ ProcessesTypeOK <=>
           SharedTypes /\ FirstTypes /\ SecondTypes /\ LifetimeTypes
  <1>1. TypeOK <=> SharedTypes /\ FirstTypes
    BY DEF TypeOK, SharedTypes, FirstTypes
  <1>2. Two!TypeOK <=> SharedTypes /\ SecondTypes
    BY DEF SharedTypes, SecondTypes, ConfigContents, Components, Requests,
           ConfigRefs, LandscaperStatuses, Landscapers, ReadConfigs,
           CreateSteps, DeleteSteps, Steps, Phases, ConditionReasons,
           NoCondition, Conditions, ReconcileStatuses,
           Two!ConfigContents, Two!Components, Two!Requests, Two!ConfigRefs,
           Two!LandscaperStatuses, Two!Landscapers, Two!ReadConfigs,
           Two!CreateSteps, Two!DeleteSteps, Two!Steps, Two!TypeOK,
           Two!Phases, Two!ConditionReasons, Two!NoCondition, Two!Conditions,
           Two!ReconcileStatuses
  <1> QED BY <1>1, <1>2, SecondIsTwo DEF ProcessesTypeOK, LifetimeTypes

\* A refused call leaves a status of the right type.
LEMMA RefusedTypes ==
    ASSUME SharedTypes, FirstTypes, SecondTypes
    PROVE  /\ FirstIsRefused => FirstTypes'
           /\ SecondIsRefused => SecondTypes'
  <1>1. FailureStatus \in ReconcileStatuses
    BY TypeParts, FailuresAreSetbacks DEF Setback
  <1>2. Second!FailureStatus \in ReconcileStatuses
    <2>1. Two!FailureStatus \in Two!ReconcileStatuses
      <3> USE ConstantsAssumption DEF ConfigContents, Two!ConfigContents
      <3> QED BY TypeParts, Two!FailuresAreSetbacks DEF Two!Setback
    <2>2. Two!ReconcileStatuses = ReconcileStatuses
      BY DEF Phases, ConditionReasons, NoCondition, Conditions,
             ReconcileStatuses, Two!Phases, Two!ConditionReasons,
             Two!NoCondition, Two!Conditions, Two!ReconcileStatuses
    <2> QED BY <2>1, <2>2, SecondIsTwo
  <1>3. \A s \in ReconcileStatuses :
           /\ setWaitForReadinessCheck(s) \in ReconcileStatuses
           /\ setInstallFailed(s) \in ReconcileStatuses
           /\ setUninstallFailed(s) \in ReconcileStatuses
    BY StatusTypes
  <1>4. "finish" \in Steps
    BY DEF Steps
  <1>5. ASSUME FirstIsRefused PROVE FirstTypes'
    BY <1>1, <1>3, <1>4, <1>5 DEF FirstIsRefused, Return, FirstTypes
  <1>6. ASSUME SecondIsRefused PROVE SecondTypes'
    BY <1>2, <1>3, <1>4, <1>6 DEF SecondIsRefused, Second!Return, SecondTypes
  <1> QED BY <1>5, <1>6

\* A worker at rest, whichever of the two it is.
LEMMA RestingTypes ==
    /\ Rest /\ queued' = "no" => FirstTypes'
    /\ Second!Rest /\ queued2' = "no" => SecondTypes'
  <1>1. newCreateOrUpdateStatus(0) \in ReconcileStatuses
    BY StatusTypes
  <1>2. "idle" \in Steps
    BY DEF Steps
  <1>3. Rest /\ queued' = "no" => FirstTypes'
    BY <1>1, <1>2, RestTypes DEF Rest, FirstTypes
  <1>4. Second!Rest => /\ pc2' = "idle" /\ obj2' = NoLandscaper
                       /\ oldStatus2' = EmptyStatus
                       /\ st2' = newCreateOrUpdateStatus(0) /\ cfg2' = NoConfig
                       /\ fresh2' = FALSE /\ res2' = "done"
    BY DEF Second!Rest, Second!NoLandscaper, Second!EmptyStatus,
           Second!NoCondition, Second!newCreateOrUpdateStatus, Second!Condition,
           Second!NoConfig, NoLandscaper, EmptyStatus, NoCondition,
           newCreateOrUpdateStatus, Condition, NoConfig
  <1> QED BY <1>1, <1>2, <1>3, <1>4, RestTypes DEF SecondTypes

LEMMA TypeLifetime ==
    ASSUME SharedTypes, FirstTypes, SecondTypes, LifetimeTypes, Lifetime
    PROVE  SharedTypes' /\ FirstTypes' /\ SecondTypes' /\ LifetimeTypes'
  <1>1. CASE StartProcess \/ LeaseExpires
    <2>1. SharedTypes' /\ FirstTypes' /\ SecondTypes'
      BY <1>1
         DEF StartProcess, LeaseExpires, vars, local, local2, install, config,
             bounds, SharedTypes, FirstTypes, SecondTypes
    <2>2. LifetimeTypes'
      BY <1>1 DEF StartProcess, LeaseExpires, LifetimeTypes, Nobody
    <2> QED BY <2>1, <2>2
  <1>2. ASSUME NEW i \in Processes, Lead(i)
        PROVE  SharedTypes' /\ FirstTypes' /\ SecondTypes' /\ LifetimeTypes'
    <2>1. SharedTypes'
      BY <1>2 DEF Lead, SharedTypes, install, bounds
    <2>2. FirstTypes' /\ SecondTypes'
      BY <1>2 DEF Lead, Listed, FirstTypes, SecondTypes, local, local2
    <2>3. LifetimeTypes'
      BY <1>2 DEF Lead, LifetimeTypes
    <2> QED BY <2>1, <2>2, <2>3
  <1>3. ASSUME NEW i \in Processes, Stop(i) \/ Kill(i)
        PROVE  SharedTypes' /\ FirstTypes' /\ SecondTypes' /\ LifetimeTypes'
    <2>1. SharedTypes'
      BY <1>3 DEF Stop, Kill, SharedTypes, install, config, bounds
    <2>2. Forget(i)
      BY <1>3 DEF Stop, Kill
    <2>3. FirstTypes'
      <3>1. CASE i = 1
        BY <2>2, <3>1, RestingTypes DEF Forget
      <3>2. CASE i # 1
        BY <2>2, <3>2 DEF Forget, local, FirstTypes
      <3> QED BY <3>1, <3>2
    <2>4. SecondTypes'
      <3>1. CASE i = 1
        BY <2>2, <3>1 DEF Forget, local2, SecondTypes
      <3>2. CASE i # 1
        BY <2>2, <3>2, RestingTypes DEF Forget
      <3> QED BY <3>1, <3>2
    <2>5. LifetimeTypes'
      BY <1>3 DEF Stop, Kill, StillActive, LifetimeTypes, Nobody
    <2> QED BY <2>1, <2>3, <2>4, <2>5
  <1> QED BY <1>1, <1>2, <1>3 DEF Lifetime

LEMMA TypeProcesses ==
    ASSUME ProcessesTypeOK, [ProcessesNext]_allVars
    PROVE  ProcessesTypeOK'
  <1>1. SharedTypes /\ FirstTypes /\ SecondTypes /\ LifetimeTypes
        /\ TypeOK /\ Two!TypeOK
    BY TypeParts
  <1> SUFFICES SharedTypes' /\ FirstTypes' /\ SecondTypes' /\ LifetimeTypes'
    <2>1. ProcessesTypeOK' <=>
             SharedTypes' /\ FirstTypes' /\ SecondTypes' /\ LifetimeTypes'
      BY TypeParts, PTL
    <2> QED BY <2>1
  <1>2. /\ TypeOK' <=> SharedTypes' /\ FirstTypes'
        /\ Two!TypeOK' <=> SharedTypes' /\ SecondTypes'
    BY TypeParts, PTL
  <1>3. UNCHANGED process => LifetimeTypes'
    BY <1>1 DEF process, LifetimeTypes
  <1>4. FirstIsTold => FirstTypes'
    BY <1>1 DEF FirstIsTold, FirstTypes
  <1>5. SecondIsTold => SecondTypes'
    BY <1>1 DEF SecondIsTold, SecondTypes
  <1>6. CASE FirstWorks
    <2>1. CASE Reconcile
      BY <1>1, <1>2, <1>3, <1>5, <1>6, <2>1, TypeReconcile DEF FirstWorks
    <2>2. CASE FirstIsRefused
      <3>1. SharedTypes'
        BY <1>1, <2>2 DEF FirstIsRefused, SharedTypes, install, config, bounds
      <3> QED
        BY <1>1, <1>3, <1>5, <1>6, <2>2, <3>1, RefusedTypes DEF FirstWorks
    <2> QED BY <1>6, <2>1, <2>2 DEF FirstWorks
  <1>7. CASE SecondWorks
    <2>1. CASE Second!Reconcile
      <3>1. Two!TypeOK'
        <4> USE ConstantsAssumption DEF ConfigContents, Two!ConfigContents
        <4> QED BY <1>1, <2>1, SecondIsTwo, Two!TypeReconcile
      <3> QED BY <1>2, <1>3, <1>4, <1>7, <3>1 DEF SecondWorks
    <2>2. CASE SecondIsRefused
      <3>1. SharedTypes'
        BY <1>1, <2>2 DEF SecondIsRefused, SharedTypes, install, config, bounds
      <3> QED
        BY <1>1, <1>3, <1>4, <1>7, <2>2, <3>1, RefusedTypes DEF SecondWorks
    <2> QED BY <1>7, <2>1, <2>2 DEF SecondWorks
  <1>8. CASE Lifetime
    BY <1>1, <1>8, TypeLifetime
  <1>9. CASE Surroundings
    <2>1. User \/ Environment
      BY <1>9 DEF Surroundings, Environment
    <2>2. TypeOK'
      BY <1>1, <2>1, TypeUser, TypeEnvironment
    <2> QED BY <1>2, <1>3, <1>5, <1>9, <2>2 DEF Surroundings
  <1>10. CASE UNCHANGED allVars
    BY <1>1, <1>10
       DEF allVars, vars, local, local2, process, install, config, bounds,
           SharedTypes, FirstTypes, SecondTypes, LifetimeTypes
  <1> QED BY <1>6, <1>7, <1>8, <1>9, <1>10 DEF ProcessesNext

\* Type correctness of the two processes.
THEOREM ProcessesTypeCorrect == ProcessesSpec => []ProcessesTypeOK
  <1>1. ProcessesInit => ProcessesTypeOK
    <2> SUFFICES ASSUME ProcessesInit PROVE ProcessesTypeOK
      OBVIOUS
    <2>1. SharedTypes /\ FirstTypes
      BY TypeInit, TypeParts DEF ProcessesInit
    <2>2. SecondTypes
      BY RestTypes, StatusTypes DEF ProcessesInit, SecondTypes, Steps
    <2>3. LifetimeTypes
      BY ProcessesAssumption DEF ProcessesInit, LifetimeTypes
    <2> QED BY <2>1, <2>2, <2>3, TypeParts
  <1> QED BY <1>1, TypeProcesses, PTL DEF ProcessesSpec

-----------------------------------------------------------------------------
(* The key is not lost.                                                    *)

\* Only the worker of a process that leads is busy; it knows what a worker
\* knows, and as long as it leads its process does not lose the key.
FirstInv ==
    /\ WorkerInv
    /\ pc # "idle" => 1 \in active
    /\ 1 \in active => NoLostWakeup

SecondInv ==
    /\ Two!WorkerInv
    /\ pc2 # "idle" => 2 \in active
    /\ 2 \in active => Two!NoLostWakeup

\* A worker hears of the writes of the others.
LEMMA TellingKeeps ==
    ASSUME FirstTypes, SecondTypes, UNCHANGED active
    PROVE  /\ FirstInv /\ FirstIsTold => FirstInv'
           /\ SecondInv /\ SecondIsTold => SecondInv'
  <1>1. ASSUME FirstInv, FirstIsTold PROVE FirstInv'
    <2>1. CASE ls' = ls
      <3>1. UNCHANGED <<ls, pc, obj, oldStatus, st, cfg, res, fresh, queued>>
        BY <1>1, <2>1 DEF FirstIsTold, FirstTypes
      <3> QED
        BY <1>1, <3>1
           DEF FirstInv, WorkerInv, FreshInv, SameContent, SameStatus,
               NoLostWakeup
    <2>2. CASE ls' # ls
      <3>1. /\ ~fresh' /\ UNCHANGED <<pc, obj, res>>
            /\ 1 \in active => queued' = "now"
        BY <1>1, <2>2 DEF FirstIsTold
      <3> QED
        BY <1>1, <3>1 DEF FirstInv, WorkerInv, FreshInv, NoLostWakeup, DeleteSteps
    <2> QED BY <2>1, <2>2
  <1>2. ASSUME SecondInv, SecondIsTold PROVE SecondInv'
    <2>1. CASE ls' = ls
      <3>1. UNCHANGED <<ls, pc2, obj2, oldStatus2, st2, cfg2, res2, fresh2, queued2>>
        BY <1>2, <2>1 DEF SecondIsTold, SecondTypes
      <3> QED
        BY <1>2, <3>1
           DEF SecondInv, Two!WorkerInv, Two!FreshInv, Two!SameContent,
               Two!SameStatus, Two!NoLostWakeup
    <2>2. CASE ls' # ls
      <3>1. /\ ~fresh2' /\ UNCHANGED <<pc2, obj2, res2>>
            /\ 2 \in active => queued2' = "now"
        BY <1>2, <2>2 DEF SecondIsTold
      <3> QED
        BY <1>2, <3>1
           DEF SecondInv, Two!WorkerInv, Two!FreshInv, Two!NoLostWakeup,
               Two!DeleteSteps
    <2> QED BY <2>1, <2>2
  <1> QED BY <1>1, <1>2

\* Work of its own.
LEMMA WorkingKeeps ==
    ASSUME TypeOK, Two!TypeOK, UNCHANGED active
    PROVE  /\ /\ FirstInv /\ 1 \in active
              /\ Reconcile \/ FirstIsRefused
              => FirstInv'
           /\ /\ SecondInv /\ 2 \in active
              /\ Second!Reconcile \/ SecondIsRefused
              => SecondInv'
  <1>1. ASSUME FirstInv, 1 \in active, Reconcile PROVE FirstInv'
    BY <1>1, WorkerReconciles DEF FirstInv
  <1>2. ASSUME FirstInv, 1 \in active, FirstIsRefused PROVE FirstInv'
    <2>1. /\ pc # "idle" /\ pc' = "finish" /\ UNCHANGED <<ls, obj, queued, fresh>>
          /\ res' # "done"
      BY <1>2
         DEF FirstIsRefused, UsesClusters, AfterAccess, Uninstalling, Return
    <2> QED
      BY <1>2, <2>1
         DEF FirstInv, WorkerInv, FreshInv, SameContent, SameStatus,
             NoLostWakeup, DeleteSteps
  <1>3. ASSUME SecondInv, 2 \in active, Second!Reconcile PROVE SecondInv'
    <2>1. Two!WorkerInv' /\ (Two!NoLostWakeup => Two!NoLostWakeup')
      <3> USE ConstantsAssumption DEF ConfigContents, Two!ConfigContents
      <3> QED BY <1>3, SecondIsTwo, Two!WorkerReconciles DEF SecondInv
    <2> QED BY <1>3, <2>1 DEF SecondInv
  <1>4. ASSUME SecondInv, 2 \in active, SecondIsRefused PROVE SecondInv'
    <2>1. /\ pc2 # "idle" /\ pc2' = "finish"
          /\ UNCHANGED <<ls, obj2, queued2, fresh2>>
          /\ res2' # "done"
      BY <1>4
         DEF SecondIsRefused, UsesClusters, AfterAccess, Uninstalling,
             Second!Return
    <2> QED
      BY <1>4, <2>1
         DEF SecondInv, Two!WorkerInv, Two!FreshInv, Two!SameContent,
             Two!SameStatus, Two!NoLostWakeup, Two!DeleteSteps
  <1> QED BY <1>1, <1>2, <1>3, <1>4

\* A process that starts to lead finds the key, and one that ends forgets it.
LEMMA LifetimeKeepsKeys ==
    ASSUME FirstInv, SecondInv, Lifetime
    PROVE  FirstInv' /\ SecondInv'
  <1>1. ASSUME UNCHANGED <<ls, local, queued, active>> PROVE FirstInv'
    BY <1>1
       DEF local, FirstInv, WorkerInv, FreshInv, SameContent, SameStatus,
           NoLostWakeup
  <1>2. ASSUME UNCHANGED <<ls, local2, queued2, active>> PROVE SecondInv'
    BY <1>2
       DEF local2, SecondInv, Two!WorkerInv, Two!FreshInv, Two!SameContent,
           Two!SameStatus, Two!NoLostWakeup
  <1>3. CASE StartProcess \/ LeaseExpires
    BY <1>1, <1>2, <1>3 DEF StartProcess, LeaseExpires, vars
  <1>4. ASSUME pc' = "idle", ~fresh',
               1 \in active' => (ls.exists => queued' = "now"), UNCHANGED ls
        PROVE  FirstInv'
    BY <1>4 DEF FirstInv, WorkerInv, FreshInv, NoLostWakeup, DeleteSteps
  <1>5. ASSUME pc2' = "idle", ~fresh2',
               2 \in active' => (ls.exists => queued2' = "now"), UNCHANGED ls
        PROVE  SecondInv'
    BY <1>5
       DEF SecondInv, Two!WorkerInv, Two!FreshInv, Two!NoLostWakeup,
           Two!DeleteSteps
  <1>6. ASSUME UNCHANGED <<ls, local, queued>>, 1 \in active' <=> 1 \in active
        PROVE  FirstInv'
    BY <1>6
       DEF local, FirstInv, WorkerInv, FreshInv, SameContent, SameStatus,
           NoLostWakeup
  <1>7. ASSUME UNCHANGED <<ls, local2, queued2>>, 2 \in active' <=> 2 \in active
        PROVE  SecondInv'
    BY <1>7
       DEF local2, SecondInv, Two!WorkerInv, Two!FreshInv, Two!SameContent,
           Two!SameStatus, Two!NoLostWakeup
  <1>8. ASSUME NEW i \in Processes, Lead(i) PROVE FirstInv' /\ SecondInv'
    <2>1. UNCHANGED <<ls, local, local2>> /\ active' = active \cup {i}
          /\ i \notin active
      BY <1>8 DEF Lead
    <2>2. CASE i = 1
      <3>1. pc = "idle" /\ ~fresh /\ pc' = "idle" /\ ~fresh'
        BY <2>1, <2>2 DEF FirstInv, WorkerInv, local
      <3>2. ls.exists => queued' = "now"
        BY <1>8, <2>2 DEF Lead, Listed
      <3>3. UNCHANGED queued2
        BY <1>8, <2>2 DEF Lead
      <3> QED BY <1>4, <1>7, <2>1, <2>2, <3>1, <3>2, <3>3
    <2>3. CASE i = 2
      <3>1. pc2 = "idle" /\ ~fresh2 /\ pc2' = "idle" /\ ~fresh2'
        BY <2>1, <2>3 DEF SecondInv, Two!WorkerInv, local2
      <3>2. ls.exists => queued2' = "now"
        BY <1>8, <2>3 DEF Lead, Listed
      <3>3. UNCHANGED queued
        BY <1>8, <2>3 DEF Lead
      <3> QED BY <1>5, <1>6, <2>1, <2>3, <3>1, <3>2, <3>3
    <2> QED BY <2>2, <2>3 DEF Processes
  <1>9. ASSUME NEW i \in Processes, Stop(i) \/ Kill(i)
        PROVE  FirstInv' /\ SecondInv'
    <2>1. Forget(i) /\ UNCHANGED ls /\ active' = active \ {i}
      BY <1>9 DEF Stop, Kill, StillActive
    <2>2. CASE i = 1
      <3>1. pc' = "idle" /\ ~fresh' /\ UNCHANGED <<local2, queued2>>
        BY <2>1, <2>2 DEF Forget, Rest
      <3> QED BY <1>4, <1>7, <2>1, <2>2, <3>1
    <2>3. CASE i = 2
      <3>1. pc2' = "idle" /\ ~fresh2' /\ UNCHANGED <<local, queued>>
        BY <2>1, <2>3 DEF Forget, Second!Rest
      <3> QED BY <1>5, <1>6, <2>1, <2>3, <3>1
    <2> QED BY <2>2, <2>3 DEF Processes
  <1> QED BY <1>3, <1>8, <1>9 DEF Lifetime

LEMMA KeysKept ==
    ASSUME ProcessesTypeOK, FirstInv, SecondInv, [ProcessesNext]_allVars
    PROVE  FirstInv' /\ SecondInv'
  <1>1. TypeOK /\ Two!TypeOK /\ FirstTypes /\ SecondTypes
    BY TypeParts
  <1>2. CASE FirstWorks
    <2>1. UNCHANGED active /\ SecondIsTold
      BY <1>2 DEF FirstWorks, process
    <2> QED BY <1>1, <1>2, <2>1, WorkingKeeps, TellingKeeps DEF FirstWorks
  <1>3. CASE SecondWorks
    <2>1. UNCHANGED active /\ FirstIsTold
      BY <1>3 DEF SecondWorks, process
    <2> QED BY <1>1, <1>3, <2>1, WorkingKeeps, TellingKeeps DEF SecondWorks
  <1>4. CASE Lifetime
    BY <1>4, LifetimeKeepsKeys
  <1>5. CASE Surroundings
    <2>1. UNCHANGED active /\ SecondIsTold
      BY <1>5 DEF Surroundings, process
    <2>2. Others
      BY <1>5 DEF Surroundings, Others, Environment
    <2>3. FirstInv'
      <3>1. /\ UNCHANGED <<pc, obj, res>>
            /\ UNCHANGED <<ls, queued, fresh>> \/ (~fresh' /\ queued' = "now")
        BY <1>1, <2>2, OthersWrite
      <3> QED
        BY <2>1, <3>1
           DEF FirstInv, WorkerInv, FreshInv, SameContent, SameStatus,
               NoLostWakeup, DeleteSteps
    <2> QED BY <1>1, <2>1, <2>3, TellingKeeps
  <1>6. CASE UNCHANGED allVars
    BY <1>6
       DEF allVars, vars, local, local2, process, FirstInv, SecondInv,
           WorkerInv, FreshInv, SameContent, SameStatus, NoLostWakeup,
           Two!WorkerInv, Two!FreshInv, Two!SameContent, Two!SameStatus,
           Two!NoLostWakeup
  <1> QED BY <1>2, <1>3, <1>4, <1>5, <1>6 DEF ProcessesNext

(***************************************************************************)
(* HandoverKeepsTheKey: with or without leader election, a process that    *)
(* leads has the key of a resource that needs it in its queue or in its    *)
(* hands, whatever its predecessor left unfinished and whatever the other  *)
(* process writes at the same time.                                        *)
(***************************************************************************)
THEOREM HandoverCorrect == ProcessesSpec => []HandoverKeepsTheKey
  <1>1. ProcessesInit => FirstInv /\ SecondInv
    BY EmptyRecords
       DEF ProcessesInit, Init, FirstInv, SecondInv, WorkerInv, FreshInv,
           DeleteSteps, Two!WorkerInv, Two!FreshInv, Two!DeleteSteps
  <1>2. /\ ProcessesTypeOK /\ FirstInv /\ SecondInv /\ [ProcessesNext]_allVars
        => FirstInv' /\ SecondInv'
    BY KeysKept
  <1>3. FirstInv /\ SecondInv => HandoverKeepsTheKey
    BY DEF FirstInv, SecondInv, NoLostWakeup, Two!NoLostWakeup,
           HandoverKeepsTheKey
  <1> QED
    BY <1>1, <1>2, <1>3, ProcessesTypeCorrect, PTL DEF ProcessesSpec

-----------------------------------------------------------------------------
(* No orphans.                                                             *)

\* The two workers know the same of what they share; a worker at rest knows
\* no more than that.
FirstRests  == pc = "idle" /\ ~fresh
SecondRests == pc2 = "idle" /\ ~fresh2

LEMMA RestingKnowsTheRest ==
    /\ SafetyInv /\ SecondRests => Two!SafetyInv
    /\ Two!SafetyInv /\ FirstRests => SafetyInv
  <1> USE DEF SafetyInv, ResourceInv, ProtectionInv, CopyInv, CreateInv,
              DeleteInv, SomeRequest, InDeletion, AccessGranted, Footprint,
              areAccessRequestsInDeletion, Requests, Components, CreateSteps,
              DeleteSteps, AfterAccess, BeforeID, Uninstalling,
              Two!SafetyInv, Two!ResourceInv, Two!ProtectionInv, Two!CopyInv,
              Two!CreateInv, Two!DeleteInv, Two!SomeRequest, Two!InDeletion,
              Two!AccessGranted, Two!Footprint,
              Two!areAccessRequestsInDeletion, Two!Requests, Two!Components,
              Two!CreateSteps, Two!DeleteSteps, Two!AfterAccess,
              Two!BeforeID, Two!Uninstalling
  <1>1. SafetyInv /\ SecondRests => Two!SafetyInv
    BY DEF SecondRests
  <1>2. Two!SafetyInv /\ FirstRests => SafetyInv
    BY DEF FirstRests
  <1> QED BY <1>1, <1>2

\* A refused call ends the reconciliation where it stands.
LEMMA SafetyRefused ==
    /\ SafetyInv /\ FirstIsRefused => SafetyInv'
    /\ Two!SafetyInv /\ SecondIsRefused => Two!SafetyInv'
  <1>1. ASSUME SafetyInv, FirstIsRefused PROVE SafetyInv'
    <2>1. /\ pc' = "finish"
          /\ UNCHANGED <<ls, obj, fresh, requests, components, route>>
      BY <1>1 DEF FirstIsRefused, Return, install
    <2> QED
      BY <1>1, <2>1
         DEF SafetyInv, ResourceInv, ProtectionInv, CopyInv, CreateInv,
             DeleteInv, SomeRequest, InDeletion, AccessGranted, Footprint,
             areAccessRequestsInDeletion, Requests, Components, CreateSteps,
             DeleteSteps, AfterAccess, BeforeID, Uninstalling
  <1>2. ASSUME Two!SafetyInv, SecondIsRefused PROVE Two!SafetyInv'
    <2>1. /\ pc2' = "finish"
          /\ UNCHANGED <<ls, obj2, fresh2, requests, components, route>>
      BY <1>2 DEF SecondIsRefused, Second!Return, install
    <2> QED
      BY <1>2, <2>1
         DEF Two!SafetyInv, Two!ResourceInv, Two!ProtectionInv, Two!CopyInv,
             Two!CreateInv, Two!DeleteInv, Two!SomeRequest, Two!InDeletion,
             Two!AccessGranted, Two!Footprint,
             Two!areAccessRequestsInDeletion, Two!Requests, Two!Components,
             Two!CreateSteps, Two!DeleteSteps, Two!AfterAccess,
             Two!BeforeID, Two!Uninstalling
  <1> QED BY <1>1, <1>2

\* What happens around the first worker happens around the second one, if its
\* process is told of it.
LEMMA SurroundingsOfSecond ==
    ASSUME TypeOK, SecondTypes, Surroundings, 2 \in active
    PROVE  Two!User \/ Two!Environment
  <1>1. SecondIsTold
    BY DEF Surroundings
  <1>2. ls \in Landscapers /\ ~NoLandscaper.exists
    BY DEF TypeOK, NoLandscaper
  <1>3. CASE User
    <2>1. Create => Two!Create
      BY <1>1, <1>2
         DEF Create, OtherWrite, UserOp, SecondIsTold, NoLandscaper, ConfigRefs,
             EmptyStatus, NoCondition, install, config, Two!Create,
             Two!OtherWrite, Two!UserOp, Two!NoLandscaper, Two!ConfigRefs,
             Two!EmptyStatus, Two!NoCondition, Two!install, Two!config
    <2>2. Edit => Two!Edit
      <3>1. Edit => ls' # ls
        BY <1>2 DEF Edit, OtherWrite, Landscapers
      <3> QED
        BY <1>1, <3>1
           DEF Edit, OtherWrite, UserOp, SecondIsTold, ConfigRefs, install,
               config, Two!Edit, Two!OtherWrite, Two!UserOp, Two!ConfigRefs,
               Two!install, Two!config
    <2>3. Annotate => Two!Annotate
      <3>1. Annotate => ls' # ls
        BY <1>2 DEF Annotate, OtherWrite, Landscapers
      <3> QED
        BY <1>1, <3>1
           DEF Annotate, OtherWrite, UserOp, SecondIsTold, install, config,
               Two!Annotate, Two!OtherWrite, Two!UserOp, Two!install, Two!config
    <2>4. RequestDeletion => Two!RequestDeletion
      <3>1. RequestDeletion => ls' # ls
        BY <1>2 DEF RequestDeletion, OtherWrite, Landscapers
      <3> QED
        BY <1>1, <3>1
           DEF RequestDeletion, OtherWrite, UserOp, SecondIsTold, NoLandscaper,
               EmptyStatus, NoCondition, install, config, Two!RequestDeletion,
               Two!OtherWrite, Two!UserOp, Two!NoLandscaper, Two!EmptyStatus,
               Two!NoCondition, Two!install, Two!config
    <2> QED BY <1>3, <2>1, <2>2, <2>3, <2>4 DEF User, Two!User
  <1>4. CASE ReleaseForeign
    <2>1. ls' # ls
      BY <1>2, <1>4 DEF ReleaseForeign, OtherWrite, Landscapers
    <2>2. Two!ReleaseForeign
      BY <1>1, <1>4, <2>1
         DEF ReleaseForeign, OtherWrite, SecondIsTold, NoLandscaper,
             EmptyStatus, NoCondition, install, config, bounds,
             Two!ReleaseForeign, Two!OtherWrite, Two!NoLandscaper,
             Two!EmptyStatus, Two!NoCondition, Two!install, Two!config,
             Two!bounds
    <2> QED BY <2>2 DEF Two!Environment
  <1>5. ASSUME NEW p \in ProviderConfigNames, mapProviderConfigToRequests(p)
        PROVE  Two!Environment
    <2>1. Two!mapProviderConfigToRequests(p)
      <3>1. CASE ls.exists /\ IsUserOf(ls, p) /\ ~ls.annotated
        <4>1. ls' # ls
          BY <1>2, <1>5, <3>1
             DEF mapProviderConfigToRequests, OtherWrite, Landscapers
        <4> QED
          BY <1>1, <1>5, <3>1, <4>1
             DEF mapProviderConfigToRequests, OtherWrite, IsUserOf,
                 SecondIsTold, install, bounds,
                 Two!mapProviderConfigToRequests, Two!OtherWrite,
                 Two!IsUserOf, Two!install, Two!bounds
      <3>2. CASE ~(ls.exists /\ IsUserOf(ls, p) /\ ~ls.annotated)
        <4>1. UNCHANGED <<ls, fresh2, queued2, pc2, obj2, oldStatus2, st2, cfg2, res2>>
          <5>1. UNCHANGED ls
            BY <1>5, <3>2 DEF mapProviderConfigToRequests
          <5> QED BY <1>1, <5>1 DEF SecondIsTold, SecondTypes
        <4> QED
          BY <1>5, <3>2, <4>1
             DEF mapProviderConfigToRequests, IsUserOf, install, bounds,
                 Two!mapProviderConfigToRequests, Two!IsUserOf, Two!install,
                 Two!bounds
      <3> QED BY <3>1, <3>2
    <2> QED BY <2>1 DEF Two!Environment
  <1>6. ASSUME UNCHANGED ls
        PROVE  UNCHANGED <<fresh2, queued2, pc2, obj2, oldStatus2, st2, cfg2, res2>>
    BY <1>1, <1>6 DEF SecondIsTold, SecondTypes
  <1>7. ASSUME NEW r \in Requests, GrantRequest(r) \/ RemoveRequest(r)
        PROVE  Two!Environment
    <2>1. Two!GrantRequest(r) \/ Two!RemoveRequest(r)
      BY <1>6, <1>7
         DEF GrantRequest, RemoveRequest, install, config, bounds,
             Two!GrantRequest, Two!RemoveRequest, Two!install, Two!config,
             Two!bounds, Two!local
    <2>2. r \in Two!Requests
      BY DEF Requests, Two!Requests
    <2> QED BY <2>1, <2>2 DEF Two!Environment
  <1>8. CASE ProvideGateway
    BY <1>6, <1>8
       DEF ProvideGateway, install, config, bounds, Two!Environment,
           Two!ProvideGateway, Two!install, Two!config, Two!bounds, Two!local
  <1>9. CASE AcceptRoute
    BY <1>6, <1>9
       DEF AcceptRoute, config, bounds, Two!Environment, Two!AcceptRoute,
           Two!config, Two!bounds, Two!local
  <1>10. CASE RollOut
    BY <1>6, <1>10
       DEF RollOut, Components, config, bounds, Two!Environment, Two!RollOut,
           Two!Components, Two!config, Two!bounds, Two!local
  <1> QED
    BY <1>3, <1>4, <1>5, <1>7, <1>8, <1>9, <1>10 DEF Surroundings

\* Neither starting nor stopping a process changes what is stored.
LEMMA SafetyLifetime ==
    ASSUME SafetyInv, Two!SafetyInv, Lifetime
    PROVE  SafetyInv' /\ Two!SafetyInv'
  <1>1. ASSUME UNCHANGED <<ls, requests, install, pc, obj, fresh>>
        PROVE  SafetyInv'
    BY <1>1
       DEF install, SafetyInv, ResourceInv, ProtectionInv, CopyInv, CreateInv,
           DeleteInv, SomeRequest, InDeletion, AccessGranted, Footprint,
           areAccessRequestsInDeletion
  <1>2. ASSUME UNCHANGED <<ls, requests, install, pc2, obj2, fresh2>>
        PROVE  Two!SafetyInv'
    BY <1>2
       DEF install, Two!SafetyInv, Two!ResourceInv, Two!ProtectionInv,
           Two!CopyInv, Two!CreateInv, Two!DeleteInv, Two!SomeRequest,
           Two!InDeletion, Two!AccessGranted, Two!Footprint,
           Two!areAccessRequestsInDeletion
  <1>3. CASE StartProcess \/ LeaseExpires
    BY <1>1, <1>2, <1>3 DEF StartProcess, LeaseExpires, vars, local, local2
  <1>4. ASSUME NEW i \in Processes, Lead(i) PROVE SafetyInv' /\ Two!SafetyInv'
    BY <1>1, <1>2, <1>4 DEF Lead, local, local2
  <1>5. /\ SafetyInv' /\ SecondRests' => Two!SafetyInv'
        /\ Two!SafetyInv' /\ FirstRests' => SafetyInv'
    BY RestingKnowsTheRest, PTL
  <1>6. ASSUME NEW i \in Processes, Stop(i) \/ Kill(i)
        PROVE  SafetyInv' /\ Two!SafetyInv'
    <2>1. Forget(i) /\ UNCHANGED <<ls, requests, install>>
      BY <1>6 DEF Stop, Kill
    <2>2. CASE i = 1
      <3>1. FirstRests' /\ UNCHANGED <<pc2, obj2, fresh2>>
        BY <2>1, <2>2 DEF Forget, Rest, local2, FirstRests
      <3> QED BY <1>2, <1>5, <2>1, <3>1
    <2>3. CASE i = 2
      <3>1. SecondRests' /\ UNCHANGED <<pc, obj, fresh>>
        BY <2>1, <2>3 DEF Forget, Second!Rest, local, SecondRests
      <3> QED BY <1>1, <1>5, <2>1, <3>1
    <2> QED BY <2>2, <2>3 DEF Processes
  <1> QED BY <1>3, <1>4, <1>6 DEF Lifetime

\* The workers take turns, so each finds what the other one guarantees.
LEMMA SafetyProcesses ==
    ASSUME ProcessesTypeOK, LeaseInv, FirstInv, SecondInv,
           SafetyInv, Two!SafetyInv, [ProcessesNext]_allVars
    PROVE  SafetyInv' /\ Two!SafetyInv'
  <1>1. /\ TypeOK /\ Two!TypeOK /\ SecondTypes
        /\ 1 \notin active => FirstRests
        /\ 2 \notin active => SecondRests
        /\ 1 \notin active \/ 2 \notin active
    BY TypeParts
       DEF LeaseInv, FirstInv, SecondInv, WorkerInv, Two!WorkerInv,
           FirstRests, SecondRests
  <1>2. /\ SafetyInv' /\ SecondRests' => Two!SafetyInv'
        /\ Two!SafetyInv' /\ FirstRests' => SafetyInv'
    BY RestingKnowsTheRest, PTL
  <1>3. CASE FirstWorks
    <2>1. SafetyInv'
      BY <1>1, <1>3, SafetyReconcile, SafetyRefused DEF FirstWorks
    <2>2. SecondRests'
      BY <1>1, <1>3 DEF FirstWorks, SecondIsTold, SecondRests
    <2> QED BY <1>2, <2>1, <2>2
  <1>4. CASE SecondWorks
    <2>1. Two!SafetyInv'
      <3>1. CASE Second!Reconcile
        <4> USE ConstantsAssumption DEF ConfigContents, Two!ConfigContents
        <4> QED BY <1>1, <3>1, SecondIsTwo, Two!SafetyReconcile
      <3>2. CASE SecondIsRefused
        BY <3>2, SafetyRefused
      <3> QED BY <1>4, <3>1, <3>2 DEF SecondWorks
    <2>2. FirstRests'
      BY <1>1, <1>4 DEF SecondWorks, FirstIsTold, FirstRests
    <2> QED BY <1>2, <2>1, <2>2
  <1>5. CASE Lifetime
    BY <1>5, SafetyLifetime
  <1>6. CASE Surroundings
    <2>1. SafetyInv'
      <3>1. User \/ Environment
        BY <1>6 DEF Surroundings, Environment
      <3> QED BY <1>1, <3>1, SafetyUser, SafetyEnvironment
    <2>2. CASE 2 \in active
      <3>1. Two!User \/ Two!Environment
        BY <1>1, <1>6, <2>2, SurroundingsOfSecond
      <3> USE ConstantsAssumption DEF ConfigContents, Two!ConfigContents
      <3> QED BY <1>1, <2>1, <3>1, Two!SafetyUser, Two!SafetyEnvironment
    <2>3. CASE 2 \notin active
      <3>1. SecondRests'
        BY <1>1, <1>6, <2>3 DEF Surroundings, SecondIsTold, SecondRests
      <3> QED BY <1>2, <2>1, <3>1
    <2> QED BY <2>2, <2>3
  <1>7. CASE UNCHANGED allVars
    <2>1. /\ UNCHANGED <<ls, requests, components, route>>
          /\ UNCHANGED <<pc, obj, fresh, pc2, obj2, fresh2>>
      BY <1>7 DEF allVars, vars, install, local, local2
    <2>2. SafetyInv'
      BY <2>1
         DEF SafetyInv, ResourceInv, ProtectionInv, CopyInv, CreateInv,
             DeleteInv, SomeRequest, InDeletion, AccessGranted, Footprint,
             areAccessRequestsInDeletion
    <2>3. Two!SafetyInv'
      BY <2>1
         DEF Two!SafetyInv, Two!ResourceInv, Two!ProtectionInv,
             Two!CopyInv, Two!CreateInv, Two!DeleteInv, Two!SomeRequest,
             Two!InDeletion, Two!AccessGranted, Two!Footprint,
             Two!areAccessRequestsInDeletion
    <2> QED BY <2>2, <2>3
  <1> QED BY <1>3, <1>4, <1>5, <1>6, <1>7 DEF ProcessesNext

\* What each worker knows, together with who may work.
HandoverInv ==
    /\ LeaseInv /\ FirstInv /\ SecondInv
    /\ SafetyInv /\ Two!SafetyInv

LEMMA HandoverCorrectness ==
    ASSUME LeaderElection PROVE ProcessesSpec => []HandoverInv
  <1>1. ProcessesInit => HandoverInv
    <2>1. ProcessesInit => LeaseInv
      BY DEF ProcessesInit, Init, LeaseInv
    <2>2. ProcessesInit => FirstInv /\ SecondInv
      BY EmptyRecords
         DEF ProcessesInit, Init, FirstInv, SecondInv, WorkerInv, FreshInv,
             DeleteSteps, Two!WorkerInv, Two!FreshInv, Two!DeleteSteps
    <2>3. ProcessesInit => SafetyInv
      BY SafetyInit DEF ProcessesInit
    <2>4. ProcessesInit /\ SafetyInv => Two!SafetyInv
      BY RestingKnowsTheRest DEF ProcessesInit, SecondRests
    <2> QED BY <2>1, <2>2, <2>3, <2>4 DEF HandoverInv
  <1>2. /\ ProcessesTypeOK /\ HandoverInv /\ [ProcessesNext]_allVars
        => HandoverInv'
    BY StepKeepsLease, KeysKept, SafetyProcesses DEF HandoverInv
  <1> QED BY <1>1, <1>2, ProcessesTypeCorrect, PTL DEF ProcessesSpec

(***************************************************************************)
(* What the controller relies on, across a handover: with leader election  *)
(* a worker that takes over from a process that was stopped or killed at   *)
(* any call finds every position of reconcile() with its facts, although   *)
(* it knows nothing of what its predecessor had done.                      *)
(***************************************************************************)
THEOREM HandoverIsSafe == LeaderElection => (ProcessesSpec => []SafetyInv)
  <1> SUFFICES ASSUME LeaderElection PROVE ProcessesSpec => []SafetyInv
    OBVIOUS
  <1>1. HandoverInv => SafetyInv
    BY DEF HandoverInv
  <1> QED BY <1>1, HandoverCorrectness, PTL

(***************************************************************************)
(* NoOrphans across handovers: without the finalizer there is no           *)
(* component, no route and no access request, whichever process worked.    *)
(***************************************************************************)
THEOREM NoOrphansAcrossHandovers ==
    LeaderElection => (ProcessesSpec => []NoOrphans)
  <1>1. SafetyInv => NoOrphans
    BY DEF NoOrphans, SafetyInv, ResourceInv, ProtectionInv, SomeRequest
  <1> QED BY <1>1, HandoverIsSafe, PTL

-----------------------------------------------------------------------------
(* The lifecycle.                                                          *)

\* Neither starting nor stopping a process changes what is stored.
LEMMA LifetimeLeavesTheStore ==
    ASSUME Lifetime
    PROVE  /\ UNCHANGED <<ls, requests, components, route>>
           /\ Rest \/ UNCHANGED local
           /\ Second!Rest \/ UNCHANGED local2
  BY DEF Lifetime, StartProcess, LeaseExpires, Lead, Stop, Kill, Forget, vars,
         install

\* Neither worker has a resource without a version in hand.
LEMMA VersionsKept ==
    ASSUME ProcessesTypeOK, LeaseInv, FirstInv, SecondInv,
           VersionInv, Two!VersionInv, [ProcessesNext]_allVars
    PROVE  VersionInv' /\ Two!VersionInv'
  <1>1. TypeOK /\ Two!TypeOK
    BY TypeParts
  <1>2. FreshInv /\ Two!FreshInv
    BY DEF FirstInv, SecondInv, WorkerInv, Two!WorkerInv
  <1>3. CASE FirstWorks
    <2>1. VersionInv'
      <3>1. CASE Reconcile
        BY <1>1, <1>2, <3>1, VersionKept
      <3>2. CASE FirstIsRefused
        BY <3>2
           DEF FirstIsRefused, UsesClusters, AfterAccess, Uninstalling,
               VersionInv
      <3> QED BY <1>3, <3>1, <3>2 DEF FirstWorks
    <2>2. UNCHANGED <<pc2, obj2>>
      BY <1>3 DEF FirstWorks, SecondIsTold
    <2> QED BY <2>1, <2>2 DEF VersionInv, Two!VersionInv
  <1>4. CASE SecondWorks
    <2>1. Two!VersionInv'
      <3>1. CASE Second!Reconcile
        <4>1. Two!Reconcile \/ Two!Others
          BY <3>1, SecondIsTwo
        <4> USE ConstantsAssumption DEF ConfigContents, Two!ConfigContents
        <4> QED BY <1>1, <1>2, <4>1, Two!VersionKept
      <3>2. CASE SecondIsRefused
        BY <3>2
           DEF SecondIsRefused, UsesClusters, AfterAccess, Uninstalling,
               Two!VersionInv
      <3> QED BY <1>4, <3>1, <3>2 DEF SecondWorks
    <2>2. UNCHANGED <<pc, obj>>
      BY <1>4 DEF SecondWorks, FirstIsTold
    <2> QED BY <2>1, <2>2 DEF VersionInv, Two!VersionInv
  <1>5. CASE Lifetime
    <2>1. /\ UNCHANGED ls
          /\ pc' = "idle" \/ UNCHANGED <<pc, obj>>
          /\ pc2' = "idle" \/ UNCHANGED <<pc2, obj2>>
      BY <1>5, LifetimeLeavesTheStore DEF Rest, Second!Rest, local, local2
    <2> QED BY <2>1 DEF VersionInv, Two!VersionInv
  <1>6. CASE Surroundings
    <2>1. Others
      BY <1>6 DEF Surroundings, Others, Environment
    <2>2. VersionInv'
      BY <1>1, <1>2, <2>1, VersionKept
    <2>3. UNCHANGED <<pc2, obj2>>
      BY <1>6 DEF Surroundings, SecondIsTold
    <2> QED BY <2>2, <2>3 DEF VersionInv, Two!VersionInv
  <1>7. CASE UNCHANGED allVars
    BY <1>7 DEF allVars, vars, local, local2, VersionInv, Two!VersionInv
  <1> QED BY <1>3, <1>4, <1>5, <1>6, <1>7 DEF ProcessesNext

\* The second worker implements the same lifecycle.
LEMMA SameLifecycle ==
    [Two!Lifecycle!Next]_(Two!Lifecycle!vars) =>
        [Lifecycle!Next]_(Lifecycle!vars)
  BY DEF Two!Footprint, Footprint, Two!Components, Components, Two!Requests,
         Requests, Two!Lifecycle!vars, Lifecycle!vars, Two!Lifecycle!Next,
         Lifecycle!Next, Two!Lifecycle!Create, Lifecycle!Create,
         Two!Lifecycle!RequestDeletion, Lifecycle!RequestDeletion,
         Two!Lifecycle!Protect, Lifecycle!Protect, Two!Lifecycle!Acquire,
         Lifecycle!Acquire, Two!Lifecycle!Grant, Lifecycle!Grant,
         Two!Lifecycle!Install, Lifecycle!Install, Two!Lifecycle!Uninstall,
         Lifecycle!Uninstall, Two!Lifecycle!Release, Lifecycle!Release,
         Two!Lifecycle!LetGo, Lifecycle!LetGo, Two!Lifecycle!Requests,
         Lifecycle!Requests

\* Whoever works, takes over or is stopped: each step is one of the lifecycle.
LEMMA ProcessesLife ==
    ASSUME ProcessesTypeOK, HandoverInv, VersionInv, Two!VersionInv,
           [ProcessesNext]_allVars
    PROVE  [Lifecycle!Next]_(Lifecycle!vars)
  <1>1. TypeOK /\ Two!TypeOK /\ SafetyInv /\ Two!SafetyInv
    BY TypeParts DEF HandoverInv
  <1>2. FreshInv /\ Two!FreshInv
    BY DEF HandoverInv, FirstInv, SecondInv, WorkerInv, Two!WorkerInv
  <1>3. UNCHANGED <<ls, requests, components, route>> => UNCHANGED Lifecycle!vars
    BY DEF Lifecycle!vars, Footprint
  <1>4. CASE FirstWorks
    <2>1. CASE Reconcile
      BY <1>1, <1>2, <2>1, ReconcileLife
    <2>2. CASE FirstIsRefused
      BY <1>3, <2>2 DEF FirstIsRefused, install
    <2> QED BY <1>4, <2>1, <2>2 DEF FirstWorks
  <1>5. CASE SecondWorks
    <2>1. CASE Second!Reconcile
      <3> USE ConstantsAssumption DEF ConfigContents, Two!ConfigContents
      <3> QED
        BY <1>1, <1>2, <2>1, SecondIsTwo, SameLifecycle, Two!ReconcileLife
    <2>2. CASE SecondIsRefused
      BY <1>3, <2>2 DEF SecondIsRefused, install
    <2> QED BY <1>5, <2>1, <2>2 DEF SecondWorks
  <1>6. CASE Lifetime
    BY <1>3, <1>6, LifetimeLeavesTheStore
  <1>7. CASE Surroundings
    <2>1. Others
      BY <1>7 DEF Surroundings, Others, Environment
    <2> QED BY <1>1, <2>1, OthersLife
  <1>8. CASE UNCHANGED allVars
    BY <1>3, <1>8 DEF allVars, vars, install
  <1> QED BY <1>4, <1>5, <1>6, <1>7, <1>8 DEF ProcessesNext

(***************************************************************************)
(* ImplementsLifecycle across handovers: with leader election the two      *)
(* processes together keep what one controller promises of a Landscaper,   *)
(* so nobody who looks at the resource, its requests and its instance can  *)
(* tell that one of them has taken over from the other.                    *)
(***************************************************************************)
THEOREM LifecycleAcrossHandovers ==
    LeaderElection => (ProcessesSpec => ImplementsLifecycle)
  <1> SUFFICES ASSUME LeaderElection PROVE ProcessesSpec => ImplementsLifecycle
    OBVIOUS
  <1>1. ProcessesInit => Lifecycle!Init /\ VersionInv /\ Two!VersionInv
    <2>1. ProcessesInit => Lifecycle!Init
      BY LifecycleInit DEF ProcessesInit
    <2>2. ProcessesInit => ~ls.exists /\ pc = "idle" /\ pc2 = "idle"
      BY DEF ProcessesInit, Init, NoLandscaper
    <2> QED BY <2>1, <2>2 DEF VersionInv, Two!VersionInv
  <1>2. /\ ProcessesTypeOK /\ HandoverInv /\ VersionInv /\ Two!VersionInv
        /\ [ProcessesNext]_allVars
        => VersionInv' /\ Two!VersionInv'
    BY VersionsKept DEF HandoverInv
  <1>3. /\ ProcessesTypeOK /\ HandoverInv /\ VersionInv /\ Two!VersionInv
        /\ [ProcessesNext]_allVars
        => [Lifecycle!Next]_(Lifecycle!vars)
    BY ProcessesLife
  <1> QED
    BY <1>1, <1>2, <1>3, ProcessesTypeCorrect, HandoverCorrectness, PTL
       DEF ProcessesSpec, ImplementsLifecycle, Lifecycle!Spec

-----------------------------------------------------------------------------
(* What the status says.                                                   *)

\* A worker at rest says nothing.
IdleInv ==
    /\ pc = "idle" => st.uninstalled.status # "True"
    /\ pc2 = "idle" => st2.uninstalled.status # "True"

\* Everything that the phase and the conditions rest on, for both workers.
BothTruthful ==
    /\ IdleInv
    /\ HeldInv /\ TruthInv
    /\ Two!HeldInv /\ Two!TruthInv

\* A refused call ends the reconciliation of either worker with a setback.
LEMMA RefusedGivesUp ==
    ASSUME ProcessesTypeOK
    PROVE  /\ FirstIsRefused => GivesUp
           /\ SecondIsRefused => Two!GivesUp
  <1>1. TypeOK /\ Two!TypeOK /\ st \in ReconcileStatuses /\ st2 \in ReconcileStatuses
    BY TypeParts DEF FirstTypes, SecondTypes
  <1>2. \A at : UsesClusters(at) => at \in CreateSteps \cup DeleteSteps
    BY DEF UsesClusters, AfterAccess, Uninstalling, CreateSteps, DeleteSteps
  <1>3. ASSUME FirstIsRefused PROVE GivesUp
    <2>1. Setback(st, st')
      BY <1>1, <1>3, SettersAreSetbacks, FailuresAreSetbacks
         DEF FirstIsRefused, Return
    <2> QED
      BY <1>2, <1>3, <2>1 DEF FirstIsRefused, Return, GivesUp, install
  <1>4. ASSUME SecondIsRefused PROVE Two!GivesUp
    <2>1. Two!ReconcileStatuses = ReconcileStatuses
      BY DEF Phases, ConditionReasons, NoCondition, Conditions,
             ReconcileStatuses, Two!Phases, Two!ConditionReasons,
             Two!NoCondition, Two!Conditions, Two!ReconcileStatuses
    <2>2. \A s, t : Two!Setback(s, t) <=> Setback(s, t)
      BY <2>1 DEF Setback, Two!Setback
    <2>3. Setback(st2, Second!FailureStatus)
      <3>1. Two!Setback(st2, Two!FailureStatus)
        <4> USE ConstantsAssumption DEF ConfigContents, Two!ConfigContents
        <4> QED BY <1>1, Two!FailuresAreSetbacks
      <3> QED BY <2>2, <3>1, SecondIsTwo
    <2>4. Setback(st2, st2')
      BY <1>1, <1>4, <2>3, SettersAreSetbacks
         DEF SecondIsRefused, Second!Return
    <2>5. pc2 \in Two!CreateSteps \cup Two!DeleteSteps
      BY <1>2, <1>4
         DEF SecondIsRefused, CreateSteps, DeleteSteps, Two!CreateSteps,
             Two!DeleteSteps
    <2> QED
      BY <1>4, <2>2, <2>4, <2>5
         DEF SecondIsRefused, Second!Return, Two!GivesUp, install
  <1> QED BY <1>3, <1>4

\* What a worker at rest knows of the truth is what the other one knows.
LEMMA RestingTellsTheTruth ==
    /\ IdleInv /\ HeldInv /\ TruthInv /\ SecondRests =>
           Two!HeldInv /\ Two!TruthInv
    /\ IdleInv /\ Two!HeldInv /\ Two!TruthInv /\ FirstRests =>
           HeldInv /\ TruthInv
  <1> USE DEF IdleInv, HeldInv, FreshInv, PhaseInv, VersionInv, TruthInv,
              GenerationInv, ReadStored, ProgressInv, ClaimInv, Complete,
              Claims, Installed, Footprint, Components, Target, CreateSteps,
              DeleteSteps, Two!HeldInv, Two!FreshInv, Two!PhaseInv,
              Two!VersionInv, Two!TruthInv, Two!GenerationInv,
              Two!ReadStored, Two!ProgressInv, Two!ClaimInv, Two!Complete,
              Two!Claims, Two!Installed, Two!Footprint, Two!Components,
              Two!Target, Two!CreateSteps, Two!DeleteSteps
  <1>1. IdleInv /\ HeldInv /\ TruthInv /\ SecondRests =>
            Two!HeldInv /\ Two!TruthInv
    BY DEF SecondRests
  <1>2. IdleInv /\ Two!HeldInv /\ Two!TruthInv /\ FirstRests =>
            HeldInv /\ TruthInv
    BY DEF FirstRests
  <1> QED BY <1>1, <1>2

LEMMA IdleKept ==
    ASSUME ProcessesTypeOK, IdleInv, [ProcessesNext]_allVars
    PROVE  IdleInv'
  <1>1. TypeOK /\ Two!TypeOK
    BY TypeParts
  <1>2. newCreateOrUpdateStatus(0).uninstalled.status # "True"
    BY DEF newCreateOrUpdateStatus, NoCondition
  <1>3. /\ Rest => st'.uninstalled.status # "True"
        /\ Second!Rest => st2'.uninstalled.status # "True"
    BY <1>2
       DEF Rest, Second!Rest, Second!newCreateOrUpdateStatus,
           newCreateOrUpdateStatus, Second!NoCondition, NoCondition
  <1>4. ASSUME Reconcile
        PROVE  pc' = "idle" => Rest \/ UNCHANGED local
    <2>1. CASE Get
      BY <1>1, <2>1, GetMoves
    <2>2. CASE CreateOrUpdate \/ Delete
      BY <1>1, <2>2, HandlerMoves DEF Handler, CreateSteps, DeleteSteps
    <2>3. CASE Finish
      BY <2>3 DEF Finish
    <2> QED BY <1>4, <2>1, <2>2, <2>3 DEF Reconcile
  <1>5. ASSUME Second!Reconcile
        PROVE  pc2' = "idle" => Two!Rest \/ UNCHANGED local2
    <2> USE ConstantsAssumption DEF ConfigContents, Two!ConfigContents
    <2>1. CASE Two!Get
      BY <1>1, <2>1, Two!GetMoves DEF Two!local, local2
    <2>2. CASE Two!CreateOrUpdate \/ Two!Delete
      <3>1. Two!Handler
        BY <2>2 DEF Two!Handler
      <3>2. \/ pc2' \in Two!CreateSteps \cup {"finish"}
            \/ pc2' \in Two!DeleteSteps \cup {"finish"}
        BY <1>1, <3>1, Two!HandlerMoves
      <3> QED BY <3>2 DEF Two!CreateSteps, Two!DeleteSteps
    <2>3. CASE Two!Finish
      BY <2>3 DEF Two!Finish
    <2> QED BY <1>5, <2>1, <2>2, <2>3, SecondIsTwo DEF Two!Reconcile
  <1>6. Two!Rest => Second!Rest
    BY DEF Two!Rest, Second!Rest, Two!NoLandscaper, Second!NoLandscaper,
           Two!EmptyStatus, Second!EmptyStatus, Two!NoCondition,
           Second!NoCondition, Two!Condition, Second!Condition,
           Two!NoConfig, Second!NoConfig,
           Two!newCreateOrUpdateStatus, Second!newCreateOrUpdateStatus
  <1>7. FirstIsTold => UNCHANGED <<pc, st>>
    BY DEF FirstIsTold
  <1>8. SecondIsTold => UNCHANGED <<pc2, st2>>
    BY DEF SecondIsTold
  <1>9. CASE FirstWorks
    <2>1. FirstIsRefused => pc' = "finish"
      BY DEF FirstIsRefused, Return
    <2> QED
      BY <1>3, <1>4, <1>8, <1>9, <2>1 DEF FirstWorks, IdleInv, local
  <1>10. CASE SecondWorks
    <2>1. SecondIsRefused => pc2' = "finish"
      BY DEF SecondIsRefused, Second!Return
    <2> QED
      BY <1>3, <1>5, <1>6, <1>7, <1>10, <2>1 DEF SecondWorks, IdleInv, local2
  <1>11. CASE Lifetime
    BY <1>3, <1>11, LifetimeLeavesTheStore DEF IdleInv, local, local2
  <1>12. CASE Surroundings
    <2>1. UNCHANGED <<pc, st>>
      <3>1. Others
        BY <1>12 DEF Surroundings, Others, Environment
      <3> QED BY <1>1, <3>1, OthersWrite
    <2> QED BY <1>8, <1>12, <2>1 DEF Surroundings, IdleInv
  <1>13. CASE UNCHANGED allVars
    BY <1>13 DEF allVars, vars, local, local2, IdleInv
  <1> QED BY <1>9, <1>10, <1>11, <1>12, <1>13 DEF ProcessesNext

\* What the second worker does, and what happens around it, are steps of it.
LEMMA StepsOfSecond ==
    ASSUME ProcessesTypeOK
    PROVE  /\ Second!Reconcile => [Two!Next]_(Two!vars)
           /\ Surroundings /\ 2 \in active => [Two!Next]_(Two!vars)
  <1>1. Second!Reconcile => Two!Next
    BY SecondIsTwo DEF Two!Next
  <1>2. Surroundings /\ 2 \in active => Two!Next
    BY TypeParts, SurroundingsOfSecond DEF Two!Next
  <1> QED BY <1>1, <1>2

LEMMA TruthLifetime ==
    ASSUME HeldInv, TruthInv, Two!HeldInv, Two!TruthInv, Lifetime, IdleInv'
    PROVE  HeldInv' /\ TruthInv' /\ Two!HeldInv' /\ Two!TruthInv'
  <1>1. /\ UNCHANGED <<ls, requests, components, route>>
        /\ Rest \/ UNCHANGED local
        /\ Second!Rest \/ UNCHANGED local2
    BY LifetimeLeavesTheStore
  <1>2. UNCHANGED local => HeldInv' /\ TruthInv'
    BY <1>1
       DEF local, HeldInv, FreshInv, PhaseInv, VersionInv, SameContent,
           SameStatus, TruthInv, GenerationInv, ReadStored, ProgressInv,
           ClaimInv, Complete, Footprint
  <1>3. UNCHANGED local2 => Two!HeldInv' /\ Two!TruthInv'
    BY <1>1
       DEF local2, Two!HeldInv, Two!FreshInv, Two!PhaseInv, Two!VersionInv,
           Two!SameContent, Two!SameStatus, Two!TruthInv, Two!GenerationInv,
           Two!ReadStored, Two!ProgressInv, Two!ClaimInv, Two!Complete,
           Two!Footprint
  <1>4. /\ IdleInv' /\ HeldInv' /\ TruthInv' /\ SecondRests' =>
                Two!HeldInv' /\ Two!TruthInv'
        /\ IdleInv' /\ Two!HeldInv' /\ Two!TruthInv' /\ FirstRests' =>
                HeldInv' /\ TruthInv'
    BY RestingTellsTheTruth, PTL
  <1>5. Rest => FirstRests'
    BY DEF Rest, FirstRests
  <1>6. Second!Rest => SecondRests'
    BY DEF Second!Rest, SecondRests
  <1>7. UNCHANGED local \/ UNCHANGED local2
    BY DEF Lifetime, StartProcess, LeaseExpires, Lead, Stop, Kill, Forget, vars
  <1> QED BY <1>1, <1>2, <1>3, <1>4, <1>5, <1>6, <1>7

\* The workers take turns in saying what is true, too.
LEMMA TruthProcesses ==
    ASSUME ProcessesTypeOK, HandoverInv, BothTruthful, [ProcessesNext]_allVars,
           ProcessesTypeOK', HandoverInv'
    PROVE  BothTruthful'
  <1>1. /\ TypeOK /\ Two!TypeOK /\ SafetyInv /\ Two!SafetyInv
        /\ LeaseInv /\ FirstInv /\ SecondInv
        /\ 1 \notin active => FirstRests
        /\ 2 \notin active => SecondRests
        /\ 1 \notin active \/ 2 \notin active
        /\ IdleInv /\ HeldInv /\ TruthInv /\ Two!HeldInv /\ Two!TruthInv
    BY TypeParts
       DEF HandoverInv, BothTruthful, LeaseInv, FirstInv, SecondInv, WorkerInv,
           Two!WorkerInv, FirstRests, SecondRests
  <1>2. /\ TypeOK' /\ Two!TypeOK' /\ SafetyInv' /\ Two!SafetyInv'
        /\ FirstInv' /\ SecondInv'
    <2>1. ProcessesTypeOK' => TypeOK' /\ Two!TypeOK'
      BY SecondIsTwo, PTL DEF ProcessesTypeOK
    <2>2. /\ HandoverInv' => SafetyInv' /\ Two!SafetyInv' /\ FirstInv' /\ SecondInv'
      BY DEF HandoverInv
    <2> QED BY <2>1, <2>2
  <1>3. IdleInv'
    BY <1>1, IdleKept
  <1>4. /\ IdleInv' /\ HeldInv' /\ TruthInv' /\ SecondRests' =>
                Two!HeldInv' /\ Two!TruthInv'
        /\ IdleInv' /\ Two!HeldInv' /\ Two!TruthInv' /\ FirstRests' =>
                HeldInv' /\ TruthInv'
    BY RestingTellsTheTruth, PTL
  <1>5. [Next]_vars => HeldInv' /\ TruthInv'
    BY <1>1, <1>2, HeldInvKept, TruthKept
  <1>6. [Two!Next]_(Two!vars) => Two!HeldInv' /\ Two!TruthInv'
    <2> USE ConstantsAssumption DEF ConfigContents, Two!ConfigContents
    <2>1. [Two!Next]_(Two!vars) => Two!HeldInv'
      BY <1>1, Two!HeldInvKept
    <2> QED BY <1>1, <1>2, <2>1, Two!TruthKept
  <1>7. CASE FirstWorks
    <2>1. HeldInv' /\ TruthInv'
      <3>1. CASE Reconcile
        BY <1>5, <3>1 DEF Next
      <3>2. CASE FirstIsRefused
        BY <1>1, <3>2, RefusedGivesUp, TruthGivenUp
      <3> QED BY <1>7, <3>1, <3>2 DEF FirstWorks
    <2>2. SecondRests'
      BY <1>1, <1>7 DEF FirstWorks, SecondIsTold, SecondRests
    <2> QED BY <1>3, <1>4, <2>1, <2>2 DEF BothTruthful
  <1>8. CASE SecondWorks
    <2>1. Two!HeldInv' /\ Two!TruthInv'
      <3>1. CASE Second!Reconcile
        BY <1>1, <1>6, <3>1, StepsOfSecond
      <3>2. CASE SecondIsRefused
        <4>1. Two!GivesUp
          BY <3>2, RefusedGivesUp
        <4> USE ConstantsAssumption DEF ConfigContents, Two!ConfigContents
        <4> QED BY <1>1, <4>1, Two!TruthGivenUp
      <3> QED BY <1>8, <3>1, <3>2 DEF SecondWorks
    <2>2. FirstRests'
      BY <1>1, <1>8 DEF SecondWorks, FirstIsTold, FirstRests
    <2> QED BY <1>3, <1>4, <2>1, <2>2 DEF BothTruthful
  <1>9. CASE Lifetime
    BY <1>1, <1>3, <1>9, TruthLifetime DEF BothTruthful
  <1>10. CASE Surroundings
    <2>1. HeldInv' /\ TruthInv'
      BY <1>5, <1>10 DEF Surroundings, Next, Environment
    <2>2. CASE 2 \in active
      <3>1. Two!HeldInv' /\ Two!TruthInv'
        BY <1>1, <1>6, <1>10, <2>2, StepsOfSecond
      <3> QED BY <1>3, <2>1, <3>1 DEF BothTruthful
    <2>3. CASE 2 \notin active
      <3>1. SecondRests'
        BY <1>1, <1>10, <2>3 DEF Surroundings, SecondIsTold, SecondRests
      <3> QED BY <1>3, <1>4, <2>1, <3>1 DEF BothTruthful
    <2> QED BY <2>2, <2>3
  <1>11. CASE UNCHANGED allVars
    <2>1. UNCHANGED vars /\ UNCHANGED Two!vars
      BY <1>11
         DEF allVars, vars, local, local2, install, config, bounds, Two!vars,
             Two!local, Two!install, Two!config, Two!bounds
    <2> QED BY <1>3, <1>5, <1>6, <2>1 DEF BothTruthful
  <1> QED BY <1>7, <1>8, <1>9, <1>10, <1>11 DEF ProcessesNext

LEMMA TruthfulInit == ProcessesInit => BothTruthful
  <1> SUFFICES ASSUME ProcessesInit PROVE BothTruthful
    OBVIOUS
  <1>1. HeldInv /\ TruthInv
    BY StepInit, TruthInit DEF ProcessesInit, StepInv
  <1>2. IdleInv /\ SecondRests
    BY DEF ProcessesInit, Init, newCreateOrUpdateStatus, NoCondition, IdleInv,
           SecondRests
  <1> QED BY <1>1, <1>2, RestingTellsTheTruth DEF BothTruthful

LEMMA TruthfulCorrect ==
    ASSUME LeaderElection PROVE ProcessesSpec => []BothTruthful
  <1>1. /\ ProcessesTypeOK /\ HandoverInv /\ BothTruthful
        /\ [ProcessesNext]_allVars /\ ProcessesTypeOK' /\ HandoverInv'
        => BothTruthful'
    BY TruthProcesses
  <1> QED
    BY <1>1, TruthfulInit, ProcessesTypeCorrect, HandoverCorrectness, PTL
       DEF ProcessesSpec

(***************************************************************************)
(* StatusIsTruthful across handovers: with leader election a status that   *)
(* speaks of the current generation and says installed, ready or           *)
(* uninstalled is true, although the process that wrote it may be gone and *)
(* another one has taken up the resource in the middle of its work.        *)
(***************************************************************************)
THEOREM TruthAcrossHandovers ==
    LeaderElection => (ProcessesSpec => []StatusIsTruthful)
  <1> SUFFICES ASSUME LeaderElection PROVE ProcessesSpec => []StatusIsTruthful
    OBVIOUS
  <1>1. BothTruthful => StatusIsTruthful
    BY TruthMeans DEF BothTruthful
  <1> QED BY <1>1, TruthfulCorrect, PTL

\* Whichever worker it is, it does not take Terminating back.
LEMMA TerminatingProcesses ==
    ASSUME ProcessesTypeOK, HandoverInv, BothTruthful, [ProcessesNext]_allVars,
           ls.status.phase = "Terminating", ls'.exists
    PROVE  ls'.status.phase = "Terminating"
  <1>1. /\ TypeOK /\ Two!TypeOK /\ SafetyInv /\ Two!SafetyInv /\ LeaseInv
        /\ HeldInv /\ Two!HeldInv
    BY TypeParts DEF HandoverInv, BothTruthful
  <1>2. CASE UNCHANGED ls
    BY <1>2
  <1>3. CASE FirstWorks \/ Surroundings
    <2>1. UNCHANGED ls \/ [Next]_vars
      BY <1>3
         DEF FirstWorks, FirstIsRefused, Surroundings, Next, Environment
    <2> QED BY <1>1, <2>1, TerminatingStep
  <1>4. CASE SecondWorks
    <2>1. CASE Second!Reconcile
      <3>1. [Two!Next]_(Two!vars)
        BY <1>1, <2>1, StepsOfSecond
      <3> USE ConstantsAssumption DEF ConfigContents, Two!ConfigContents
      <3> QED BY <1>1, <3>1, Two!TerminatingStep
    <2>2. CASE SecondIsRefused
      BY <2>2 DEF SecondIsRefused
    <2> QED BY <1>4, <2>1, <2>2 DEF SecondWorks
  <1>5. CASE Lifetime
    BY <1>5, LifetimeLeavesTheStore
  <1>6. CASE UNCHANGED allVars
    BY <1>6 DEF allVars, vars
  <1> QED BY <1>2, <1>3, <1>4, <1>5, <1>6 DEF ProcessesNext

(***************************************************************************)
(* TerminatingIsFinal across handovers: with leader election a process     *)
(* that takes over never replaces the phase Terminating that its           *)
(* predecessor has written, nor does the predecessor come back to do so.   *)
(***************************************************************************)
THEOREM TerminatingAcrossHandovers ==
    LeaderElection => (ProcessesSpec => TerminatingIsFinal)
  <1> SUFFICES ASSUME LeaderElection PROVE ProcessesSpec => TerminatingIsFinal
    OBVIOUS
  <1> DEFINE Step == (ls.status.phase = "Terminating" /\ ls'.exists) =>
                         ls'.status.phase = "Terminating"
  <1>1. /\ ProcessesTypeOK /\ HandoverInv /\ BothTruthful
        /\ [ProcessesNext]_allVars
        => [Step]_vars
    BY TerminatingProcesses
  <1>2. [][Step]_vars <=> TerminatingIsFinal
    BY DEF TerminatingIsFinal
  <1> HIDE DEF Step
  <1> QED
    BY <1>1, <1>2, ProcessesTypeCorrect, HandoverCorrectness, TruthfulCorrect,
       PTL DEF ProcessesSpec
=============================================================================
