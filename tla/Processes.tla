------------------------------ MODULE Processes ------------------------------
(***************************************************************************)
(* Two processes of the provider (cmd/service-provider-landscaper/app/     *)
(* run.go, NewRunCommand and Run): while the deployment of the provider is *)
(* being updated, or after a node was lost, a second process is started    *)
(* before the first one is gone.  With leader election a process starts    *)
(* its controller when it holds the lease; without it, which is the        *)
(* default of the flag leader-elect, at once.                              *)
(*                                                                         *)
(* Each process has a worker of its own, a copy of LandscaperReconciler:   *)
(* the variables of that module are the first process, those with a 2 are  *)
(* the second.  Both see the same resource, requests and clusters, and     *)
(* each gets the events of the other one's writes.                         *)
(***************************************************************************)
EXTENDS LandscaperReconciler

CONSTANTS
    LeaderElection,  \* the value of the flag leader-elect
    MaxStops         \* bound on stopped processes

ASSUME ProcessesAssumption == LeaderElection \in BOOLEAN /\ MaxStops \in Nat

VARIABLES
    pc2, obj2, oldStatus2, st2, cfg2, fresh2, res2, queued2,  \* the second worker
    running,  \* processes that run
    active,   \* ... whose controllers have been started
    lease,    \* the holder of the lease, or Nobody
    stops     \* what is left of the bound

Second == INSTANCE LandscaperReconciler WITH
    pc <- pc2, obj <- obj2, oldStatus <- oldStatus2, st <- st2, cfg <- cfg2,
    fresh <- fresh2, res <- res2, queued <- queued2

local2  == <<pc2, obj2, oldStatus2, st2, cfg2, fresh2, res2>>
process == <<running, active, lease, stops>>

allVars == <<vars, local2, queued2, process>>

Processes == {1, 2}

Nobody == 0

ProcessesTypeOK ==
    /\ TypeOK /\ Second!TypeOK
    /\ running \in SUBSET Processes
    /\ active \in SUBSET running
    /\ lease \in Processes \cup {Nobody}
    /\ stops \in Nat

-----------------------------------------------------------------------------
(***************************************************************************)
(* What a write to the resource by somebody else does to a worker: its     *)
(* copy is an old one, and if its process watches the resource, the key is *)
(* in its queue.                                                           *)
(***************************************************************************)
FirstIsTold ==
    /\ fresh' = (fresh /\ ls' = ls)
    /\ queued' = IF ls' # ls /\ 1 \in active THEN "now" ELSE queued
    /\ UNCHANGED <<pc, obj, oldStatus, st, cfg, res>>

SecondIsTold ==
    /\ fresh2' = (fresh2 /\ ls' = ls)
    /\ queued2' = IF ls' # ls /\ 2 \in active THEN "now" ELSE queued2
    /\ UNCHANGED <<pc2, obj2, oldStatus2, st2, cfg2, res2>>

(***************************************************************************)
(* The worker's clients for the clusters come from the access requests: an *)
(* access that the other process has given back is revoked, at the latest  *)
(* when the request is gone, and the calls fail.                           *)
(***************************************************************************)
UsesClusters(at) ==
    at \in (AfterAccess \cup Uninstalling) \ {"createConfig", "createConfigD"}

MayCall(at) ==
    UsesClusters(at) => \A r \in Requests : requests[r] \in {"granted", "deleting"}

Installing ==
    {"installRBAC", "installManifest", "installHelm", "installLandscaper"}

FirstIsRefused ==
    /\ UsesClusters(pc) /\ ~AccessGranted
    /\ IF pc = "checkReadiness" THEN Return(setWaitForReadinessCheck(st), "requeue")
       ELSE Return(IF pc \in Installing THEN setInstallFailed(st)
                   ELSE IF pc \in Uninstalling \ {"deleteTLSRoute", "deleteCA"}
                   THEN setUninstallFailed(st)
                   ELSE FailureStatus, "error")
    /\ UNCHANGED <<ls, queued, obj, fresh, requests, install, gateway, config,
                   bounds>>

SecondIsRefused ==
    /\ UsesClusters(pc2) /\ ~AccessGranted
    /\ IF pc2 = "checkReadiness"
       THEN Second!Return(setWaitForReadinessCheck(st2), "requeue")
       ELSE Second!Return(IF pc2 \in Installing THEN setInstallFailed(st2)
                   ELSE IF pc2 \in Uninstalling \ {"deleteTLSRoute", "deleteCA"}
                   THEN setUninstallFailed(st2)
                   ELSE Second!FailureStatus, "error")
    /\ UNCHANGED <<ls, queued2, obj2, fresh2, requests, install, gateway,
                   config, bounds>>

FirstWorks ==
    /\ 1 \in active
    /\ (MayCall(pc) /\ Reconcile) \/ FirstIsRefused
    /\ SecondIsTold
    /\ UNCHANGED process

SecondWorks ==
    /\ 2 \in active
    /\ (MayCall(pc2) /\ Second!Reconcile) \/ SecondIsRefused
    /\ FirstIsTold
    /\ UNCHANGED process

-----------------------------------------------------------------------------
(* Starting and stopping.                                                  *)

StartProcess ==
    /\ \E i \in Processes \ running : running' = running \cup {i}
    /\ UNCHANGED <<vars, local2, queued2, active, lease, stops>>

\* Mutant: the flag is not passed on to the manager.
MayLead_NoElection == TRUE

MayLead == LeaderElection => lease = Nobody

\* Mutant: the successor waits for events instead of listing the resources.
Listed_Nothing == "no"

Listed == IF ls.exists THEN "now" ELSE "no"

\* The sources of the controller are listed, which fills queue and events.
Lead(i) ==
    /\ i \in running \ active
    /\ MayLead
    /\ active' = active \cup {i}
    /\ lease' = IF LeaderElection THEN i ELSE lease
    /\ IF i = 1 THEN queued' = Listed /\ UNCHANGED queued2
                ELSE queued2' = Listed /\ UNCHANGED queued
    /\ configEvents' = {p \in ProviderConfigNames : providerConfigs[p].exists}
    /\ UNCHANGED <<ls, requests, install, gateway, providerConfigs, local,
                   local2, bounds, running, stops>>

\* Mutant: the worker goes on after the manager has given back the lease.
StillActive_Worker(i) == active

StillActive(i) == active \ {i}

Forget(i) ==
    IF i = 1 THEN Rest /\ queued' = "no" /\ UNCHANGED <<local2, queued2>>
             ELSE Second!Rest /\ queued2' = "no" /\ UNCHANGED <<local, queued>>

(***************************************************************************)
(* A process that is told to stop cancels what its worker is doing, gives  *)
(* the lease back (LeaderElectionReleaseOnCancel) and ends; one that is    *)
(* killed leaves the lease to expire.                                      *)
(***************************************************************************)
Stop(i) ==
    /\ stops > 0 /\ stops' = stops - 1
    /\ i \in running
    /\ Forget(i)
    /\ running' = running \ {i}
    /\ active' = StillActive(i)
    /\ lease' = IF lease = i THEN Nobody ELSE lease
    /\ UNCHANGED <<ls, requests, install, gateway, config, bounds>>

Kill(i) ==
    /\ stops > 0 /\ stops' = stops - 1
    /\ i \in running
    /\ Forget(i)
    /\ running' = running \ {i}
    /\ active' = active \ {i}
    /\ UNCHANGED <<ls, requests, install, gateway, config, bounds, lease>>

\* Mutant: a process that comes back keeps the lease of its predecessor alive.
Abandoned_ByNobody == lease \notin running \cup {Nobody}

\* A leader renews its lease, or ends before the lease does.
Abandoned == lease \notin active \cup {Nobody}

LeaseExpires ==
    /\ Abandoned
    /\ lease' = Nobody
    /\ UNCHANGED <<vars, local2, queued2, running, active, stops>>

Lifetime ==
    \/ StartProcess
    \/ LeaseExpires
    \/ \E i \in Processes : Lead(i) \/ Stop(i) \/ Kill(i)

-----------------------------------------------------------------------------

\* The watch on provider configs is one of the sources of a controller.
Surroundings ==
    /\ \/ User \/ ReleaseForeign
       \/ \E p \in ProviderConfigNames : active # {} /\ mapProviderConfigToRequests(p)
       \/ \E r \in Requests : GrantRequest(r) \/ RemoveRequest(r)
       \/ ProvideGateway \/ AcceptRoute \/ RollOut
    /\ SecondIsTold
    /\ UNCHANGED process

ProcessesInit ==
    /\ Init
    /\ pc2 = "idle" /\ obj2 = NoLandscaper /\ oldStatus2 = EmptyStatus
    /\ st2 = newCreateOrUpdateStatus(0) /\ cfg2 = NoConfig /\ fresh2 = FALSE
    /\ res2 = "done" /\ queued2 = "no"
    /\ running = {} /\ active = {} /\ lease = Nobody /\ stops = MaxStops

ProcessesNext == FirstWorks \/ SecondWorks \/ Lifetime \/ Surroundings

ProcessesSpec == ProcessesInit /\ [][ProcessesNext]_allVars

\* Processes are started, and lead when they may; the rest as in Fairness.
ProcessesFairness ==
    /\ WF_allVars(FirstWorks) /\ WF_allVars(SecondWorks)
    /\ WF_allVars(StartProcess) /\ WF_allVars(LeaseExpires)
    /\ WF_allVars(Lead(1) \/ Lead(2))
    /\ WF_allVars(Surroundings /\ UNCHANGED userOps)

FairProcessesSpec == ProcessesSpec /\ ProcessesFairness

-----------------------------------------------------------------------------

(***************************************************************************)
(* With leader election one process at a time works ("Enabling this will   *)
(* ensure there is only one active controller manager", run.go): a process *)
(* finds the worker of the other one at rest, however either of them came  *)
(* to its end.                                                             *)
(***************************************************************************)
OneAtWork == pc = "idle" \/ pc2 = "idle"

(***************************************************************************)
(* A handover loses no wakeup: a resource that still needs a controller is *)
(* in the queue or in the hands of every active process, whatever its      *)
(* predecessor left unfinished.                                            *)
(***************************************************************************)
HandoverKeepsTheKey ==
    (ls.exists /\ (ls.finalizer \/ ~ls.deleting)) =>
        /\ 1 \in active => queued # "no" \/ pc # "idle"
        /\ 2 \in active => queued2 # "no" \/ pc2 # "idle"

(***************************************************************************)
(* Deletion completes across handovers: a resource that is being deleted   *)
(* disappears, whichever process started on it.                            *)
(***************************************************************************)
SomebodyCompletesDeletion == (ls.exists /\ ls.deleting) ~> ~ls.exists
=============================================================================
