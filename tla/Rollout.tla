------------------------------- MODULE Rollout -------------------------------
(***************************************************************************)
(* How credentials and configuration reach the pods of an instance.  Each  *)
(* reconciliation takes the present tokens from the access requests,       *)
(* writes them into secrets on the workload cluster, and gives each        *)
(* deployment the checksums of what its pods mount (templateAnnotations in *)
(* internal/installer), so that a change replaces the pods.  A pod reads   *)
(* what it mounts once, when it starts, which may be long after it was     *)
(* created; the deployment controller reports late.                        *)
(*                                                                         *)
(* The contents of an input are numbered: those of a kubeconfig by its     *)
(* token, those of a config by the release of the provider that wrote it;  *)
(* 0 is "none".  The CA bundle has no checksum and is left out.            *)
(***************************************************************************)
EXTENDS Integers, FiniteSets, InstanceObjects

CONSTANTS
    Observed,     \* the deployments that are looked at
    MaxRotations, \* bound on the rotations of the tokens
    MaxReleases,  \* bound on the releases of the provider
    MaxFaults     \* bound on failing calls, restarts and lost pods

ASSUME RolloutAssumption ==
    /\ Observed \subseteq Parts
    /\ MaxRotations \in Nat /\ MaxReleases \in Nat /\ MaxFaults \in Nat

VARIABLES
    tokens,     \* the present token of each cluster's access request
    release,    \* the release of the provider that runs
    queue,      \* the key: "now", due after a "timer", or "no"
    at,         \* the number of the worker's next call, 0 when it rests
    fetched,    \* ... the tokens it works with
    allReady,   \* ... whether the deployments checked so far were ready
    ready,      \* the status of the Landscaper says Ready
    stored,     \* the secrets on the workload cluster
    templates,  \* the pod template of each deployment: its checksums
    reported,   \* what the deployment controller has reported of it
    pods,       \* the pods of each deployment
    faults

worker   == <<queue, at, fetched, allReady, ready>>
workload == <<stored, templates>>
cluster  == <<reported, pods>>
vars     == <<tokens, release, worker, workload, cluster, faults>>

Clusters == {"mcp", "workload"}

InputObjects == UNION {Inputs[p] : p \in Observed}

-----------------------------------------------------------------------------
(* One reconciliation: the tokens, the calls of the installation, of which *)
(* only those for what is observed matter here, and the readiness checks.  *)

Calls == InstallLandscaperInstance([secrets |-> [p \in Parts |-> <<>>]])

\* instance.CheckReadiness aggregates those of the three installers.
Checked == <<"manifest", "helm", "central", "main", "webhooks">>

LastCall == Len(Calls) + Len(Checked)

Matters(i) ==
    \/ /\ i \in DOMAIN Calls
       /\ Calls[i].object \in InputObjects \cup {Deployment(p) : p \in Observed}
    \/ i - Len(Calls) \in DOMAIN Checked /\ Checked[i - Len(Calls)] \in Observed
    \/ i = LastCall + 1

\* The position after i is the next one that matters.
Following ==
    [i \in 0 .. LastCall |->
        {j \in i + 1 .. LastCall + 1 :
            Matters(j) /\ \A k \in i + 1 .. j - 1 : ~Matters(k)}]

Proceed == at' \in Following[at]

Configs == {Config(name) : name \in {"manifest", "helm", "landscaper"}}

\* Mutant: the kubeconfigs of the two clusters are mixed up.
Written_MixedUp(o) ==
    IF o \in Configs THEN release
    ELSE IF o = Kubeconfig("controller workload") THEN fetched["mcp"]
    ELSE fetched["workload"]

\* What this run of the worker writes into an input, and what would be newest.
Written(o) ==
    IF o \in Configs THEN release
    ELSE IF o = Kubeconfig("controller workload") THEN fetched["workload"]
    ELSE fetched["mcp"]

Newest(o) ==
    IF o \in Configs THEN release
    ELSE IF o = Kubeconfig("controller workload") THEN tokens["workload"]
    ELSE tokens["mcp"]

(***************************************************************************)
(* templateAnnotations of each deployment: what it has a checksum of.      *)
(***************************************************************************)
ManifestAnnotations == {Config("manifest"), Kubeconfig("manifest")}

HelmAnnotations == {Config("helm"), Kubeconfig("helm")}

CentralAnnotations ==
    {Config("landscaper"), Kubeconfig("controller mcp"),
     Kubeconfig("controller workload")}

\* Mutant: the checksum of one of the kubeconfigs is forgotten.
MainAnnotations_NoWorkload == {Config("landscaper"), Kubeconfig("controller mcp")}

MainAnnotations ==
    {Config("landscaper"), Kubeconfig("controller mcp"),
     Kubeconfig("controller workload")}

WebhooksAnnotations == {Kubeconfig("controller mcp")}

Annotated ==
    [manifest |-> ManifestAnnotations, helm |-> HelmAnnotations,
     central |-> CentralAnnotations, main |-> MainAnnotations,
     webhooks |-> WebhooksAnnotations]

NoContent(p) == [o \in Inputs[p] |-> 0]

NoTemplate(p) == [o \in Annotated[p] |-> 0]

Begin ==
    /\ at = 0 /\ queue # "no"
    /\ queue' = "no"
    /\ Proceed
    /\ fetched' = tokens
    /\ allReady' = TRUE
    /\ UNCHANGED <<tokens, release, ready, workload, cluster, faults>>

WriteInput ==
    /\ at \in DOMAIN Calls /\ Calls[at].object \in InputObjects
    /\ LET o == Calls[at].object
       IN  stored' = [stored EXCEPT ![o] = Written(o)]
    /\ Proceed
    /\ UNCHANGED <<tokens, release, queue, fetched, allReady, ready, templates,
                   cluster, faults>>

\* A changed template is a new generation of the deployment, of which its
\* controller has reported nothing yet (readiness compares the two).
WriteDeployment(p) ==
    /\ at \in DOMAIN Calls /\ Calls[at].object = Deployment(p)
    /\ LET template == [o \in Annotated[p] |-> Written(o)]
       IN  /\ templates' = [templates EXCEPT ![p] = template]
           /\ reported' = [reported EXCEPT ![p] =
                  IF template = templates[p] THEN @ ELSE "outdated"]
    /\ Proceed
    /\ UNCHANGED <<tokens, release, queue, fetched, allReady, ready, stored,
                   pods, faults>>

CheckDeployment ==
    /\ at - Len(Calls) \in DOMAIN Checked
    /\ allReady' = (allReady /\ reported[Checked[at - Len(Calls)]] = "complete")
    /\ Proceed
    /\ UNCHANGED <<tokens, release, queue, fetched, ready, workload, cluster,
                   faults>>

\* Mutant: a ready instance is not looked at again.
LookAgain_NotWhenReady == IF allReady THEN "no" ELSE "timer"

\* After forty seconds, or ten minutes if it is ready.
LookAgain == "timer"

\* The event of a status that changes puts the key into the queue.
Finish ==
    /\ at = LastCall + 1
    /\ at' = 0
    /\ ready' = allReady
    /\ queue' = IF queue = "now" \/ ready # allReady THEN "now" ELSE LookAgain
    /\ UNCHANGED <<tokens, release, fetched, allReady, workload, cluster, faults>>

Fault == faults > 0 /\ faults' = faults - 1

\* The handler returns the error; the status is no longer Ready.
CallFails ==
    /\ Fault
    /\ at \in DOMAIN Calls
    /\ at' = 0
    /\ ready' = FALSE
    /\ queue' = "now"
    /\ UNCHANGED <<tokens, release, fetched, allReady, workload, cluster>>

\* A deployment that cannot be read counts as not ready.
CheckFails ==
    /\ Fault
    /\ at - Len(Calls) \in DOMAIN Checked
    /\ allReady' = FALSE
    /\ Proceed
    /\ UNCHANGED <<tokens, release, queue, fetched, ready, workload, cluster>>

\* The status cannot be written, and stays as it is.
StatusFails ==
    /\ Fault
    /\ at = LastCall + 1 /\ ready # allReady
    /\ at' = 0
    /\ queue' = "now"
    /\ UNCHANGED <<tokens, release, fetched, allReady, ready, workload, cluster>>

\* The process ends, and its successor, which may be of another release,
\* lists the resources.  The status stays as it is.
Restart ==
    /\ Fault
    /\ at' = 0
    /\ release' \in {release, release + 1} /\ release' <= MaxReleases
    /\ queue' = "now"
    /\ UNCHANGED <<tokens, fetched, allReady, ready, workload, cluster>>

Reconcile ==
    \/ Begin \/ WriteInput \/ CheckDeployment \/ Finish
    \/ \E p \in Observed : WriteDeployment(p)

-----------------------------------------------------------------------------
(* The platform, the deployment controller and the kubelet.                *)

Rotate(c) ==
    /\ tokens["mcp"] + tokens["workload"] < 2 + MaxRotations
    /\ tokens' = [tokens EXCEPT ![c] = @ + 1]
    /\ UNCHANGED <<release, worker, workload, cluster, faults>>

\* Mutant: the strategy is left to its default.
Recreate_Nowhere == {}

\* strategy(): an HPA that allows one replica; the webhooks server has two.
Recreate == Parts \ {"webhooks"}

Replicas(p) == IF p = "webhooks" THEN 2 ELSE 1

Current(p) == {pod \in pods[p] : pod.template = templates[p]}

\* One replica more than wanted may exist for a while, unless the strategy is
\* to stop the old pods first.
CreatePod(p) ==
    /\ templates[p] # NoTemplate(p)
    /\ p \in Recreate => pods[p] = Current(p)
    /\ \E n \in 1 .. Replicas(p) :
          /\ {pod.number : pod \in Current(p)} \cap (1 .. n) = 1 .. n - 1
          /\ pods' = [pods EXCEPT ![p] = @ \cup
                         {[number |-> n, template |-> templates[p],
                           up |-> FALSE, loaded |-> NoContent(p)]}]
    /\ UNCHANGED <<tokens, release, worker, workload, reported, faults>>

StartPod(p) ==
    /\ \E pod \in pods[p] :
          /\ ~pod.up
          /\ \A o \in Inputs[p] : stored[o] # 0
          /\ pods' = [pods EXCEPT ![p] = (@ \ {pod}) \cup
                 {[pod EXCEPT !.up = TRUE,
                              !.loaded = [o \in Inputs[p] |-> stored[o]]]}]
    /\ UNCHANGED <<tokens, release, worker, workload, reported, faults>>

\* With a rolling update, a pod that serves goes when a new one does.
StopOldPod(p) ==
    /\ \E pod \in pods[p] \ Current(p) :
          /\ p \in Recreate \/ ~pod.up \/ \E new \in Current(p) : new.up
          /\ pods' = [pods EXCEPT ![p] = @ \ {pod}]
    /\ UNCHANGED <<tokens, release, worker, workload, reported, faults>>

LosePod(p) ==
    /\ Fault
    /\ \E pod \in pods[p] : pods' = [pods EXCEPT ![p] = @ \ {pod}]
    /\ UNCHANGED <<tokens, release, worker, workload, reported>>

RolledOut(p) ==
    /\ Cardinality(pods[p]) = Replicas(p)
    /\ \A pod \in pods[p] : pod.up /\ pod.template = templates[p]

Report(p) ==
    /\ templates[p] # NoTemplate(p)
    /\ reported' = [reported EXCEPT ![p] =
           IF RolledOut(p) THEN "complete" ELSE "progressing"]
    /\ UNCHANGED <<tokens, release, worker, workload, pods, faults>>

Deploys(p) == CreatePod(p) \/ StartPod(p) \/ StopOldPod(p)

-----------------------------------------------------------------------------

Init ==
    /\ tokens = [c \in Clusters |-> 1]
    /\ release = 1
    /\ queue = "now"
    /\ at = 0
    /\ fetched = [c \in Clusters |-> 0]
    /\ allReady = FALSE
    /\ ready = FALSE
    /\ stored = [o \in InputObjects |-> 0]
    /\ templates = [p \in Observed |-> NoTemplate(p)]
    /\ reported = [p \in Observed |-> "outdated"]
    /\ pods = [p \in Observed |-> {}]
    /\ faults = MaxFaults

Next ==
    \/ Reconcile \/ CallFails \/ CheckFails \/ StatusFails \/ Restart
    \/ \E c \in Clusters : Rotate(c)
    \/ \E p \in Observed : Deploys(p) \/ Report(p) \/ LosePod(p)

Spec == Init /\ [][Next]_vars

\* The worker works and its timers come due; the deployment controller and
\* the kubelet do their part.
FairSpec ==
    /\ Spec
    /\ WF_vars(Reconcile)
    /\ \A p \in Observed : WF_vars(Deploys(p)) /\ WF_vars(Report(p))

-----------------------------------------------------------------------------
(* Properties.                                                             *)

Pods(p) ==
    [number : 1 .. Replicas(p), template : [Annotated[p] -> Nat], up : BOOLEAN,
     loaded : [Inputs[p] -> Nat]]

TypeOK ==
    /\ tokens \in [Clusters -> Nat] /\ release \in Nat
    /\ queue \in {"no", "timer", "now"}
    /\ at \in 0 .. LastCall + 1
    /\ fetched \in [Clusters -> Nat]
    /\ allReady \in BOOLEAN /\ ready \in BOOLEAN
    /\ DOMAIN stored = InputObjects
    /\ \A o \in InputObjects : stored[o] \in 0 .. Newest(o)
    /\ \A p \in Observed :
          /\ templates[p] \in [Annotated[p] -> Nat]
          /\ reported[p] \in {"outdated", "progressing", "complete"}
          /\ \A pod \in pods[p] : pod \in Pods(p)
    /\ faults \in Nat

(***************************************************************************)
(* A ready instance runs on what was last installed: when the status says  *)
(* Ready and nothing is under way but the timer, every pod has started     *)
(* with the secrets that are stored now, however the rollouts, restarts of *)
(* pods, rotations and crashes fell between the calls of the installers    *)
(* and the readiness checks.                                               *)
(***************************************************************************)
ReadyRunsOnWhatIsStored ==
    (ready /\ at = 0 /\ queue # "now") =>
        \A p \in Observed : \A pod \in pods[p] :
            pod.up => \A o \in Inputs[p] : pod.loaded[o] = stored[o]

(***************************************************************************)
(* The controllers and deployers, which run with one replica, never have   *)
(* pods of two templates at once: no two of them work on the same          *)
(* resources with different credentials or configurations (strategy()).    *)
(***************************************************************************)
OneControllerAtATime ==
    \A p \in Observed \ {"webhooks"} :
        \A a, b \in pods[p] : a.template = b.template

(***************************************************************************)
(* New tokens reach the pods ("reconcile after 10 minutes ... to fetch new *)
(* tokens for the access requests", reconcile.go): nothing but the timer   *)
(* tells the controller of a rotation, and yet, when the rotations have    *)
(* ended, every pod works with the present tokens and configuration.       *)
(***************************************************************************)
NewTokensReachThePods ==
    <>[](\A p \in Observed :
            /\ Cardinality(pods[p]) = Replicas(p)
            /\ \A pod \in pods[p] :
                  pod.up /\ \A o \in Inputs[p] : pod.loaded[o] = Newest(o))
=============================================================================
