---------------------------- MODULE RolloutProofs ----------------------------
(***************************************************************************)
(* Proofs about Rollout, for every set of observed deployments and every   *)
(* number of rotations, releases and faults.                               *)
(***************************************************************************)
EXTENDS Rollout, InstanceObjectsProofs

\* What is known of a pod whatever it carries.
IsPod(pod) ==
    pod \in [number : {pod.number}, template : {pod.template}, up : BOOLEAN,
             loaded : {pod.loaded}]

(***************************************************************************)
(* The pods of a deployment that is recreated have one template, which     *)
(* need not be the present one.                                            *)
(***************************************************************************)
PodsInv ==
    /\ pods = [p \in Observed |-> pods[p]]
    /\ \A p \in Observed : \A pod \in pods[p] : IsPod(pod)
    /\ OneControllerAtATime

\* To show PodsInv again it is enough to look at the deployment that changes.
LEMMA OneDeploymentChanges ==
    ASSUME PodsInv, NEW p \in Observed, NEW new,
           pods' = [pods EXCEPT ![p] = new],
           \A pod \in new : IsPod(pod),
           p # "webhooks" => \A a, b \in new : a.template = b.template
    PROVE  PodsInv'
  <1>1. pods'[p] = new /\ \A q \in Observed \ {p} : pods'[q] = pods[q]
    BY DEF PodsInv
  <1>2. pods' = [q \in Observed |-> pods'[q]]
    BY DEF PodsInv
  <1>3. \A q \in Observed : \A pod \in pods'[q] : IsPod(pod)
    BY <1>1 DEF PodsInv
  <1>4. OneControllerAtATime'
    BY <1>1 DEF PodsInv, OneControllerAtATime
  <1> QED BY <1>2, <1>3, <1>4 DEF PodsInv

\* With the strategy Recreate the old pods are gone before a new one comes.
LEMMA CreateKeepsPods ==
    ASSUME PodsInv, NEW p \in Observed, CreatePod(p)
    PROVE  PodsInv'
  <1>1. PICK n \in 1 .. Replicas(p) :
           pods' = [pods EXCEPT ![p] = @ \cup
                       {[number |-> n, template |-> templates[p], up |-> FALSE,
                         loaded |-> NoContent(p)]}]
    BY DEF CreatePod
  <1> DEFINE pod   == [number |-> n, template |-> templates[p], up |-> FALSE,
                       loaded |-> NoContent(p)]
             after == pods[p] \cup {pod}
  <1>2. pods' = [pods EXCEPT ![p] = after]
    BY <1>1
  <1>3. \A a \in after : IsPod(a)
    <2>1. IsPod(pod)
      BY DEF IsPod
    <2> QED BY <2>1 DEF PodsInv
  <1>4. ASSUME p # "webhooks" PROVE \A a, b \in after : a.template = b.template
    <2>1. p \in Recreate
      BY <1>4, RolloutAssumption DEF Recreate
    <2>2. \A a \in pods[p] : a.template = templates[p]
      BY <2>1 DEF CreatePod, Current
    <2>3. pod.template = templates[p]
      OBVIOUS
    <2> QED BY <2>2, <2>3
  <1> HIDE DEF after
  <1> QED BY <1>2, <1>3, <1>4, OneDeploymentChanges

LEMMA StartedPod ==
    ASSUME NEW pod, IsPod(pod), NEW content
    PROVE  LET started == [pod EXCEPT !.up = TRUE, !.loaded = content]
           IN  started.template = pod.template /\ IsPod(started)
  <1> DEFINE contents == {pod.loaded, content}
             started  == [pod EXCEPT !.up = TRUE, !.loaded = content]
             Pod      == [number : {pod.number}, template : {pod.template},
                          up : BOOLEAN, loaded : contents]
  <1>1. pod \in Pod
    BY DEF IsPod
  <1>2. content \in contents
    OBVIOUS
  <1> HIDE DEF contents
  <1>3. started \in Pod
    BY <1>1, <1>2
  <1>4. \A a \in Pod : a.template = pod.template /\ a.number = pod.number /\ IsPod(a)
    BY DEF IsPod
  <1> QED BY <1>3, <1>4

\* A pod that starts keeps its template.
LEMMA StartKeepsPods ==
    ASSUME PodsInv, NEW p \in Observed, StartPod(p)
    PROVE  PodsInv'
  <1>1. PICK pod \in pods[p] :
           pods' = [pods EXCEPT ![p] = (@ \ {pod}) \cup
                       {[pod EXCEPT !.up = TRUE,
                                    !.loaded = [o \in Inputs[p] |-> stored[o]]]}]
    BY DEF StartPod
  <1> DEFINE started == [pod EXCEPT !.up = TRUE,
                                    !.loaded = [o \in Inputs[p] |-> stored[o]]]
             after   == (pods[p] \ {pod}) \cup {started}
  <1>2. pods' = [pods EXCEPT ![p] = after]
    BY <1>1
  <1>3. IsPod(pod)
    BY DEF PodsInv
  <1>4. started.template = pod.template /\ IsPod(started)
    BY <1>3, StartedPod
  <1> HIDE DEF started
  <1>5. \A a \in after : IsPod(a)
    BY <1>4 DEF PodsInv
  <1>6. ASSUME p # "webhooks" PROVE \A a, b \in after : a.template = b.template
    <2>1. \A a, b \in pods[p] : a.template = b.template
      BY <1>6 DEF PodsInv, OneControllerAtATime
    <2>2. \A a \in after : a.template = pod.template
      BY <2>1, <1>4
    <2> QED BY <2>2
  <1> HIDE DEF after
  <1> QED BY <1>2, <1>5, <1>6, OneDeploymentChanges

LEMMA RemovalKeepsPods ==
    ASSUME PodsInv, NEW p \in Observed, NEW pod \in pods[p],
           pods' = [pods EXCEPT ![p] = @ \ {pod}]
    PROVE  PodsInv'
  <1> DEFINE after == pods[p] \ {pod}
  <1>1. pods' = [pods EXCEPT ![p] = after]
    OBVIOUS
  <1>2. \A a \in after : IsPod(a)
    BY DEF PodsInv
  <1>3. p # "webhooks" => \A a, b \in after : a.template = b.template
    BY DEF PodsInv, OneControllerAtATime
  <1> HIDE DEF after
  <1> QED BY <1>1, <1>2, <1>3, OneDeploymentChanges

\* Whoever is not the deployment controller, the kubelet or an accident.
LEMMA OthersLeavePods ==
    ASSUME Reconcile \/ CallFails \/ CheckFails \/ StatusFails \/ Restart
              \/ (\E c \in Clusters : Rotate(c))
              \/ (\E p \in Observed : Report(p))
    PROVE  UNCHANGED pods
  <1>1. CASE Reconcile
    BY <1>1 DEF Reconcile, Begin, WriteInput, WriteDeployment, CheckDeployment,
                Finish, cluster
  <1>2. CASE CallFails \/ CheckFails \/ StatusFails \/ Restart
    BY <1>2 DEF CallFails, CheckFails, StatusFails, Restart, cluster
  <1>3. CASE \E c \in Clusters : Rotate(c)
    BY <1>3 DEF Rotate, cluster
  <1>4. CASE \E p \in Observed : Report(p)
    BY <1>4 DEF Report
  <1> QED BY <1>1, <1>2, <1>3, <1>4

(***************************************************************************)
(* OneControllerAtATime: the deployments of the controllers and deployers  *)
(* never have pods of two templates at once, however often templates are   *)
(* rewritten and pods start late, get lost or are stopped.                 *)
(***************************************************************************)
THEOREM OneControllerCorrect == Spec => []OneControllerAtATime
  <1>1. Init => PodsInv
    BY DEF Init, PodsInv, OneControllerAtATime
  <1>2. PodsInv /\ [Next]_vars => PodsInv'
    <2> SUFFICES ASSUME PodsInv, [Next]_vars PROVE PodsInv'
      OBVIOUS
    <2>1. ASSUME UNCHANGED pods PROVE PodsInv'
      BY <2>1 DEF PodsInv, OneControllerAtATime
    <2>2. CASE UNCHANGED vars
      BY <2>1, <2>2 DEF vars, cluster
    <2>3. CASE Reconcile \/ CallFails \/ CheckFails \/ StatusFails \/ Restart
                  \/ (\E c \in Clusters : Rotate(c))
                  \/ (\E p \in Observed : Report(p))
      BY <2>1, <2>3, OthersLeavePods
    <2>4. ASSUME NEW p \in Observed, CreatePod(p) PROVE PodsInv'
      BY <2>4, CreateKeepsPods
    <2>5. ASSUME NEW p \in Observed, StartPod(p) PROVE PodsInv'
      BY <2>5, StartKeepsPods
    <2>6. ASSUME NEW p \in Observed, StopOldPod(p) \/ LosePod(p) PROVE PodsInv'
      BY <2>6, RemovalKeepsPods DEF StopOldPod, LosePod
    <2> QED BY <2>2, <2>3, <2>4, <2>5, <2>6 DEF Next, Deploys
  <1>3. PodsInv => OneControllerAtATime
    BY DEF PodsInv
  <1> QED BY <1>1, <1>2, <1>3, PTL DEF Spec

-----------------------------------------------------------------------------
(* The calls of a reconciliation, and how the worker goes through them.    *)

LEMMA RolloutCalls ==
    /\ Calls \in Seq(Writes({}))
    /\ Len(Calls) \in Nat /\ DOMAIN Calls = 1 .. Len(Calls)
    /\ \A i \in DOMAIN Calls : Calls[i] = Put(Calls[i].object)
    /\ \A p \in Parts : InputsFirst(Calls, p) /\ Has(Calls, Put(Deployment(p)))
  <1> DEFINE s == [secrets |-> [p \in Parts |-> <<>>]]
  <1>1. s.secrets \in [Parts -> Seq({})]
    OBVIOUS
  <1>2. /\ InstallLandscaperInstance(s) \in Seq(Writes({}))
        /\ \A p \in Parts : InputsFirst(InstallLandscaperInstance(s), p)
        /\ \A p \in Parts : Has(InstallLandscaperInstance(s), Put(Deployment(p)))
    <2> HIDE DEF s
    <2> QED BY <1>1, InstalledInOrder
  <1>3. Calls = InstallLandscaperInstance(s)
    BY DEF Calls
  <1>4. Len(Calls) \in Nat /\ DOMAIN Calls = 1 .. Len(Calls)
    BY <1>2, <1>3
  <1>5. \A i \in DOMAIN Calls : Calls[i] \in Writes({})
    BY <1>2, <1>3
  <1>6. \A c \in Writes({}) : c = Put(c.object)
    BY DEF Writes, Put
  <1> QED BY <1>2, <1>3, <1>4, <1>5, <1>6

LEMMA RolloutChecks ==
    /\ Len(Checked) = 5 /\ DOMAIN Checked = 1 .. 5
    /\ \A p \in Parts : \E i \in DOMAIN Checked : Checked[i] = p
    /\ LastCall = Len(Calls) + 5 /\ LastCall \in Nat
  <1>1. /\ Len(Checked) = 5 /\ DOMAIN Checked = 1 .. 5
        /\ Checked[1] = "manifest" /\ Checked[2] = "helm" /\ Checked[3] = "central"
        /\ Checked[4] = "main" /\ Checked[5] = "webhooks"
    BY DEF Checked
  <1> HIDE DEF Checked
  <1>2. ASSUME NEW p \in Parts PROVE \E i \in DOMAIN Checked : Checked[i] = p
    <2>1. 1 \in 1 .. 5 /\ 2 \in 1 .. 5 /\ 3 \in 1 .. 5 /\ 4 \in 1 .. 5 /\ 5 \in 1 .. 5
      OBVIOUS
    <2>2. p = "manifest" \/ p = "helm" \/ p = "main" \/ p = "central" \/ p = "webhooks"
      BY DEF Parts
    <2> QED BY <1>1, <2>1, <2>2
  <1>3. LastCall = Len(Calls) + 5
    BY <1>1 DEF LastCall
  <1> QED BY <1>1, <1>2, <1>3, RolloutCalls

\* Every content that is mounted has a checksum in the template.
LEMMA ObservedParts ==
    ASSUME NEW p \in Observed
    PROVE  /\ p \in Parts /\ Annotated[p] = Inputs[p]
           /\ Inputs[p] \subseteq InputObjects
           /\ Deployment(p) \notin InputObjects
  <1>1. p \in Parts
    BY RolloutAssumption
  <1>2. Annotated[p] = Inputs[p]
    BY <1>1 DEF Parts, Annotated, Inputs, ManifestAnnotations, HelmAnnotations,
                CentralAnnotations, MainAnnotations, WebhooksAnnotations, ManifestInputs,
                HelmInputs, ControllerInputs, WebhooksInputs
  <1>3. Inputs[p] \subseteq InputObjects
    BY DEF InputObjects
  <1>4. ASSUME NEW q \in Observed, NEW o \in Inputs[q]
        PROVE  o # Deployment(p)
    <2>1. q \in {"manifest", "helm"} \/ q \in {"main", "central", "webhooks"}
      BY RolloutAssumption DEF Parts
    <2>2. \E n : o = Config(n) \/ o = Kubeconfig(n)
      <3>1. CASE q \in {"manifest", "helm"}
        BY <1>4, <3>1, InputsOf
      <3>2. CASE q \in {"main", "central", "webhooks"}
        <4>1. o = Config("landscaper") \/ o = Kubeconfig("controller mcp")
                  \/ o = Kubeconfig("controller workload")
          BY <1>4, <3>2, InputsOf
        <4> QED BY <4>1
      <3> QED BY <2>1, <3>1, <3>2
    <2> QED BY <2>2, DistinctInputs
  <1> QED BY <1>1, <1>2, <1>3, <1>4 DEF InputObjects

\* No call or check that matters is skipped.
LEMMA Forward ==
    ASSUME at \in 0 .. LastCall, Proceed
    PROVE  /\ at' \in 1 .. LastCall + 1 /\ at < at'
           /\ \A i \in DOMAIN Calls : i < at' =>
                 \/ i < at \/ i = at
                 \/ Calls[i].object \notin InputObjects
                    /\ \A p \in Observed : Calls[i].object # Deployment(p)
           /\ \A i \in DOMAIN Checked : Len(Calls) + i < at' =>
                 \/ Len(Calls) + i < at \/ Len(Calls) + i = at
                 \/ Checked[i] \notin Observed
  <1>1. at' \in {j \in at + 1 .. LastCall + 1 :
                    Matters(j) /\ \A k \in at + 1 .. j - 1 : ~Matters(k)}
    BY RolloutChecks DEF Proceed, Following
  <1>2. /\ at' \in at + 1 .. LastCall + 1
        /\ \A k \in at + 1 .. at' - 1 : ~Matters(k)
    BY <1>1
  <1>3. at' \in 1 .. LastCall + 1 /\ at < at'
    BY <1>2, RolloutChecks
  <1>4. ASSUME NEW i \in DOMAIN Calls, i < at', ~(i < at), i # at
        PROVE  /\ Calls[i].object \notin InputObjects
               /\ \A p \in Observed : Calls[i].object # Deployment(p)
    <2>1. i \in at + 1 .. at' - 1
      BY <1>2, <1>4, RolloutCalls, RolloutChecks
    <2>2. ~Matters(i)
      BY <1>2, <2>1
    <2> QED BY <2>2 DEF Matters
  <1>5. ASSUME NEW i \in DOMAIN Checked, Len(Calls) + i < at',
               ~(Len(Calls) + i < at), Len(Calls) + i # at
        PROVE  Checked[i] \notin Observed
    <2>1. Len(Calls) + i \in at + 1 .. at' - 1
      BY <1>2, <1>5, RolloutCalls, RolloutChecks
    <2>2. ~Matters(Len(Calls) + i)
      BY <1>2, <2>1
    <2>3. (Len(Calls) + i) - Len(Calls) = i
      BY RolloutCalls, RolloutChecks
    <2> QED BY <2>2, <2>3 DEF Matters
  <1> QED BY <1>3, <1>4, <1>5

-----------------------------------------------------------------------------
(* The invariant.                                                          *)

\* All pods of a deployment have its present template.
Clean(p) == \A pod \in pods[p] : pod.template = templates[p]

Functions ==
    /\ stored = [o \in InputObjects |-> stored[o]]
    /\ templates = [p \in Observed |-> templates[p]]
    /\ reported = [p \in Observed |-> reported[p]]
    /\ pods = [p \in Observed |-> pods[p]]

PodAge(pod, o) ==
    /\ pod.template[o] <= stored[o]
    /\ pod.up => pod.template[o] <= pod.loaded[o] /\ pod.loaded[o] <= stored[o]

\* Contents only get newer, and nobody is ahead of what is stored.
AgeInv ==
    /\ \A c \in Clusters : fetched[c] <= tokens[c]
    /\ at > 0 => \A o \in InputObjects : stored[o] <= Written(o)
    /\ \A p \in Observed : \A o \in Inputs[p] :
          /\ templates[p][o] <= stored[o]
          /\ \A pod \in pods[p] : PodAge(pod, o)

\* The calls behind the worker have been made.
DoneInv ==
    at > 0 => \A i \in DOMAIN Calls : i < at =>
        /\ \A o \in InputObjects : Calls[i] = Put(o) => stored[o] = Written(o)
        /\ \A p \in Observed : Calls[i] = Put(Deployment(p)) =>
              \A o \in Inputs[p] : templates[p][o] = Written(o)

\* What a report, the readiness checks and the status say lasts.
CleanInv ==
    /\ \A p \in Observed : reported[p] = "complete" => Clean(p)
    /\ at > 0 /\ allReady =>
          \A p \in Observed : \A i \in DOMAIN Checked :
              Checked[i] = p /\ Len(Calls) + i < at => Clean(p)
    /\ ready /\ at = 0 /\ queue # "now" =>
          \A p \in Observed :
              Clean(p) /\ \A o \in Inputs[p] : templates[p][o] = stored[o]

RolloutInv == TypeOK /\ Functions /\ AgeInv /\ DoneInv /\ CleanInv

LEMMA ContentNumbers ==
    ASSUME TypeOK, AgeInv
    PROVE  /\ \A o : Written(o) \in Nat /\ Newest(o) \in Nat /\ Written(o) <= Newest(o)
           /\ \A o \in InputObjects : stored[o] \in Nat /\ stored[o] <= Newest(o)
           /\ \A p \in Observed : \A o \in Inputs[p] : templates[p][o] \in Nat
  <1>1. /\ fetched["mcp"] \in Nat /\ fetched["workload"] \in Nat
        /\ tokens["mcp"] \in Nat /\ tokens["workload"] \in Nat /\ release \in Nat
    BY DEF TypeOK, Clusters
  <1>2. fetched["mcp"] <= tokens["mcp"] /\ fetched["workload"] <= tokens["workload"]
    BY DEF AgeInv, Clusters
  <1>3. \A o : Written(o) \in Nat /\ Newest(o) \in Nat /\ Written(o) <= Newest(o)
    <2> SUFFICES ASSUME NEW o
                 PROVE  Written(o) \in Nat /\ Newest(o) \in Nat /\ Written(o) <= Newest(o)
      OBVIOUS
    <2>1. \/ Written(o) = release /\ Newest(o) = release
          \/ Written(o) = fetched["workload"] /\ Newest(o) = tokens["workload"]
          \/ Written(o) = fetched["mcp"] /\ Newest(o) = tokens["mcp"]
      BY DEF Written, Newest
    <2> QED BY <1>1, <1>2, <2>1
  <1>4. \A o \in InputObjects : stored[o] \in 0 .. Newest(o)
    BY DEF TypeOK
  <1>5. ASSUME NEW p \in Observed, NEW o \in Inputs[p] PROVE templates[p][o] \in Nat
    <2>1. templates[p] \in [Annotated[p] -> Nat]
      BY DEF TypeOK
    <2> QED BY <2>1, ObservedParts
  <1> QED BY <1>3, <1>4, <1>5

LEMMA InitRollout == Init => RolloutInv
  <1> SUFFICES ASSUME Init PROVE RolloutInv
    OBVIOUS
  <1>1. Functions
    BY DEF Init, Functions
  <1>2. TypeOK
    <2>1. \A o : Newest(o) = 1
      BY DEF Init, Newest, Clusters
    <2>2. \A o \in InputObjects : stored[o] \in 0 .. Newest(o)
      BY <2>1 DEF Init
    <2>3. \A p \in Observed :
              /\ templates[p] \in [Annotated[p] -> Nat]
              /\ reported[p] \in {"outdated", "progressing", "complete"}
              /\ \A pod \in pods[p] : pod \in Pods(p)
      BY DEF Init, NoTemplate
    <2>4. tokens \in [Clusters -> Nat] /\ fetched \in [Clusters -> Nat]
      BY DEF Init
    <2>5. allReady \in BOOLEAN /\ ready \in BOOLEAN
      <3>1. allReady = FALSE /\ ready = FALSE
        BY Zenon DEF Init
      <3> QED BY <3>1
    <2>6. /\ release \in Nat /\ queue \in {"no", "timer", "now"}
          /\ at \in 0 .. LastCall + 1 /\ DOMAIN stored = InputObjects /\ faults \in Nat
      BY RolloutAssumption, RolloutChecks DEF Init
    <2> QED BY <2>2, <2>3, <2>4, <2>5, <2>6 DEF TypeOK
  <1>3. AgeInv
    <2>1. /\ \A c \in Clusters : fetched[c] <= tokens[c]
          /\ at = 0
          /\ \A o \in InputObjects : stored[o] = 0
          /\ \A p \in Observed : pods[p] = {} /\ templates[p] = NoTemplate(p)
      BY DEF Init
    <2>2. ASSUME NEW p \in Observed, NEW o \in Inputs[p]
          PROVE  templates[p][o] <= stored[o]
      <3>1. o \in Annotated[p] /\ o \in InputObjects
        BY ObservedParts
      <3>2. templates[p][o] = 0
        BY <2>1, <3>1 DEF NoTemplate
      <3>3. stored[o] = 0
        BY <2>1, <3>1
      <3> QED BY <3>2, <3>3
    <2> QED BY <2>1, <2>2 DEF AgeInv
  <1>4. DoneInv
    BY DEF Init, DoneInv
  <1>5. CleanInv
    <2>1. at = 0 /\ ready = FALSE /\ \A p \in Observed : pods[p] = {}
      BY DEF Init
    <2> QED BY <2>1 DEF CleanInv, Clean
  <1> QED BY <1>1, <1>2, <1>3, <1>4, <1>5 DEF RolloutInv

\* The pods of one deployment change, and nothing else but the count of faults.
LEMMA PodsChange ==
    ASSUME RolloutInv, NEW p \in Observed, NEW new,
           pods' = [pods EXCEPT ![p] = new],
           \A pod \in new : pod \in Pods(p) /\ \A o \in Inputs[p] : PodAge(pod, o),
           Clean(p) => \A pod \in new : pod.template = templates[p],
           UNCHANGED <<tokens, release, worker, workload, reported>>,
           faults' \in Nat
    PROVE  RolloutInv'
  <1>1. pods'[p] = new /\ \A q \in Observed \ {p} : pods'[q] = pods[q]
    BY DEF RolloutInv, Functions
  <1>2. UNCHANGED <<tokens, release, queue, at, fetched, allReady, ready, stored,
                    templates, reported>>
    BY DEF worker, workload
  <1>3. \A o : Newest(o)' = Newest(o) /\ Written(o)' = Written(o)
    BY <1>2 DEF Newest, Written
  <1>4. Functions'
    BY <1>1, <1>2 DEF RolloutInv, Functions
  <1>5. TypeOK'
    <2>1. \A q \in Observed : \A pod \in pods'[q] : pod \in Pods(q)
      BY <1>1 DEF RolloutInv, TypeOK
    <2> QED BY <1>2, <1>3, <2>1 DEF RolloutInv, TypeOK
  <1>6. AgeInv'
    <2>1. \A q \in Observed : \A o \in Inputs[q] : \A pod \in pods'[q] : PodAge(pod, o)
      BY <1>1 DEF RolloutInv, AgeInv
    <2>2. \A pod, o : PodAge(pod, o)' = PodAge(pod, o)
      BY <1>2 DEF PodAge
    <2> QED BY <1>2, <1>3, <2>1, <2>2 DEF RolloutInv, AgeInv
  <1>7. DoneInv'
    BY <1>2, <1>3 DEF RolloutInv, DoneInv
  <1>8. CleanInv'
    <2>1. \A q \in Observed : Clean(q) => Clean(q)'
      BY <1>1, <1>2 DEF Clean
    <2> QED BY <1>2, <2>1 DEF RolloutInv, CleanInv
  <1> QED BY <1>4, <1>5, <1>6, <1>7, <1>8 DEF RolloutInv

LEMMA CreateStep ==
    ASSUME RolloutInv, NEW p \in Observed, CreatePod(p) PROVE RolloutInv'
  <1>1. PICK n \in 1 .. Replicas(p) :
           pods' = [pods EXCEPT ![p] = @ \cup
                       {[number |-> n, template |-> templates[p], up |-> FALSE,
                         loaded |-> NoContent(p)]}]
    BY DEF CreatePod
  <1> DEFINE pod   == [number |-> n, template |-> templates[p], up |-> FALSE,
                       loaded |-> NoContent(p)]
             after == pods[p] \cup {pod}
  <1>2. pods' = [pods EXCEPT ![p] = after]
    BY <1>1
  <1>3. pod \in Pods(p)
    <2>1. templates[p] \in [Annotated[p] -> Nat] /\ NoContent(p) \in [Inputs[p] -> Nat]
      BY DEF RolloutInv, TypeOK, NoContent
    <2> QED BY <2>1 DEF Pods
  <1>4. \A o \in Inputs[p] : PodAge(pod, o)
    BY DEF RolloutInv, AgeInv, PodAge
  <1>5. \A a \in after : a \in Pods(p) /\ \A o \in Inputs[p] : PodAge(a, o)
    <2> HIDE DEF pod
    <2> QED BY <1>3, <1>4 DEF RolloutInv, TypeOK, AgeInv
  <1>6. Clean(p) => \A a \in after : a.template = templates[p]
    BY DEF Clean
  <1>7. /\ UNCHANGED <<tokens, release, worker, workload, reported>>
        /\ faults' \in Nat
    BY DEF CreatePod, RolloutInv, TypeOK
  <1> HIDE DEF after
  <1> QED BY <1>2, <1>5, <1>6, <1>7, PodsChange

LEMMA StartStep ==
    ASSUME RolloutInv, NEW p \in Observed, StartPod(p) PROVE RolloutInv'
  <1>1. PICK pod \in pods[p] :
           pods' = [pods EXCEPT ![p] = (@ \ {pod}) \cup
                       {[pod EXCEPT !.up = TRUE,
                                    !.loaded = [o \in Inputs[p] |-> stored[o]]]}]
    BY DEF StartPod
  <1> DEFINE content == [o \in Inputs[p] |-> stored[o]]
             started == [pod EXCEPT !.up = TRUE, !.loaded = content]
             after   == (pods[p] \ {pod}) \cup {started}
  <1>2. pods' = [pods EXCEPT ![p] = after]
    BY <1>1
  <1>3. pod \in Pods(p)
    BY DEF RolloutInv, TypeOK
  <1>4. content \in [Inputs[p] -> Nat]
    <2>1. \A o \in Inputs[p] : stored[o] \in Nat
      BY ContentNumbers, ObservedParts DEF RolloutInv
    <2> QED BY <2>1
  <1>5. \A o \in Inputs[p] : content[o] = stored[o]
    OBVIOUS
  <1> HIDE DEF content
  <1>6. /\ started \in Pods(p)
        /\ started.template = pod.template /\ started.loaded = content
    BY <1>3, <1>4 DEF Pods
  <1>7. \A o \in Inputs[p] : PodAge(started, o)
    <2> SUFFICES ASSUME NEW o \in Inputs[p] PROVE PodAge(started, o)
      OBVIOUS
    <2>1. pod.template[o] <= stored[o]
      BY DEF RolloutInv, AgeInv, PodAge
    <2>2. stored[o] \in Nat
      BY ContentNumbers, ObservedParts DEF RolloutInv
    <2>3. stored[o] <= stored[o]
      BY <2>2
    <2> HIDE DEF started
    <2> QED BY <1>5, <1>6, <2>1, <2>3 DEF PodAge
  <1> HIDE DEF started
  <1>8. \A a \in after : a \in Pods(p) /\ \A o \in Inputs[p] : PodAge(a, o)
    BY <1>6, <1>7 DEF RolloutInv, TypeOK, AgeInv
  <1>9. Clean(p) => \A a \in after : a.template = templates[p]
    BY <1>6 DEF Clean
  <1>10. /\ UNCHANGED <<tokens, release, worker, workload, reported>>
         /\ faults' \in Nat
    BY DEF StartPod, RolloutInv, TypeOK
  <1> HIDE DEF after
  <1> QED BY <1>2, <1>8, <1>9, <1>10, PodsChange

LEMMA RemovalStep ==
    ASSUME RolloutInv, NEW p \in Observed, StopOldPod(p) \/ LosePod(p)
    PROVE  RolloutInv'
  <1>1. PICK pod \in pods[p] : pods' = [pods EXCEPT ![p] = @ \ {pod}]
    BY DEF StopOldPod, LosePod
  <1> DEFINE after == pods[p] \ {pod}
  <1>2. pods' = [pods EXCEPT ![p] = after]
    BY <1>1
  <1>3. \A a \in after : a \in Pods(p) /\ \A o \in Inputs[p] : PodAge(a, o)
    BY DEF RolloutInv, TypeOK, AgeInv
  <1>4. Clean(p) => \A a \in after : a.template = templates[p]
    BY DEF Clean
  <1>5. /\ UNCHANGED <<tokens, release, worker, workload, reported>>
        /\ faults' \in Nat
    BY DEF StopOldPod, LosePod, Fault, RolloutInv, TypeOK
  <1> HIDE DEF after
  <1> QED BY <1>2, <1>3, <1>4, <1>5, PodsChange

\* A report of a complete rollout says that there are no other pods.
LEMMA ReportStep ==
    ASSUME RolloutInv, NEW p \in Observed, Report(p) PROVE RolloutInv'
  <1>1. reported' = [reported EXCEPT ![p] =
                        IF RolledOut(p) THEN "complete" ELSE "progressing"]
    BY DEF Report
  <1>2. UNCHANGED <<tokens, release, queue, at, fetched, allReady, ready, stored,
                    templates, pods, faults>>
    BY DEF Report, worker, workload
  <1>3. /\ reported'[p] \in {"progressing", "complete"}
        /\ reported'[p] = "complete" => RolledOut(p)
        /\ \A q \in Observed \ {p} : reported'[q] = reported[q]
        /\ reported' = [q \in Observed |-> reported'[q]]
    BY <1>1 DEF RolloutInv, Functions
  <1>4. \A o : Newest(o)' = Newest(o) /\ Written(o)' = Written(o)
    BY <1>2 DEF Newest, Written
  <1>5. TypeOK' /\ Functions'
    BY <1>2, <1>3, <1>4 DEF RolloutInv, TypeOK, Functions
  <1>6. AgeInv' /\ DoneInv'
    BY <1>2, <1>4 DEF RolloutInv, AgeInv, DoneInv, PodAge
  <1>7. CleanInv'
    <2>1. RolledOut(p) => Clean(p)
      BY DEF RolledOut, Clean
    <2>2. \A q \in Observed : Clean(q)' <=> Clean(q)
      BY <1>2 DEF Clean
    <2> QED BY <1>2, <1>3, <2>1, <2>2 DEF RolloutInv, CleanInv
  <1> QED BY <1>5, <1>6, <1>7 DEF RolloutInv

LEMMA RotateStep ==
    ASSUME RolloutInv, NEW c \in Clusters, Rotate(c) PROVE RolloutInv'
  <1>1. tokens' = [tokens EXCEPT ![c] = @ + 1]
    BY DEF Rotate
  <1>2. UNCHANGED <<release, queue, at, fetched, allReady, ready, stored, templates,
                    reported, pods, faults>>
    BY DEF Rotate, worker, workload, cluster
  <1>3. /\ tokens' \in [Clusters -> Nat]
        /\ \A d \in Clusters : tokens[d] <= tokens'[d] /\ tokens[d] \in Nat
    BY <1>1 DEF RolloutInv, TypeOK
  <1>4. \A o : Written(o)' = Written(o) /\ Newest(o) <= Newest(o)' /\ Newest(o)' \in Nat
    <2> SUFFICES ASSUME NEW o
                 PROVE  Written(o)' = Written(o) /\ Newest(o) <= Newest(o)'
                        /\ Newest(o)' \in Nat
      OBVIOUS
    <2>1. Written(o)' = Written(o)
      BY <1>2 DEF Written
    <2>2. \/ Newest(o) = release /\ Newest(o)' = release
          \/ Newest(o) = tokens["workload"] /\ Newest(o)' = tokens'["workload"]
          \/ Newest(o) = tokens["mcp"] /\ Newest(o)' = tokens'["mcp"]
      BY <1>2 DEF Newest
    <2>3. release \in Nat
      BY DEF RolloutInv, TypeOK
    <2> QED BY <1>3, <2>1, <2>2, <2>3 DEF Clusters
  <1>5. \A o \in InputObjects : stored'[o] \in 0 .. Newest(o)'
    <2> SUFFICES ASSUME NEW o \in InputObjects PROVE stored[o] \in 0 .. Newest(o)'
      BY <1>2
    <2>1. stored[o] \in Nat /\ stored[o] <= Newest(o) /\ Newest(o) \in Nat
      BY ContentNumbers DEF RolloutInv
    <2> QED BY <1>4, <2>1
  <1>6. TypeOK' /\ Functions'
    BY <1>2, <1>3, <1>5 DEF RolloutInv, TypeOK, Functions, Pods
  <1>7. AgeInv'
    <2>1. \A d \in Clusters : fetched'[d] <= tokens'[d]
      <3> SUFFICES ASSUME NEW d \in Clusters PROVE fetched[d] <= tokens'[d]
        BY <1>2
      <3>1. fetched[d] \in Nat /\ fetched[d] <= tokens[d]
        BY DEF RolloutInv, TypeOK, AgeInv
      <3> QED BY <1>1, <1>3, <3>1
    <2> QED BY <1>2, <1>4, <2>1 DEF RolloutInv, AgeInv, PodAge
  <1>8. DoneInv' /\ CleanInv'
    BY <1>2, <1>4 DEF RolloutInv, DoneInv, CleanInv, Clean
  <1> QED BY <1>6, <1>7, <1>8 DEF RolloutInv

\* The worker rests, and comes back at once or is not ready.
LEMMA RestStep ==
    ASSUME RolloutInv, at' = 0, ready' \in BOOLEAN, allReady' = allReady,
           queue' \in {"no", "timer", "now"},
           release' \in Nat, release <= release', faults' \in Nat,
           UNCHANGED <<tokens, fetched, workload, cluster>>,
           ready' /\ queue' # "now" =>
               \A p \in Observed :
                   Clean(p) /\ \A o \in Inputs[p] : templates[p][o] = stored[o]
    PROVE  RolloutInv'
  <1>1. UNCHANGED <<stored, templates, reported, pods>>
    BY DEF workload, cluster
  <1>2. \A o \in InputObjects : stored[o] \in 0 .. Newest(o)'
    <2> SUFFICES ASSUME NEW o \in InputObjects PROVE stored[o] \in 0 .. Newest(o)'
      OBVIOUS
    <2>1. stored[o] \in Nat /\ stored[o] <= Newest(o) /\ Newest(o) \in Nat
      BY ContentNumbers DEF RolloutInv
    <2>2. \/ Newest(o)' = Newest(o)
          \/ Newest(o) = release /\ Newest(o)' = release'
      BY DEF Newest
    <2> QED BY <2>1, <2>2
  <1>3. at' \in 0 .. LastCall + 1
    BY RolloutChecks
  <1>4. TypeOK' /\ Functions'
    BY <1>1, <1>2, <1>3 DEF RolloutInv, TypeOK, Functions, Pods
  <1>5. AgeInv'
    BY <1>1 DEF RolloutInv, AgeInv, PodAge
  <1>6. DoneInv'
    BY DEF DoneInv
  <1>7. CleanInv'
    <2>1. \A p \in Observed : Clean(p)' <=> Clean(p)
      BY <1>1 DEF Clean
    <2> QED BY <1>1, <2>1 DEF RolloutInv, CleanInv
  <1> QED BY <1>4, <1>5, <1>6, <1>7 DEF RolloutInv

LEMMA BeginStep == ASSUME RolloutInv, Begin PROVE RolloutInv'
  <1>1. /\ at = 0 /\ queue' = "no" /\ Proceed /\ fetched' = tokens
        /\ allReady' \in BOOLEAN
        /\ UNCHANGED <<tokens, release, ready, stored, templates, reported, pods, faults>>
    BY DEF Begin, workload, cluster
  <1>2. at \in 0 .. LastCall
    BY <1>1, RolloutChecks
  <1>3. at' \in 1 .. LastCall + 1 /\ at' \in 0 .. LastCall + 1
    BY <1>1, <1>2, Forward, RolloutChecks
  <1>4. \A o : Newest(o)' = Newest(o) /\ Written(o)' = Newest(o)
    BY <1>1 DEF Newest, Written
  <1>5. TypeOK' /\ Functions'
    BY <1>1, <1>3, <1>4 DEF RolloutInv, TypeOK, Functions, Pods
  <1>6. AgeInv'
    <2>1. \A c \in Clusters : tokens[c] <= tokens[c]
      BY DEF RolloutInv, TypeOK
    <2>2. \A o \in InputObjects : stored[o] <= Newest(o)
      BY ContentNumbers DEF RolloutInv
    <2> QED BY <1>1, <1>4, <2>1, <2>2 DEF RolloutInv, AgeInv, PodAge
  <1>7. DoneInv'
    <2>1. \A i \in DOMAIN Calls : i < at' =>
             /\ Calls[i].object \notin InputObjects
             /\ \A p \in Observed : Calls[i].object # Deployment(p)
      BY <1>1, <1>2, Forward, RolloutCalls
    <2> QED BY <2>1 DEF DoneInv, Put
  <1>8. CleanInv'
    <2>1. \A i \in DOMAIN Checked : Len(Calls) + i < at' => Checked[i] \notin Observed
      BY <1>1, <1>2, Forward, RolloutCalls, RolloutChecks
    <2>2. \A p \in Observed : Clean(p)' <=> Clean(p)
      BY <1>1 DEF Clean
    <2>3. at' # 0
      BY <1>3
    <2> QED BY <1>1, <2>1, <2>2, <2>3 DEF RolloutInv, CleanInv
  <1> QED BY <1>5, <1>6, <1>7, <1>8 DEF RolloutInv

\* While the worker installs, nothing that it has to check is behind it.
LEMMA NotCheckedYet ==
    ASSUME at \in DOMAIN Calls, Proceed, at \in 0 .. LastCall + 1
    PROVE  /\ at > 0 /\ at \in 0 .. LastCall
           /\ at' \in 1 .. LastCall + 1 /\ at' \in 0 .. LastCall + 1 /\ at' > 0
           /\ \A i \in DOMAIN Checked : Len(Calls) + i < at' => Checked[i] \notin Observed
  <1>1. at > 0 /\ at \in 0 .. LastCall
    BY RolloutCalls, RolloutChecks
  <1>2. at' \in 1 .. LastCall + 1
    BY <1>1, Forward
  <1>3. at' \in 0 .. LastCall + 1 /\ at' > 0
    BY <1>2, RolloutChecks
  <1>4. ASSUME NEW i \in DOMAIN Checked, Len(Calls) + i < at'
        PROVE  Checked[i] \notin Observed
    <2>1. ~(Len(Calls) + i < at) /\ Len(Calls) + i # at
      BY RolloutCalls, RolloutChecks
    <2> QED BY <1>1, <1>4, <2>1, Forward
  <1> QED BY <1>1, <1>2, <1>3, <1>4

LEMMA WriteInputStep == ASSUME RolloutInv, WriteInput PROVE RolloutInv'
  <1> DEFINE o == Calls[at].object
  <1>1. /\ at \in DOMAIN Calls /\ o \in InputObjects /\ Proceed
        /\ stored' = [stored EXCEPT ![o] = Written(o)]
        /\ UNCHANGED <<tokens, release, queue, fetched, allReady, ready, templates,
                       reported, pods, faults>>
    BY DEF WriteInput, cluster
  <1>2. at \in 0 .. LastCall + 1
    BY DEF RolloutInv, TypeOK
  <1>3. /\ at > 0 /\ at \in 0 .. LastCall /\ at' \in 0 .. LastCall + 1 /\ at' > 0
        /\ \A i \in DOMAIN Checked : Len(Calls) + i < at' => Checked[i] \notin Observed
    BY <1>1, <1>2, NotCheckedYet
  <1>4. Calls[at] = Put(o)
    BY <1>1, RolloutCalls
  <1> HIDE DEF o
  <1>5. /\ stored'[o] = Written(o)
        /\ \A x \in InputObjects : x # o => stored'[x] = stored[x]
        /\ stored' = [x \in InputObjects |-> stored'[x]]
    BY <1>1 DEF RolloutInv, Functions
  <1>6. \A x : Newest(x)' = Newest(x) /\ Written(x)' = Written(x)
    BY <1>1 DEF Newest, Written
  <1>7. \A x \in InputObjects :
           /\ stored'[x] \in Nat /\ stored[x] \in Nat
           /\ stored[x] <= stored'[x]
           /\ stored'[x] <= Written(x) /\ stored'[x] <= Newest(x)
           /\ Newest(x) \in Nat
    <2> SUFFICES ASSUME NEW x \in InputObjects
                 PROVE  /\ stored'[x] \in Nat /\ stored[x] \in Nat
                        /\ stored[x] <= stored'[x]
                        /\ stored'[x] <= Written(x) /\ stored'[x] <= Newest(x)
                        /\ Newest(x) \in Nat
      OBVIOUS
    <2>1. /\ stored[x] \in Nat /\ stored[x] <= Newest(x)
          /\ Written(x) \in Nat /\ Newest(x) \in Nat /\ Written(x) <= Newest(x)
      BY ContentNumbers DEF RolloutInv
    <2>2. stored[x] <= Written(x)
      BY <1>3 DEF RolloutInv, AgeInv
    <2>3. stored'[x] = Written(x) \/ stored'[x] = stored[x]
      BY <1>5
    <2> QED BY <2>1, <2>2, <2>3
  <1>8. TypeOK'
    <2>1. \A x \in InputObjects : stored'[x] \in 0 .. Newest(x)
      BY <1>7
    <2>2. DOMAIN stored' = InputObjects
      BY <1>5
    <2> QED BY <1>1, <1>3, <1>6, <2>1, <2>2 DEF RolloutInv, TypeOK, Pods
  <1>9. Functions'
    BY <1>1, <1>5 DEF RolloutInv, Functions
  <1>10. AgeInv'
    <2>1. ASSUME NEW p \in Observed, NEW x \in Inputs[p]
          PROVE  /\ templates[p][x] <= stored'[x]
                 /\ \A pod \in pods[p] : PodAge(pod, x)'
      <3>1. x \in InputObjects
        BY ObservedParts
      <3>2. stored[x] \in Nat /\ stored'[x] \in Nat /\ stored[x] <= stored'[x]
        BY <1>7, <3>1
      <3>3. templates[p][x] \in Nat /\ templates[p][x] <= stored[x]
        BY ContentNumbers DEF RolloutInv, AgeInv
      <3>4. templates[p][x] <= stored'[x]
        BY <3>2, <3>3
      <3>5. ASSUME NEW pod \in pods[p] PROVE PodAge(pod, x)'
        <4>1. pod \in Pods(p) /\ PodAge(pod, x)
          BY DEF RolloutInv, TypeOK, AgeInv
        <4>2. pod.template[x] \in Nat /\ pod.loaded[x] \in Nat
          BY <4>1, ObservedParts DEF Pods
        <4>3. pod.template[x] <= stored'[x]
          BY <3>2, <4>1, <4>2 DEF PodAge
        <4>4. pod.up => pod.template[x] <= pod.loaded[x] /\ pod.loaded[x] <= stored'[x]
          BY <3>2, <4>1, <4>2 DEF PodAge
        <4> QED BY <4>3, <4>4 DEF PodAge
      <3> QED BY <3>4, <3>5
    <2>2. \A x \in InputObjects : stored'[x] <= Written(x)'
      BY <1>6, <1>7
    <2> QED BY <1>1, <2>1, <2>2 DEF RolloutInv, AgeInv
  <1>11. DoneInv'
    <2> SUFFICES ASSUME NEW i \in DOMAIN Calls, i < at'
                 PROVE  /\ \A x \in InputObjects :
                              Calls[i] = Put(x) => stored'[x] = Written(x)
                        /\ \A p \in Observed : Calls[i] = Put(Deployment(p)) =>
                              \A x \in Inputs[p] : templates[p][x] = Written(x)
      BY <1>1, <1>6 DEF DoneInv
    <2>1. CASE i < at
      <3>1. /\ \A x \in InputObjects : Calls[i] = Put(x) => stored[x] = Written(x)
            /\ \A p \in Observed : Calls[i] = Put(Deployment(p)) =>
                  \A x \in Inputs[p] : templates[p][x] = Written(x)
        BY <1>3, <2>1 DEF RolloutInv, DoneInv
      <3> QED BY <1>5, <3>1
    <2>2. CASE i = at
      <3>1. \A x : Calls[i] = Put(x) => x = o
        BY <1>4, <2>2 DEF Put
      <3>2. \A p \in Observed : o # Deployment(p)
        BY <1>1, ObservedParts
      <3> QED BY <1>5, <3>1, <3>2
    <2>3. CASE /\ Calls[i].object \notin InputObjects
               /\ \A p \in Observed : Calls[i].object # Deployment(p)
      BY <2>3 DEF Put
    <2> QED BY <1>1, <1>3, <2>1, <2>2, <2>3, Forward
  <1>12. CleanInv'
    <2>1. \A p \in Observed : Clean(p)' <=> Clean(p)
      BY <1>1 DEF Clean
    <2> QED BY <1>1, <1>3, <2>1 DEF RolloutInv, CleanInv
  <1> QED BY <1>8, <1>9, <1>10, <1>11, <1>12 DEF RolloutInv

\* A deployment is written when its inputs have their new contents.
LEMMA WriteDeploymentStep ==
    ASSUME RolloutInv, NEW p \in Observed, WriteDeployment(p) PROVE RolloutInv'
  <1> DEFINE template == [o \in Annotated[p] |-> Written(o)]
  <1>1. /\ at \in DOMAIN Calls /\ Calls[at].object = Deployment(p) /\ Proceed
        /\ templates' = [templates EXCEPT ![p] = template]
        /\ reported' = [reported EXCEPT ![p] =
                          IF template = templates[p] THEN @ ELSE "outdated"]
        /\ UNCHANGED <<tokens, release, queue, fetched, allReady, ready, stored, pods,
                       faults>>
    BY DEF WriteDeployment
  <1>2. at \in 0 .. LastCall + 1
    BY DEF RolloutInv, TypeOK
  <1>3. /\ at > 0 /\ at \in 0 .. LastCall /\ at' \in 0 .. LastCall + 1 /\ at' > 0
        /\ \A i \in DOMAIN Checked : Len(Calls) + i < at' => Checked[i] \notin Observed
    BY <1>1, <1>2, NotCheckedYet
  <1>4. Calls[at] = Put(Deployment(p))
    BY <1>1, RolloutCalls
  <1>5. \A x : Newest(x)' = Newest(x) /\ Written(x)' = Written(x)
    BY <1>1 DEF Newest, Written
  <1>6. \A x \in Inputs[p] : template[x] = Written(x) /\ stored[x] = Written(x)
    <2> SUFFICES ASSUME NEW x \in Inputs[p] PROVE stored[x] = Written(x)
      BY ObservedParts
    <2>1. Before(Calls, Put(x), Put(Deployment(p)))
      BY RolloutCalls, ObservedParts DEF InputsFirst
    <2>2. PICK j \in DOMAIN Calls : j < at /\ Calls[j] = Put(x)
      BY <1>1, <1>4, <2>1 DEF Before
    <2>3. x \in InputObjects
      BY ObservedParts
    <2> QED BY <1>3, <2>2, <2>3 DEF RolloutInv, DoneInv
  <1>7. template \in [Annotated[p] -> Nat]
    <2>1. \A x : Written(x) \in Nat
      BY ContentNumbers DEF RolloutInv
    <2> QED BY <2>1
  <1> HIDE DEF template
  <1>8. /\ templates'[p] = template
        /\ \A q \in Observed \ {p} : templates'[q] = templates[q]
        /\ templates' = [q \in Observed |-> templates'[q]]
    BY <1>1 DEF RolloutInv, Functions
  <1>9. /\ \/ reported'[p] = "outdated"
           \/ reported'[p] = reported[p] /\ template = templates[p]
        /\ \A q \in Observed \ {p} : reported'[q] = reported[q]
        /\ reported' = [q \in Observed |-> reported'[q]]
    BY <1>1 DEF RolloutInv, Functions
  <1>10. TypeOK'
    <2>1. \A q \in Observed :
              /\ templates'[q] \in [Annotated[q] -> Nat]
              /\ reported'[q] \in {"outdated", "progressing", "complete"}
              /\ \A pod \in pods[q] : pod \in Pods(q)
      BY <1>7, <1>8, <1>9 DEF RolloutInv, TypeOK
    <2> QED BY <1>1, <1>3, <1>5, <2>1 DEF RolloutInv, TypeOK, Pods
  <1>11. Functions'
    BY <1>1, <1>8, <1>9 DEF RolloutInv, Functions
  <1>12. AgeInv'
    <2>1. ASSUME NEW q \in Observed, NEW x \in Inputs[q]
          PROVE  templates'[q][x] <= stored[x]
      <3>1. CASE q = p
        <4>1. stored[x] \in Nat
          BY ContentNumbers, ObservedParts DEF RolloutInv
        <4>2. templates'[q][x] = stored[x]
          BY <1>6, <1>8, <3>1
        <4> QED BY <4>1, <4>2
      <3>2. CASE q # p
        BY <1>8, <3>2 DEF RolloutInv, AgeInv
      <3> QED BY <3>1, <3>2
    <2>2. \A pod, x : PodAge(pod, x)' = PodAge(pod, x)
      BY <1>1 DEF PodAge
    <2> QED BY <1>1, <1>3, <1>5, <2>1, <2>2 DEF RolloutInv, AgeInv
  <1>13. DoneInv'
    <2> SUFFICES ASSUME NEW i \in DOMAIN Calls, i < at'
                 PROVE  /\ \A x \in InputObjects :
                              Calls[i] = Put(x) => stored[x] = Written(x)
                        /\ \A q \in Observed : Calls[i] = Put(Deployment(q)) =>
                              \A x \in Inputs[q] : templates'[q][x] = Written(x)
      BY <1>1, <1>5 DEF DoneInv
    <2>1. CASE i < at
      <3>1. /\ \A x \in InputObjects : Calls[i] = Put(x) => stored[x] = Written(x)
            /\ \A q \in Observed : Calls[i] = Put(Deployment(q)) =>
                  \A x \in Inputs[q] : templates[q][x] = Written(x)
        BY <1>3, <2>1 DEF RolloutInv, DoneInv
      <3> QED BY <1>6, <1>8, <3>1
    <2>2. CASE i = at
      <3>1. \A x : Calls[i] = Put(x) => x = Deployment(p)
        BY <1>4, <2>2 DEF Put
      <3>2. Deployment(p) \notin InputObjects
        BY ObservedParts
      <3>3. \A q \in Observed : Deployment(q) = Deployment(p) => q = p
        BY Distinct
      <3> QED BY <1>6, <1>8, <3>1, <3>2, <3>3
    <2>3. CASE /\ Calls[i].object \notin InputObjects
               /\ \A q \in Observed : Calls[i].object # Deployment(q)
      BY <2>3 DEF Put
    <2> QED BY <1>1, <1>3, <2>1, <2>2, <2>3, Forward
  <1>14. CleanInv'
    <2>1. ASSUME NEW q \in Observed, reported'[q] = "complete" PROVE Clean(q)'
      <3>1. reported[q] = "complete" /\ templates'[q] = templates[q]
        BY <1>8, <1>9, <2>1
      <3>2. Clean(q)
        BY <3>1 DEF RolloutInv, CleanInv
      <3> QED BY <1>1, <3>1, <3>2 DEF Clean
    <2> QED BY <1>1, <1>3, <2>1 DEF CleanInv
  <1> QED BY <1>10, <1>11, <1>12, <1>13, <1>14 DEF RolloutInv

LEMMA CheckStep ==
    ASSUME RolloutInv, CheckDeployment \/ CheckFails PROVE RolloutInv'
  <1>1. /\ at - Len(Calls) \in DOMAIN Checked /\ Proceed
        /\ allReady' \in BOOLEAN
        /\ allReady' => allReady /\ reported[Checked[at - Len(Calls)]] = "complete"
        /\ faults' \in Nat
        /\ UNCHANGED <<tokens, release, queue, fetched, ready, stored, templates,
                       reported, pods>>
    <2>1. /\ at - Len(Calls) \in DOMAIN Checked /\ Proceed
          /\ UNCHANGED <<tokens, release, queue, fetched, ready, stored, templates,
                         reported, pods>>
      BY DEF CheckDeployment, CheckFails, workload, cluster
    <2>2. faults' \in Nat
      BY DEF CheckDeployment, CheckFails, Fault, RolloutInv, TypeOK
    <2>3. \/ allReady' = (allReady /\ reported[Checked[at - Len(Calls)]] = "complete")
          \/ allReady' = FALSE
      <3>1. CASE CheckDeployment
        BY <3>1 DEF CheckDeployment
      <3>2. CASE CheckFails
        BY <3>2 DEF CheckFails
      <3> QED BY <3>1, <3>2
    <2>4. allReady' \in BOOLEAN
      BY <2>3, Zenon
    <2>5. allReady' => allReady /\ reported[Checked[at - Len(Calls)]] = "complete"
      BY <2>3, Zenon
    <2> QED BY <2>1, <2>2, <2>4, <2>5
  <1>2. at \in 0 .. LastCall + 1
    BY DEF RolloutInv, TypeOK
  <1>3. at \in 0 .. LastCall /\ at > Len(Calls) /\ at > 0
    BY <1>1, <1>2, RolloutCalls, RolloutChecks
  <1>4. at' \in 0 .. LastCall + 1 /\ at' > 0
    BY <1>1, <1>3, Forward, RolloutChecks
  <1>5. \A o : Newest(o)' = Newest(o) /\ Written(o)' = Written(o)
    BY <1>1 DEF Newest, Written
  <1>6. TypeOK' /\ Functions'
    BY <1>1, <1>4, <1>5 DEF RolloutInv, TypeOK, Functions, Pods
  <1>7. AgeInv'
    BY <1>1, <1>3, <1>5 DEF RolloutInv, AgeInv, PodAge
  <1>8. DoneInv'
    <2>1. \A i \in DOMAIN Calls : i < at
      BY <1>3, RolloutCalls
    <2> QED BY <1>1, <1>3, <1>5, <2>1 DEF RolloutInv, DoneInv
  <1>9. CleanInv'
    <2>1. \A p \in Observed : Clean(p)' <=> Clean(p)
      BY <1>1 DEF Clean
    <2>2. ASSUME allReady', NEW p \in Observed, NEW i \in DOMAIN Checked,
                 Checked[i] = p, Len(Calls) + i < at'
          PROVE  Clean(p)
      <3>1. CASE Len(Calls) + i < at
        BY <1>1, <1>3, <2>2, <3>1 DEF RolloutInv, CleanInv
      <3>2. CASE Len(Calls) + i = at
        <4>1. at - Len(Calls) = i
          BY <3>2, RolloutCalls, RolloutChecks
        <4> QED BY <1>1, <2>2, <4>1 DEF RolloutInv, CleanInv
      <3> QED BY <1>1, <1>3, <2>2, <3>1, <3>2, Forward
    <2> QED BY <1>1, <1>4, <2>1, <2>2 DEF RolloutInv, CleanInv
  <1> QED BY <1>6, <1>7, <1>8, <1>9 DEF RolloutInv

\* At the end of an installation, the templates have the stored contents.
LEMMA FinishStep == ASSUME RolloutInv, Finish PROVE RolloutInv'
  <1>1. /\ at = LastCall + 1 /\ at' = 0 /\ ready' = allReady /\ allReady' = allReady
        /\ queue' \in {"no", "timer", "now"}
        /\ UNCHANGED <<tokens, release, fetched, workload, cluster, faults>>
    BY DEF Finish, LookAgain
  <1>2. /\ release \in Nat /\ release <= release /\ faults \in Nat
        /\ allReady \in BOOLEAN
    BY DEF RolloutInv, TypeOK
  <1>3. \A i \in DOMAIN Calls : i < at
    BY <1>1, RolloutCalls, RolloutChecks
  <1>4. \A i \in DOMAIN Checked : Len(Calls) + i < at
    BY <1>1, RolloutCalls, RolloutChecks
  <1>5. at > 0
    BY <1>1, RolloutChecks
  <1>6. ASSUME allReady, NEW p \in Observed
        PROVE  Clean(p) /\ \A o \in Inputs[p] : templates[p][o] = stored[o]
    <2>1. Clean(p)
      <3>1. PICK i \in DOMAIN Checked : Checked[i] = p
        BY RolloutChecks, ObservedParts
      <3> QED BY <1>4, <1>5, <1>6, <3>1 DEF RolloutInv, CleanInv
    <2>2. PICK i \in DOMAIN Calls : Calls[i] = Put(Deployment(p))
      BY RolloutCalls, ObservedParts DEF Has
    <2>3. \A o \in Inputs[p] : templates[p][o] = Written(o)
      BY <1>3, <1>5, <2>2 DEF RolloutInv, DoneInv
    <2>4. ASSUME NEW o \in Inputs[p] PROVE stored[o] = Written(o)
      <3>1. Before(Calls, Put(o), Put(Deployment(p)))
        BY RolloutCalls, ObservedParts DEF InputsFirst
      <3>2. PICK j \in DOMAIN Calls : Calls[j] = Put(o)
        BY <2>2, <3>1 DEF Before
      <3>3. o \in InputObjects
        BY ObservedParts
      <3> QED BY <1>3, <1>5, <3>2, <3>3 DEF RolloutInv, DoneInv
    <2> QED BY <2>1, <2>3, <2>4
  <1>7. ready' \in BOOLEAN /\ release' \in Nat /\ release <= release' /\ faults' \in Nat
    BY <1>1, <1>2
  <1> QED BY <1>1, <1>6, <1>7, RestStep

LEMMA InterruptStep ==
    ASSUME RolloutInv, CallFails \/ StatusFails \/ Restart PROVE RolloutInv'
  <1>1. /\ at' = 0 /\ queue' = "now" /\ allReady' = allReady
        /\ UNCHANGED <<tokens, fetched, workload, cluster>>
    BY DEF CallFails, StatusFails, Restart
  <1>2. faults' \in Nat
    BY DEF CallFails, StatusFails, Restart, Fault, RolloutInv, TypeOK
  <1>3. release' \in Nat /\ release <= release'
    <2>1. release \in Nat
      BY DEF RolloutInv, TypeOK
    <2> QED BY <2>1 DEF CallFails, StatusFails, Restart
  <1>4. ready' \in BOOLEAN
    <2>1. ready \in BOOLEAN
      BY Zenon DEF RolloutInv, TypeOK
    <2>2. ready' = ready \/ ready' = FALSE
      BY DEF CallFails, StatusFails, Restart
    <2> QED BY <2>1, <2>2, Zenon
  <1> QED BY <1>1, <1>2, <1>3, <1>4, RestStep

LEMMA NextRollout == RolloutInv /\ [Next]_vars => RolloutInv'
  <1> SUFFICES ASSUME RolloutInv, [Next]_vars PROVE RolloutInv'
    OBVIOUS
  <1>1. CASE Reconcile
    BY <1>1, BeginStep, WriteInputStep, WriteDeploymentStep, CheckStep, FinishStep
       DEF Reconcile
  <1>2. CASE CallFails \/ CheckFails \/ StatusFails \/ Restart
    BY <1>2, CheckStep, InterruptStep
  <1>3. CASE \E c \in Clusters : Rotate(c)
    BY <1>3, RotateStep
  <1>4. CASE \E p \in Observed : Deploys(p) \/ Report(p) \/ LosePod(p)
    BY <1>4, CreateStep, StartStep, RemovalStep, ReportStep DEF Deploys
  <1>5. CASE UNCHANGED vars
    <2>1. UNCHANGED <<tokens, release, queue, at, fetched, allReady, ready, stored,
                      templates, reported, pods, faults>>
      BY <1>5 DEF vars, worker, workload, cluster
    <2>2. \A o : Newest(o)' = Newest(o) /\ Written(o)' = Written(o)
      BY <2>1 DEF Newest, Written
    <2>3. TypeOK' /\ Functions'
      BY <2>1, <2>2 DEF RolloutInv, TypeOK, Functions, Pods
    <2>4. AgeInv' /\ DoneInv' /\ CleanInv'
      BY <2>1, <2>2 DEF RolloutInv, AgeInv, DoneInv, CleanInv, Clean, PodAge
    <2> QED BY <2>3, <2>4 DEF RolloutInv
  <1> QED BY <1>1, <1>2, <1>3, <1>4, <1>5 DEF Next

LEMMA RolloutInvCorrect == Spec => []RolloutInv
  BY InitRollout, NextRollout, PTL DEF Spec

(***************************************************************************)
(* The variables of the rollout keep their types; in particular no stored  *)
(* content is newer than what there is.                                    *)
(***************************************************************************)
THEOREM RolloutTypeCorrect == Spec => []TypeOK
  <1>1. RolloutInv => TypeOK
    BY DEF RolloutInv
  <1> QED BY <1>1, RolloutInvCorrect, PTL

(***************************************************************************)
(* ReadyRunsOnWhatIsStored: when the status says Ready and only the timer  *)
(* is pending, every pod that runs has started with the stored secrets,    *)
(* for any observed deployments and any number of rotations, releases,     *)
(* failing calls, restarts and lost pods (templateAnnotations and          *)
(* CheckReadiness of the installers).                                      *)
(***************************************************************************)
THEOREM ReadyCorrect == Spec => []ReadyRunsOnWhatIsStored
  <1>1. RolloutInv => ReadyRunsOnWhatIsStored
    <2> SUFFICES ASSUME RolloutInv, ready, at = 0, queue # "now",
                        NEW p \in Observed, NEW pod \in pods[p], pod.up,
                        NEW o \in Inputs[p]
                 PROVE  pod.loaded[o] = stored[o]
      BY DEF ReadyRunsOnWhatIsStored
    <2>1. Clean(p) /\ templates[p][o] = stored[o]
      BY DEF RolloutInv, CleanInv
    <2>2. pod.template[o] = stored[o]
      BY <2>1 DEF Clean
    <2>3. pod.template[o] <= pod.loaded[o] /\ pod.loaded[o] <= stored[o]
      BY DEF RolloutInv, AgeInv, PodAge
    <2>4. pod.loaded[o] \in Nat /\ stored[o] \in Nat
      BY ContentNumbers, ObservedParts DEF RolloutInv, TypeOK, Pods
    <2> QED BY <2>2, <2>3, <2>4
  <1> QED BY <1>1, RolloutInvCorrect, PTL
=============================================================================
