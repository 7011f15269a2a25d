# Verification of the service provider for Landscapers

TLA+ models of the controller in this repository, model-checked with TLC and,
for the central safety properties, proved with TLAPS.  Paths are relative to the
root of the repository.

## 1. The system

The provider runs on the *platform cluster*.  A user creates a `Landscaper`
resource on the *onboarding cluster*; the provider requests access to the
*MCP cluster* and to a *workload cluster*, installs a Landscaper instance there
and removes it again when the resource is deleted.

| Component | Where | State | Operations |
| --- | --- | --- | --- |
| Landscaper reconciliation | `internal/controller/reconcile.go` | none of its own: the resource (finalizer, annotation, id label, status), access requests, clusters | `handleCreateUpdateOperation`, `handleDeleteOperation` |
| Reconcile status | `internal/controller/status.go` | one record per reconciliation | setters, `convertToLandscaperStatus` |
| Choice of the provider config | `reconcile.go`, `api/v1alpha2/providerconfiguration_types.go` | `status.providerConfigRef` | `getProviderConfigForLandscaper`, `IsVersionAvailable` |
| Event sources | `internal/controller/landscaper_controller.go` | work queue and event streams (controller-runtime) | watch on Landscapers; handlers for provider configs, pull secrets, CA bundles |
| DNS and TLS route | `internal/dns/dns.go` | the `TLSRoute`; reads the gateway | `ReconcileGateway`, `ReconcileTLSRoute`, `IsTLSRouteReady`, `DeleteTLSRoute` |
| Instance installers | `internal/installer/...` | the objects of the instance | `InstallLandscaperInstance`, `UninstallLandscaperInstance` and the functions per component |
| Readiness checks | `internal/installer/.../installer.go` | - | `CheckReadiness` of the instance and of each component |
| Contents of the installed objects | `internal/installer/.../deployment*.go`, `hpa*.go`, ... | - | the objects, their pod templates with checksums, update strategy |
| Image pull secret sync | `internal/shared/imagepullsecrets` | copies on the workload cluster | `CreateOrUpdate`, `Delete` |
| CA bundle sync | `internal/shared/configmaps` | copies on the workload cluster | `CreateOrUpdate`, `Delete` |
| Instance identity | `internal/shared/identity` | the label on the resource | `GetInstanceID`, `SetInstanceID`, `ComputeInstanceID` |
| Cluster access | library of the platform (not in this repository) | access requests, tokens | `Reconcile`, `ReconcileDelete`, `MCPCluster`, `WorkloadCluster` |
| Process start | `cmd/service-provider-landscaper/app` | the lease of the leader election | `run`: start, lead, stop; `init` |
| API types, values | `api`, `values.go` | - | data and defaults |

The parts interact through API servers only.  The controller keeps nothing in
memory between two reconciliations, so the hard behaviours are those of a
program that is interrupted between any two calls and starts again from what
it finds:

- the user edits or deletes the resource while a handler works on a copy;
- a call fails or the process stops half-way through installation,
  uninstallation or the release of the access requests, and another process
  goes on with what it finds;
- requests, gateway, route and rollout become ready, and tokens are rotated,
  without an event that the controller would see, so it depends on its own
  requeues;
- provider configs, pull secrets and CA bundles change at any moment; their
  handlers work on lists that grow old while they annotate;
- the gateway is read twice in one reconciliation and may differ;
- secrets, pod templates and pods are three things that change at three times;
- deletion depends on things that somebody else may delete first.

What makes each component correct: the reconciliation never leaves an
installation behind that it has no finalizer for or no access to, tells the
truth in the status, forgets no work, and terminates; the installers order their
calls so that a deployment always has what it mounts, and report success only
for complete work; the syncs bring the latest contents to the workload cluster
and take them away in the end; the event handlers reach every Landscaper that a
change concerns; server and route end up with one host name; a ready instance
runs on what was installed; two processes do not work on one resource.

`PROJECT.json` lists the components with their status and the hazards at their
lines, with the properties that watch over them.

## 2. The modules

```
LandscaperLifecycle          Installation              (both abstract)
      ^    ^                   ^     ^
      |    |  refine           |     |
      |  LandscaperReconciler -+    Installer     Rollout
      |        |                         \        /
      |        +-- ReconcileStatus      InstanceObjects
      |        |     (the record it fills in)
      |        +-- InstanceLabel
      |        |     (extends it: a user removes the id label)
      +------- +-- Processes
                     (extends it: two workers and a lease)

EventHandlers, HostNames: the same worker, reduced to the calls that matter for
one question, next to everybody else who takes part in it.
```

Each `MC...` module gives one of them its constants for TLC.  The theorems are in
the `...Proofs` modules, which extend what they are about and each other:

```
LandscaperReconcilerProofs       types, SafetyInv, wakeups, what a step may not
   ^                             do, refinement of the life cycle
LandscaperStatusProofs           status, refinement of the installation, label,
   ^                             changes of configs
ProcessesProofs                  the same facts for each of two workers
EventHandlersProofs
HostNamesProofs
InstanceObjectsProofs               lemmas on the lists of calls
   ^  InstallerProofs,  RolloutProofs
```

**`ReconcileStatus`** is `status.go`: the record, one operator per setter (with
the reasons the code uses, also where it reuses one), and the conversion.

**`LandscaperReconciler`** is the core: one Landscaper, the work queue, and one
worker whose position `pc` is the next API call of `reconcile()`.  One action is
one call with the local code up to the next one.

| State | Code |
| --- | --- |
| `ls` | the stored resource: deletion timestamp, finalizers, annotation, id label, spec, generation, status |
| `queued` | its key in the work queue: at once, after a timer (`RequeueAfter`), or not |
| `requests` | the access request for each of the two clusters |
| `components`, `rolledOut`, `route`, `caCopies` | what is on the MCP and the workload cluster |
| `applied` | history: the provider config of the last complete installation |
| `gateway`, `providerConfigs`, `configEvents` | the platform: default gateway, configs, undelivered watch events |
| `pc`, `obj`, `oldStatus`, `st`, `cfg`, `res` | the local variables of `reconcile()` and its handlers |
| `fresh` | the `resourceVersion` in `obj` is the stored one: an `Update` succeeds if and only if `fresh` |

`Get` .. `Finish` are `reconcile()`; `EnsureFinalizer` .. `CheckReadiness` are
`handleCreateUpdateOperation`; `GetProviderConfig("getProviderConfigD", ..)` ..
`RemoveFinalizer` are `handleDeleteOperation`.  `CallFails`, `InstallerFails`,
`ReconcileDeleteFails`, `HandlerFails` and `Crash` are the error paths.
`User` and `Environment` are everybody else.  Three details of the code matter
and are modelled as they are: the annotation is removed by a merge patch, which
succeeds on any version of the resource and refreshes the worker's copy; the
status is not written when it equals the one found; a request that does not
exist counts as being deleted.

**`LandscaperLifecycle`** is what the controller promises, in five variables:
resource, protection, access, usable access, instance.  `ImplementsLifecycle` is
the refinement.

**`InstanceLabel`** adds one action to the core: a user removes the id label, which
nothing protects.

**`Processes`** has two copies of the core's worker (the variables of the core and
`pc2`, `obj2`, ...; `Second == INSTANCE LandscaperReconciler WITH ...`) that share
resource, requests and clusters, and the life of the two processes: `running`,
`active` (controllers started), `lease`.  `StartProcess`, `Lead`, `Stop`
(orderly, releases the lease), `Kill` (does not) and `LeaseExpires` are `run.go`
and the election it configures; `FirstIsTold` / `SecondIsTold` is what a write of
the one does to the copy and the queue of the other; `FirstIsRefused` /
`SecondIsRefused` is a call with an access that the other one has given back.

**`EventHandlers`** is `landscaper_controller.go` for several Landscapers.  Each
of the three watches has its undelivered `events` and a handler, whose steps are
its calls: is the object in use (`LookInProvider`, `LookInConfigs`), list the
Landscapers (`List`), annotate one (`Annotate`).  What is left to do is fixed by
the list, as in the code; the error paths (`LookupFails`, `AnnotationRefused`, a
Landscaper deleted since the list) differ between the handlers like there
(`AfterError`).  The worker has the calls that read watched objects
(`CheckReconcileAnnotation`, `GetProviderConfig`, `RecordRef`,
`CreateConfigAndSyncCA`, `SyncSecrets`) and those whose writes may conflict.
`missed` is history: who was not told of a change.

**`HostNames`** is `dns.go`: the reading for the server (`ReconcileGateway`,
`Install`), the reading for the route (`ReconcileTLSRoute`), `CreateOrUpdate` as
its two calls (`GetRoute`, `WriteRoute`, with a conflict), `IsTLSRouteReady`,
`DeleteTLSRoute`; and the gateway, edited by its operator, with a controller that
decides on routes whenever it gets to it.

**`InstanceObjects`** lists the objects of an instance and the calls that write
and delete them, as lists built like in the code from one list per component.
**`Installer`** makes these calls one at a time, abandons an operation at the first
error and starts again with the settings of that time; it contains the pull
secret sync.  **`Installation`** is what an installation promises: the order of the
components, that each may be left "mixed", and that success is reported only for
complete work.  The two levels of detail meet there.  `Installer` implements it
call by call (`ImplementsInstallation`), and the core, for which the installation
of a component is one step, implements it with the order, the conditions and the
error paths of `reconcile()` (`InstallsInOrder`; `Operation` and `Reported` read
from position and status what is under way and what is claimed).  Without the
second refinement the first would say nothing about what the core assumes.

**`Rollout`** follows credentials and configuration to the pods: the worker fetches
the `tokens` (`Begin`), goes through the calls of `InstanceObjects`, of which it
makes those that concern the observed deployments (`WriteInput`, `WriteDeployment` with the checksums of
`templateAnnotations`), checks readiness deployment by deployment
(`CheckDeployment`) and writes the status (`Finish`).  `CreatePod`, `StartPod`,
`StopOldPod` and `Report` are the deployment controller and the kubelet, with the
strategy that `strategy()` chooses.

A definition with a suffix (`StoreInstanceID_LocalOnly`) and the comment
"Mutant" is a deliberately wrong form of the definition next to it; it is not
used by the specification and documents which mistake a property catches.

## 3. What is checked

| Run | Checks | Bounds | States |
| --- | --- | --- | --- |
| `lifecycle` | `TypeOK`, `SafetyInv`, `NoOrphans`, `UninstallBeforeRelease`, `StatusIsTruthful`, `NoLostWakeup`, `NoRecreateRequests`, `TerminatingIsFinal`, `ImplementsLifecycle`, `InstallsInOrder` | 2 versions, 1 config, 3 user operations, 1 fault, with and without a foreign finalizer | 1.2 million |
| `progress` | `DeletionCompletes`, `Converges`, `ConfigIsApplied` | 1 version, 1 config with 3 contents, up to 2 user operations, 1 edit, 1 fault, together at most 3 of these | 480 000 |
| `config` | `ConfigChangesAreNoticed`, `LabelComesBack` | 2 configs with 3 contents each, 2 edits, 2 user operations (also removal of the label), no faults | 1.8 million |
| `leader` | `ProcessesTypeOK`, `NoOrphans`, `OneAtWork`, `HandoverKeepsTheKey`, `ImplementsLifecycle`, `SomebodyCompletesDeletion` | 2 processes, 1 orderly or sudden end, restarts, 2 user operations | 335 000 |
| `events` | `TypeOK`, `ChangesReachEverybody`, `NothingIsMissedForGood` | 1 or 2 Landscapers, 1 config, secret and bundle; nine combinations of two or three disturbances (`MCScenarios`), each at most once | 490 000 |
| `host_names` | `TypeOK`, `RouteHasServer`, `HostNamesSettle`, `DeletionNeedsNoGateway` | 2 domains, 4 edits of the gateway, 1 failing call | 9 500 |
| `installer` | `TypeOK`, `DeploymentsHaveTheirInputs`, `ImplementsInstallation`, `SecretsArePropagated`, `UninstallCompletes` | 2 settings (different version and pull secrets), 1 secret with 2 contents, 3 changes, 1 fault | 460 000 |
| `rollout` | `TypeOK`, `ReadyRunsOnWhatIsStored`, `OneControllerAtATime`, `NewTokensReachThePods` | 2 deployments (main, webhooks), 1 rotation, 2 releases, 1 fault | 210 000 |

The core and its processes:

- `NoOrphans`: no component, route or request without the finalizer.
- `UninstallBeforeRelease`: as long as anything is installed, both requests are
  granted.
- `StatusIsTruthful`: Installed, Ready and Uninstalled, when they speak of the
  current generation, describe what is on the clusters.
- `NoLostWakeup`: a resource that needs the controller is in the queue or being
  reconciled.
- `NoRecreateRequests`: the delete path creates no request, and none is created
  while one is being deleted.
- `TerminatingIsFinal`: a slow reconciliation does not overwrite Terminating.
- `InstallsInOrder`: components come and go in their order and in one version, and
  Installed or Uninstalled is said only when that is complete, in spite of
  failures, crashes and edits in between.
- `ConfigChangesAreNoticed`, `ConfigIsApplied`: an edit of the provider config
  reaches the instance at once if the event is handled, and after the periodic
  reconciliation at the latest.
- `LabelComesBack`: a removed id label is back in the stored resource before the
  instance rests, also if it is removed during a reconciliation.
- `DeletionCompletes`, `Converges`: progress, as soon as what the code needs from
  outside is there.
- `OneAtWork`: with leader election two workers are never busy at once.
- `HandoverKeepsTheKey`, `SomebodyCompletesDeletion`: the successor has what its
  predecessor left half done in its queue, and a deletion completes across
  processes.  `NoOrphans` and `ImplementsLifecycle` hold there as well.

Around them:

- `ChangesReachEverybody`: when all events have been handled, every Landscaper that
  rests has the present config, secrets and bundle, except those in `missed`: the
  ones that the code gives up at an error, and nobody else.
- `NothingIsMissedForGood`: the timer of a ready instance makes up for those, and
  for edits of the `ServiceProvider`, which nobody watches.
- `HostNamesSettle`: if the domain stays, server and route end up with it and
  the route is accepted for it, however the readings fell.
- `RouteHasServer`: the route, which makes the server public, exists only while
  there is a server, and a Landscaper that is gone has left neither.
- `DeletionNeedsNoGateway`: the deletion completes on a cluster without gateway.
- `DeploymentsHaveTheirInputs`: no deployment without the secrets it mounts and
  the pull secrets it refers to, also in the middle of an operation.
- `SecretsArePropagated`, `UninstallCompletes`: the latest pull secrets reach every
  deployment; an uninstallation whose pull secrets exist completes.
- `ReadyRunsOnWhatIsStored`: when the status says Ready and only the timer is
  under way, every pod that is up has started with what is stored, although pods
  may start, be lost and be reported on between any two calls.
- `OneControllerAtATime`: no two templates of a controller or deployer have pods at
  the same time.
- `NewTokensReachThePods`: a rotated token, of which nobody tells the
  controller, reaches the pods by way of the timer.

**Why the bounds are enough.**  In the core three user operations allow create -
edit - delete, create - delete - create again, and an annotation in between; one
fault hits each call of each handler, and the retry after it runs through the
whole handler again, so every pair "partly done - done again" occurs.  The
controller has no memory across reconciliations: a second fault meets it in a
state that also one fault can produce, apart from combinations of two half-done
components, which the invariant proved below covers for any number of faults.
Two configs are needed because the reference can move from one to the other; a
third would play the role of one of the two.  The constraint `AtMostThree` of
`progress` cuts off only steps of the user, the operator and failures, of whom no
fairness is assumed, so it hides no behaviour of the system itself after such
steps.  One end of a process allows each handover at each call; a second one
would be a handover of the same kind, and `OneAtWork` is proved for any number.
With two Landscapers a handler has one in front of and one behind any event; the
scenarios pair each change with each obstacle that the handlers treat, since three
at once on two Landscapers exceed what can be enumerated.  Four edits of the
gateway allow removal and return between the two readings and after them.  Three
changes in the installer allow an upgrade, a rotation and a deletion.  In
`rollout` a rotation and a release are two changes of overlapping inputs of one
deployment, and main and webhooks are the two strategies and the two sets of
checksums that share an input.

**Violations.**  Four runs show where the code does something else than a comment,
the README or a test says (quoted in `PROJECT.json`):

- `ca_copies`: the delete path removes the copy of the CA bundle that is
  referenced *now*; earlier ones stay.
- `default_config`: a Landscaper whose `spec.providerConfigRef` was removed keeps
  the config in its status instead of the default one.
- `pull_secrets`: `SecretSync.Delete` deletes by the name of the source; the
  copies have another name and stay.  The namespace they are in is never deleted on
  the workload cluster either, so it does not take them along.  The controller test
  does not see it, since both clusters are the same fake cluster there.
- `stale_acceptance`: after a change of the base domain `IsTLSRouteReady` answers
  with the acceptance of the former host name.  It is transient: see
  `HostNamesSettle`.

`NoOrphans` therefore speaks of components, route and requests, and leaves the CA
copies, pull secret copies and workload namespace to these runs.

**Weak spots without a run of their own.**  They are visible in the models, and
other parts of the code limit their effect:

- `mapProviderConfigToRequests` drops the event at an error, and returns at the
  first Landscaper that was deleted since the list, so those behind it are left
  out (`landscaper_controller.go:161`); the other two handlers go on.  This is
  exactly what `missed` records, and the ten minute timer repairs it.
- Without `--leader-elect`, the default, two processes can work on one resource:
  with `MayLead_NoElection` TLC finds two busy workers.
- A deletion while the id label is missing looks for the installation under the
  empty id, finds nothing and releases the resource: `NoOrphans` does not hold of
  `LabelSpec` (`reconcile.go:378`).

**Fairness.**

- Core: weak fairness of the worker (controller-runtime takes keys from the queue,
  and returns them after an error or `RequeueAfter`; with one worker position
  there is one next call), of the handler of each config event, and of what the
  platform does by itself: granting and removing requests, providing the gateway,
  accepting routes, rolling out deployments, dropping the foreign finalizer.
- `Processes`: the same for each of the two workers and the surroundings; stopped
  processes are started again (a Deployment does that), an abandoned lease expires,
  and a process that may lead does.
- `EventHandlers`: weak fairness of worker and handlers, strong fairness of taking
  each key: the queue is first-in-first-out, so a key that is due again and again
  is taken in spite of the others.
- `HostNames`: worker and gateway controller.  `Installer`: the worker's calls, and
  the release after a successful uninstallation.  `Rollout`: worker, deployment
  controller and kubelet.

Nothing is assumed of users, operators, rotations or faults; all are bounded, so
after some time they have stopped.  Retries are not counted.  The premises of the
liveness properties name what the code needs from others for ever: a provider
config that can be found and offers the version, pull secrets that exist, a
gateway that keeps its domain.  Without the first one a deletion really is
blocked (`handleDeleteOperation` reads the config first), without the second one
an uninstallation is.

`CHECK_DEADLOCK FALSE` everywhere: when the budgets are spent and the resource is
gone (or resting), nothing has to happen.

## 4. What is proved

For every value of the constants (any sets of versions, configs, bundles,
Landscapers, pull secrets and deployments, any bounds), from the assumptions on
the constants that the modules state:

| Theorem | Module | Statement |
| --- | --- | --- |
| `TypeCorrect` | `LandscaperReconcilerProofs` | `Spec => []TypeOK` |
| `SafetyCorrect` | | `Spec => []SafetyInv` |
| `NoOrphansCorrect` | | `Spec => []NoOrphans` |
| `UninstallBeforeReleaseCorrect` | | `Spec => []UninstallBeforeRelease` |
| `NoRecreateCorrect` | | `Spec => NoRecreateRequests` |
| `NoLostWakeupCorrect` | | `Spec => []NoLostWakeup` |
| `TerminatingCorrect` | | `Spec => TerminatingIsFinal` |
| `LifecycleImplemented` | | `Spec => ImplementsLifecycle` |
| `StatusIsTruthfulCorrect` | `LandscaperStatusProofs` | `Spec => []StatusIsTruthful` |
| `InstallsInOrderCorrect` | | `Spec => InstallsInOrder` |
| `LabelComesBackCorrect` | | `LabelSpec => []LabelComesBack` |
| `ConfigChangesCorrect` | | `LabelSpec /\ [][~HandlerFails]_vars => []ConfigChangesAreNoticed` |
| `ProcessesTypeCorrect` | `ProcessesProofs` | `ProcessesSpec => []ProcessesTypeOK` |
| `OneAtWorkCorrect` | | `LeaderElection => (ProcessesSpec => []OneAtWork)` |
| `HandoverCorrect` | | `ProcessesSpec => []HandoverKeepsTheKey` |
| `HandoverIsSafe` | | `LeaderElection => (ProcessesSpec => []SafetyInv)` |
| `NoOrphansAcrossHandovers` | | `LeaderElection => (ProcessesSpec => []NoOrphans)` |
| `LifecycleAcrossHandovers` | | `LeaderElection => (ProcessesSpec => ImplementsLifecycle)` |
| `TruthAcrossHandovers` | | `LeaderElection => (ProcessesSpec => []StatusIsTruthful)` |
| `TerminatingAcrossHandovers` | | `LeaderElection => (ProcessesSpec => TerminatingIsFinal)` |
| `EventTypesCorrect` | `EventHandlersProofs` | `Spec => []TypeOK` |
| `ChangesReachEverybodyCorrect` | | `Spec => []ChangesReachEverybody` |
| `HostNamesTypeCorrect` | `HostNamesProofs` | `Spec => []TypeOK` |
| `RouteHasServerCorrect` | | `Spec => []RouteHasServer` |
| `OneReconciliationSuffices` | | `Spec /\ [][GatewayKeepsStill]_vars => [](worker.at = "isTLSRouteReady" => server = gateway.domain /\ route.host = gateway.domain)` |
| `ReadyMeansAcceptedInOneDomain` | | `Spec /\ []OneDomain(d) => []ReadyMeansAccepted` for each base domain `d` |
| `InstallerTypeCorrect` | `InstallerProofs` | `Spec => []TypeOK` |
| `InputsCorrect` | | `Spec => []DeploymentsHaveTheirInputs` |
| `InstallationImplemented` | | `Spec => ImplementsInstallation` |
| `RolloutTypeCorrect` | `RolloutProofs` | `Spec => []TypeOK` |
| `OneControllerCorrect` | | `Spec => []OneControllerAtATime` |
| `ReadyCorrect` | | `Spec => []ReadyRunsOnWhatIsStored` |

**Safety of the core.**  `NoOrphans` is not inductive: that removing the finalizer
is safe depends on what the worker has found out since it read the resource.
`SafetyInv` adds

- `ResourceInv`: finalizer and deletion timestamp belong to a stored resource;
- `ProtectionInv`: what is installed is under finalizer, id label and access; a
  request is under the finalizer; a request is deleted only with the resource;
- `CopyInv`: a fresh copy agrees with the stored resource in what the worker
  decides on;
- `CreateInv`, `DeleteInv`: what is known at each position of the two handlers,
  e.g. that access is granted after `clusterAccess`, that the components are
  absent one after the other while the uninstallation proceeds, and that nothing
  is left at `removeFinalizer`.

A stale copy is the point of the argument: with `~fresh` the create path may run
on a resource that is already being deleted.  That is safe because the finalizer,
once there, can only be taken away by the worker itself, which is busy.  The
proofs have a lemma per group of actions (initial state, create path, delete path,
`reconcile()`, faults, user, environment) and a step per action.

**Steps and wakeups.**  `NoRecreateRequests` follows from `SafetyInv` at the one
position that creates requests.  The rest needs `StepInv`: a fresh copy has the
content of the stored resource (`FreshInv`); Terminating is stored only for a
resource being deleted, and no worker on the create path still has a status that
could overwrite it (`PhaseInv`); neither resource nor copy loses its version
(`VersionInv`).  These three make `HeldInv`; beyond it, a worker with a stale copy
has its key in the queue again, and its result "done" means that nothing is left
to do (`WakeInv`).
To keep the case analysis small, `StepKinds` reduces the steps to kinds (Get,
Finish, a handler's step, the last finalizer, a user's or an operator's write, a
crash), which most later proofs start from.

**The life cycle.**  With the refinement mapping of `ImplementsLifecycle`, six
actions of the worker are visible: `EnsureFinalizer`, the creation of a request,
the first step that installs something, the last that removes something,
`ReconcileDelete` and `RemoveFinalizer`.  For each the proof shows the guard of
the abstract action from `SafetyInv` (e.g. that the abstract instance is gone
when the request is given back); everything else the worker does maps to a
stutter, and the steps of user and platform to theirs.

**Status.**  `TruthInv` has three parts: the generations of status, copy and
resource are ordered, and equal ones have equal specs (`GenerationInv`); at each
position of the installation what lies behind is installed in the version of
the copy, and nothing is claimed before the end (`ProgressInv`); the stored status
is true (`ClaimInv`).  The interesting case is a copy of an earlier resource of
the same name (`ReadStored` excludes it): it passes only `EnsureFinalizer`, whose
update is refused.

**Installation, as the reconciliation carries it out.**  `ReportInv` says when the
status may claim anything: a failed installer ends the handler at once and clears
the claim, and Uninstalled is said nowhere before the end.  From it,
`OperationInv` gives the abstract operation at each position of the worker.  Then
there is one lemma per kind of step: with `ProgressInv` and `DeleteInv` a component
has its turn when the worker comes to it (`InstallStep`, `UninstallStep`), and all
are at their goal when success is reported (`TLSRouteStep`,
`ReconcileDeleteStep`); a failure leaves one component "mixed", the end of the
handler or a crash ends the operation.

**Label and configs.**  `LabelInv` says that a removal during a reconciliation
leaves the key in the queue.  `ConfigInv` follows a config from the moment it is
read: as long as nothing but the timer is under way, the config that is being
installed, and then the one that was, either is the present one or has an
undelivered event, and is recorded in the status, by which the handler finds the
Landscaper (`NoticedInv`, `QuietInv`).  The theorem excludes `HandlerFails`,
because an event that the handler drops does lose the change until the timer is
due, and the property would be false; the run `config` has no faults for the
same reason.

**Two processes.**  `LeaseInv`: a busy worker belongs to an active process, and
only the holder of the lease is active.  The lease changes hands only when its
holder is not active (`LeaseExpires`, `Stop`), which is where the two assumptions
about leader election in section 5 enter.  `WorkerInv` is the part of `StepInv`
that a worker knows without knowing who else is at work; the lemmas about it are
used for the first worker as they stand and for the second through the instance
`Two`, so `HandoverKeepsTheKey` holds even without leader election.  For
`HandoverIsSafe` at most one of the two positions is busy, so the steps of the
other worker are steps of the core with the roles exchanged, and a takeover is
the step from a worker that crashed to one that is idle.

The three theorems on what the processes promise together use the same scheme.  A
worker at rest knows only what is in the shared part of an invariant
(`RestingKnowsTheRest`, `RestingTellsTheTruth`), so whatever one worker has
established, the other one finds when it starts.  A refused call is not a step of
the core: it ends a reconciliation with a status that claims no more than before
(`GivesUp`), which `TruthGivenUp` shows to be harmless.  With `HandoverInv` (lease,
keys and `SafetyInv` of both workers) each step of either worker refines the life
cycle, and starts and stops are stutters; `BothTruthful` carries `HeldInv` and
`TruthInv` of both.  Leader election cannot be dropped: with `MayLead_NoElection`
TLC finds `ImplementsLifecycle` and `NoOrphans` violated.

**Event handlers.**  Type correctness is proved of `Types`, which is stronger: a
handler annotates only while its list is not empty.  `KnownInv` says of each
Landscaper that is settled (exists, not being deleted, not in the queue, not in
`missed`) that what it was installed with is the present content or that an event
is `Coming`: it waits, or its handler has not read the list yet, or the Landscaper
is on the list.  `RestInv` says it of an installation at rest and `WorkInv`, per
position, of one under way, where what was read so far counts.
`AnnotationInv` is the reason why a handler may skip a Landscaper that has the
annotation: it is in the queue or the worker has not read anything yet.
Two assumptions on the constants came out of the proof: the "no reference" value
is no config and no Landscaper, and no object is both a secret and a bundle.

**Host names.**  `HasServer` adds to `RouteHasServer` what the position of the worker
says of server, route and resource: the route is written only after the server is
installed, and deleted before it is removed.  The other two theorems say where
the host names agree and where they may not.  `OneReconciliationSuffices` is the
safety half of `HostNamesSettle`: `BothReadings` follows the host name from the two
readings to the server and the route while the gateway changes only when the worker
is idle (`GatewayKeepsStill`); the liveness half is that such a reconciliation
comes and that the route is then accepted.  `ReadyMeansAcceptedInOneDomain`
delimits the violation that the run `stale_acceptance` shows: as long as the
annotation, when it is there, names one domain (`OneDomain`, with the invariant
`Only`), Ready does mean accepted, so the change from one domain to another is the
only cause.

**Installer.**  The lists of calls are functions of the settings, with a part of
any length per pull secret list.  `InstanceObjectsProofs` proves their order for
all settings: `InstalledInOrder` (the inputs of a deployment and its copies come
before it) and `UninstalledInOrder` (the deployment goes before its inputs, also
if the error of the Helm deployer's pull secrets is dropped and the rest of that
component's calls are skipped).  The invariant is then what the calls behind the
operation have done (`Written`, with the version, and `Removed`).

For `InstallationImplemented`, `InstalledByComponent` and `UninstalledByComponent`
say of the lists that they touch every object of every component, and no object
of a component before they are through with the ones that come first; the steps
are joined from four blocks (`FourBlocks`).  With the invariant, the components
before the next call's are then at their goal, which is the guard of the abstract
`Work`.  An object that already has its value, the workload namespace and the
calls for pull secrets are stutters, and so is a dropped error; every other end of
an operation is `Fail` or `Succeed`.

**Rollout.**  `OneControllerAtATime` needs `PodsInv`, which adds the shape of
`pods`: a pod of a recreated deployment is created only when all its pods have the
present template, and a changed template changes no pod.  For
`ReadyRunsOnWhatIsStored` the contents are numbered in the order they came to
be, and the invariant is: a template is never newer than what is stored, and a pod
that is up has loaded something between the two (`AgeInv`); the calls behind the
worker have written what it fetched (`DoneInv`); a report "complete", a passed
check and a resting Ready mean that all pods have the present template, and they
go on meaning it when pods are lost and replaced (`CleanInv`).  At the end template
and store agree, so nothing lies between them.

Only model-checked: the ten liveness properties, because the prover handles neither
fairness nor `ENABLED`: `DeletionCompletes`, `Converges`, `ConfigIsApplied`,
`SomebodyCompletesDeletion`, `NothingIsMissedForGood`, `HostNamesSettle`,
`DeletionNeedsNoGateway`, `SecretsArePropagated`, `UninstallCompletes` and
`NewTokensReachThePods`.  Every invariant and every action property of a passing run
is proved.

## 5. Assumptions and what is not modelled

Assumptions about the surroundings:

- One worker per key (controller-runtime guarantees it within a process).  A leader
  renews its lease or ends before it expires; a process that is told to stop has
  cancelled its worker before it releases the lease.
- Reads see what was written: `Run` adds only the platform cluster to the manager,
  and uses both clients before it starts, so neither client reads from a cache.
  Events, which do come from caches, only put the key into the queue.
- Nobody but the controller removes its finalizer or deletes access requests;
  granted access is not revoked while the request exists.  In `Processes`, calls
  with an access that was given back fail.  Two library objects per cluster
  (cluster request and access request) are one request.
- Nobody but a user of `InstanceLabel` removes the id label, and nobody replaces it
  by another one.  The id is a function of namespace and name.
- The list of default provider configs has no order: any of them may be the first.
- A watch delivers each event at least once to a process that runs; a new process
  gets one for every object.

Simplifications:

- In the core the readiness of the five deployments is one flag (`Rollout` has
  them one by one), an installer call that fails leaves its component "mixed"
  (`Installer` looks into it), a failing read has the effect of a failing call, and
  the host name is left to `HostNames`.
- In the installer: the registry secret is left out (never configured: no caller
  sets `OCI`); webhooks are never disabled (no caller sets `DisableWebhooks`); the
  two controllers share one list of pull secrets, as they share the image
  configuration.
- In `EventHandlers` pull secrets of all components are one list, and source and
  copy of a CA bundle are read and written in one step.
- In `Rollout` the minimum and the maximum of each HPA are equal (1, and 2 for the
  webhooks server): the code sets the minimum, and the maximum is left to its
  default by every caller but tests.  So the HPA never resizes what the installer
  writes.  The kubeconfig of the webhooks is written but mounted by no
  deployment.  The CA bundle is mounted, but none of the checksums covers it;
  whether a process reads it again is up to code outside of this repository.

Not modelled:

- `values.go` and other defaults: functions of the settings without state; nothing
  above depends on their results.
- Arguments, environment, resources, probes, RBAC rules and other contents of the
  manifests: data without control flow.
- Flags, schemes, certificates and logging of `cmd`, and the `init` command: start-up
  code that runs once, in one order, and ends in a running manager, in installed
  CRDs or in an exit.
- Generated code (`zz_generated.deepcopy.go`), the text of messages, times.

## 6. Plan

Done: the core with status, abstract life cycle, label and a second process; the
event handlers; host names; the installers with their abstraction, which the core
implements as well; rollout and readiness; type correctness and all safety
properties of these, and the refinements of the installation and of the life
cycle, the latter also across handovers.

Left: the liveness properties, for a prover that treats fairness, and the two known
gaps of section 5 that the models leave open, the order of default provider configs
and the CA bundle that no checksum covers.
