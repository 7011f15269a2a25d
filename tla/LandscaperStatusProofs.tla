----------------------- MODULE LandscaperStatusProofs -----------------------
(***************************************************************************)
(* What the status of a Landscaper says is true, an instance is installed  *)
(* and uninstalled in order, the instance label comes back, and no change  *)
(* of a provider config is missed, for every value of the constants.       *)
(***************************************************************************)
EXTENDS LandscaperReconcilerProofs, InstanceLabel

-----------------------------------------------------------------------------
(* The invariant.                                                          *)

\* A status that speaks of an installed or ready instance.
Claims(s) == s.installed.status = "True" \/ s.phase = "Ready"

\* Every component is installed in version v, and the route exists.
Complete(v) ==
    /\ \A c \in Components : components[c] = Target(c, v)
    /\ route # "absent"

\* The worker is on the create path, with a copy of the stored resource (not
\* of an earlier one with the same name).
ReadStored == pc \in CreateSteps /\ (pc = "ensureFinalizer" => obj.finalizer)

\* The status, the worker's copy and the stored resource are of increasing
\* generations; a copy of the same generation has the same spec.
GenerationInv ==
    /\ ls.exists => ls.status.observedGeneration <= ls.generation
    /\ ReadStored =>
           /\ ls.status.observedGeneration <= obj.generation
           /\ obj.generation <= ls.generation
           /\ obj.generation = ls.generation =>
                  obj.version = ls.version /\ obj.deleting = ls.deleting
    /\ pc # "idle" => st.observedGeneration <= obj.generation
    /\ pc \in CreateSteps /\ obj.deleting =>
           st.observedGeneration < obj.generation

Installed == {"isTLSRouteReady", "checkReadiness"}

\* The worker claims what it has done: its components are in place one after
\* the other, and it claims nothing before the last.
ProgressInv ==
    /\ pc \in CreateSteps \ Installed \/ pc \in DeleteSteps => ~Claims(st)
    /\ pc \in {"installManifest", "installHelm", "installLandscaper",
               "reconcileTLSRoute"} =>
           components["rbac"] = Target("rbac", obj.version)
    /\ pc \in {"installHelm", "installLandscaper", "reconcileTLSRoute"} =>
           components["manifest"] = Target("manifest", obj.version)
    /\ pc \in {"installLandscaper", "reconcileTLSRoute"} =>
           components["helm"] = Target("helm", obj.version)
    /\ pc = "reconcileTLSRoute" =>
           components["landscaper"] = Target("landscaper", obj.version)
    /\ pc \in Installed => Complete(obj.version)
    /\ pc = "finish" /\ Claims(st) =>
           /\ Complete(obj.version)
           /\ obj.deleting => st.observedGeneration < obj.generation

\* The stored status claims what is there.  A resource that is being deleted
\* has no status of its present generation that claims an installation.
ClaimInv ==
    /\ (ls.exists /\ ls.status.observedGeneration = ls.generation /\ Claims(ls.status))
           => ~ls.deleting /\ Complete(ls.version)
    /\ ls.status.uninstalled.status = "True" =>
           ls.status.phase = "Terminating" /\ ~Footprint
    /\ st.uninstalled.status = "True" =>
           st.phase = "Terminating" /\ ~Footprint

TruthInv == GenerationInv /\ ProgressInv /\ ClaimInv

-----------------------------------------------------------------------------
(* Lemmas.                                                                 *)

\* How the worker comes to the positions of the installation.
LEMMA InstallOrder ==
    ASSUME TypeOK, Handler
    PROVE  /\ pc' \in {"installManifest", "installHelm", "installLandscaper",
                       "reconcileTLSRoute"} => InstallLandscaperInstance
           /\ pc' = "isTLSRouteReady" => ReconcileTLSRoute /\ route' # "absent"
           /\ pc' = "checkReadiness" => pc = "isTLSRouteReady"
           /\ pc' # "ensureFinalizer"
           /\ pc \in Installed =>
                 /\ pc' \in {"checkReadiness", "finish"}
                 /\ UNCHANGED <<components, route, obj>>
           /\ pc = "ensureFinalizer" /\ pc' # "finish" =>
                 obj.finalizer \/ obj.deleting \/ fresh'
           /\ pc' = "finish" => pc # "ensureFinalizer" \/ obj' = obj
  BY DEF Handler, CreateOrUpdate, Delete, EnsureFinalizer, OwnWrite,
         CheckReconcileAnnotation, EnsureInstanceID, GetProviderConfig,
         RecordProviderConfig, ClusterAccess, WaitForAccess, ReconcileGateway,
         WaitForGateway, CreateConfig, SyncCA, InstallLandscaperInstance,
         Install, ReconcileTLSRoute, IsTLSRouteReady, CheckReadiness,
         InstanceReady, AccessInDeletion, DeleteTLSRoute, DeleteCA,
         UninstallLandscaperInstance, Uninstall, ReconcileDelete,
         WaitForRelease, RemoveFinalizer, CallFails, KeptCopy, InstallerFails,
         InstallFails, InstallError, UninstallFails, UninstallError,
         ReconcileDeleteFails, Goto, Return, install, Installed

\* Only the steps that install or remove touch components and route.
LEMMA InstallationChanges ==
    ASSUME TypeOK, Handler
    PROVE  Adding \/ Removing \/ UNCHANGED <<components, route>>
  <1>1. CASE InstallerFails
    BY <1>1
       DEF InstallerFails, Adding, Removing, Components, AfterAccess,
           DeleteSteps
  <1>2. CASE ~InstallerFails
    BY <1>2
       DEF Handler, CreateOrUpdate, Delete, EnsureFinalizer,
           CheckReconcileAnnotation, EnsureInstanceID, GetProviderConfig,
           RecordProviderConfig, ClusterAccess, ReconcileGateway, CreateConfig,
           SyncCA, IsTLSRouteReady, CheckReadiness, AccessInDeletion, DeleteCA,
           ReconcileDelete, RemoveFinalizer, CallFails, ReconcileDeleteFails,
           install, Adding, Removing
  <1> QED BY <1>1, <1>2

\* An installer that finds its component complete leaves it as it is.
LEMMA InstallingKeepsComplete ==
    ASSUME TypeOK, Adding, Complete(obj.version)
    PROVE  UNCHANGED components /\ route' # "absent"
  <1>1. ASSUME NEW at, NEW c \in Components, NEW next, Install(at, c, next)
        PROVE  UNCHANGED components /\ route' # "absent"
    BY <1>1 DEF Install, TypeOK, Complete
  <1>2. ASSUME NEW at, NEW c \in Components, InstallFails(at, c)
        PROVE  UNCHANGED components /\ route' # "absent"
    BY <1>2 DEF InstallFails, TypeOK, Complete
  <1>3. CASE ReconcileTLSRoute
    BY <1>3 DEF ReconcileTLSRoute, Complete
  <1> QED
    BY <1>1, <1>2, <1>3
       DEF Adding, InstallLandscaperInstance, Components

\* The installers are on the create path, past the first step, and do not touch
\* the worker's copy; removers are on the delete path.
LEMMA InstallingPosition ==
    ASSUME TypeOK
    PROVE  /\ Adding => pc \in AfterAccess /\ obj' = obj
           /\ Removing => pc \in DeleteSteps
  BY DEF Adding, InstallLandscaperInstance, Install, ReconcileTLSRoute,
         InstallFails, AfterAccess, Removing, UninstallLandscaperInstance,
         Uninstall, DeleteTLSRoute, UninstallFails, DeleteSteps

\* The generations are natural numbers.
LEMMA GenerationTypes ==
    ASSUME TypeOK
    PROVE  /\ ls.generation \in Nat /\ ls.status.observedGeneration \in Nat
           /\ obj.generation \in Nat /\ st.observedGeneration \in Nat
  BY DEF TypeOK, Landscapers, LandscaperStatuses, ReconcileStatuses

\* A status setter keeps the generation it reports.
LEMMA GenerationReported ==
    ASSUME TypeOK, Handler
    PROVE  st'.observedGeneration = st.observedGeneration
  BY HandlerMoves, SettersThatPromise DEF Setback, TypeOK

\* A handler changes the generation of nothing but a stale copy, which it
\* replaces by the stored one.
LEMMA GenerationHandler ==
    ASSUME TypeOK, SafetyInv, HeldInv, GenerationInv, Handler,
           TypeOK', SafetyInv', HeldInv'
    PROVE  GenerationInv'
  <1>1. /\ ls.generation \in Nat /\ ls.status.observedGeneration \in Nat
        /\ obj.generation \in Nat /\ st.observedGeneration \in Nat
    BY GenerationTypes
  <1>2. st'.observedGeneration = st.observedGeneration
    BY GenerationReported
  <1>3. /\ pc # "idle" /\ pc' # "ensureFinalizer"
        /\ pc' \in CreateSteps => pc \in CreateSteps
        /\ pc = "ensureFinalizer" /\ pc' \in CreateSteps =>
               obj.finalizer \/ fresh'
    <2>1. pc = "ensureFinalizer" => ~obj.deleting
      BY DEF SafetyInv, CreateInv
    <2> QED
      BY <2>1, HandlerMoves, InstallOrder DEF CreateSteps, DeleteSteps
  <1>4. ls'.exists => ls'.status.observedGeneration <= ls'.generation
    BY <1>1, HandlerKeepsContent, EmptyRecords
       DEF HeldInv, KeepsContent, LetsGo, SameContent, SameStatus, GenerationInv
  <1>5. ReadStored' =>
           /\ ls'.status.observedGeneration <= obj'.generation
           /\ obj'.generation <= ls'.generation
           /\ obj'.generation = ls'.generation =>
                  obj'.version = ls'.version /\ obj'.deleting = ls'.deleting
    <2>1. CASE fresh'
      <3>1. ls'.exists /\ SameContent(ls', obj')
        BY <2>1 DEF SafetyInv, CopyInv, HeldInv, FreshInv
      <3>2. ls'.generation \in Nat
        BY DEF TypeOK, Landscapers
      <3> QED
        BY <1>4, <3>1, <3>2 DEF SameContent
    <2>2. CASE ~fresh' /\ ReadStored'
      <3>1. ReadStored
        BY <1>3, <2>2 DEF ReadStored
      <3>2. KeepsContent /\ SameContent(obj, obj')
        BY <1>3, <2>2, HandlerKeepsContent
           DEF HeldInv, KeepsContent, LetsGo, ReadStored, CreateSteps
      <3> QED
        BY <3>1, <3>2 DEF GenerationInv, KeepsContent, SameContent, SameStatus
    <2> QED BY <2>1, <2>2
  <1>6. /\ st'.observedGeneration <= obj'.generation
        /\ pc' \in CreateSteps /\ obj'.deleting =>
               st'.observedGeneration < obj'.generation
    <2>1. CASE SameContent(obj, obj')
      BY <1>1, <1>2, <1>3, <2>1 DEF GenerationInv, SameContent
    <2>2. CASE pc = "checkReconcileAnnotation" /\ SameContent(ls, obj')
      <3>1. ReadStored /\ pc \in CreateSteps
        BY <2>2 DEF ReadStored, CreateSteps
      <3> QED BY <1>1, <1>2, <1>3, <2>2, <3>1 DEF GenerationInv, SameContent
    <2> QED
      BY <2>1, <2>2, HandlerKeepsContent DEF HeldInv, KeepsContent, LetsGo
  <1> QED BY <1>4, <1>5, <1>6 DEF GenerationInv

LEMMA GenerationKept ==
    ASSUME TypeOK, SafetyInv, HeldInv, GenerationInv, [Next]_vars,
           TypeOK', SafetyInv', HeldInv'
    PROVE  GenerationInv'
  <1>1. /\ ls.generation \in Nat /\ ls.status.observedGeneration \in Nat
        /\ obj.generation \in Nat /\ st.observedGeneration \in Nat
        /\ obj \in Landscapers /\ st \in ReconcileStatuses
    BY GenerationTypes DEF TypeOK
  <1>2. CASE UNCHANGED vars
    BY <1>2 DEF vars, local, GenerationInv, ReadStored
  <1>3. CASE Get
    <2>1. /\ UNCHANGED ls
          /\ \/ ~ls.exists /\ pc' = "idle"
             \/ /\ ls.exists /\ obj' = ls
                /\ st'.observedGeneration = ls.generation
                /\ pc' \in CreateSteps => ~ls.deleting
      BY <1>3, GetMoves
         DEF local, newCreateOrUpdateStatus, newDeleteStatus, CreateSteps
    <2> QED
      BY <1>1, <2>1 DEF GenerationInv, ReadStored, CreateSteps
  <1>4. CASE Finish
    <2>1. pc = "finish" /\ pc' = "idle"
      BY <1>4, FinishMoves
    <2>2. ls'.exists => ls'.status.observedGeneration <= ls'.generation
      <3>1. CASE ls' = [obj EXCEPT !.status =
                           convertToLandscaperStatus(st, obj.status)]
        <4>1. /\ ls'.generation = obj.generation /\ SameStatus(st, ls'.status)
          BY <1>1, <3>1, WrittenStatus
        <4> QED BY <1>1, <2>1, <4>1 DEF GenerationInv, SameStatus
      <3> QED BY <1>4, <3>1, FinishMoves DEF GenerationInv
    <2> QED BY <2>1, <2>2 DEF GenerationInv, ReadStored, CreateSteps
  <1>5. CASE Crash
    BY <1>5 DEF Crash, Rest, GenerationInv, ReadStored, CreateSteps
  <1>6. CASE Others
    <2>1. UNCHANGED <<pc, obj, st>>
      BY <1>6, OthersWrite
    <2>2. ReadStored => ls.exists /\ ls.finalizer
      BY DEF SafetyInv, ResourceInv, CreateInv, ReadStored
    <2>3. CASE UNCHANGED ls
      BY <2>1, <2>3 DEF GenerationInv, ReadStored
    <2>4. CASE Created \/ Vanished
      <3>1. ~ReadStored'
        BY <2>1, <2>2, <2>4 DEF ReadStored, Created, Vanished
      <3>2. ls'.exists => ls'.status.observedGeneration <= ls'.generation
        <4>1. CASE Created
          <5>1. ls'.status.observedGeneration = 0 /\ ls'.generation = 1
            BY <4>1, EmptyRecords DEF Created
          <5> QED BY <5>1
        <4>2. CASE Vanished
          BY <4>2, EmptyRecords DEF Vanished
        <4> QED BY <2>4, <4>1, <4>2
      <3> QED BY <2>1, <3>1, <3>2 DEF GenerationInv
    <2>5. CASE Edited \/ MarkedDeleted
      BY <1>1, <2>1, <2>5
         DEF GenerationInv, ReadStored, Edited, MarkedDeleted
    <2>6. CASE Touched
      BY <2>1, <2>6
         DEF GenerationInv, ReadStored, Touched, SameContent, SameStatus
    <2> QED BY <1>6, <2>3, <2>4, <2>5, <2>6, OthersWrite
  <1> QED
    BY <1>2, <1>3, <1>4, <1>5, <1>6, GenerationHandler, StepKinds

\* A status makes no new claim but through setInstalled and setReady.
LEMMA ClaimsAppear ==
    ASSUME TypeOK, Handler, ~Claims(st), Claims(st')
    PROVE  \/ pc = "reconcileTLSRoute" /\ pc' = "isTLSRouteReady"
           \/ pc = "checkReadiness" /\ pc' = "finish"
  BY HandlerMoves, SettersThatPromise DEF TypeOK, Setback, Claims

\* The installation goes on where it has come to.
LEMMA ProgressHandler ==
    ASSUME TypeOK, GenerationInv, ProgressInv, Handler, GenerationInv'
    PROVE  ProgressInv'
  <1>1. /\ pc \in CreateSteps \/ pc \in DeleteSteps
        /\ pc' \in CreateSteps \ Installed => pc \in CreateSteps \ Installed
        /\ pc' \in DeleteSteps => pc \in DeleteSteps
    BY HandlerMoves, InstallOrder DEF CreateSteps, DeleteSteps, Installed
  <1>2. pc' \in CreateSteps \ Installed \/ pc' \in DeleteSteps => ~Claims(st')
    BY <1>1, ClaimsAppear DEF ProgressInv, CreateSteps, DeleteSteps, Installed
  <1>3. ASSUME NEW at, NEW c \in Components, NEW next, Install(at, c, next)
        PROVE  /\ pc = at /\ pc' = next /\ obj' = obj
               /\ components'[c] = Target(c, obj'.version)
               /\ \A d \in Components \ {c} : components'[d] = components[d]
    BY <1>3 DEF Install, Goto, TypeOK, Target
  <1>4. pc' \in {"installManifest", "installHelm", "installLandscaper",
                 "reconcileTLSRoute"} =>
          /\ components'["rbac"] = Target("rbac", obj'.version)
          /\ pc' # "installManifest" =>
                components'["manifest"] = Target("manifest", obj'.version)
          /\ pc' \in {"installLandscaper", "reconcileTLSRoute"} =>
                components'["helm"] = Target("helm", obj'.version)
          /\ pc' = "reconcileTLSRoute" =>
                components'["landscaper"] = Target("landscaper", obj'.version)
    <2> SUFFICES ASSUME pc' \in {"installManifest", "installHelm",
                                 "installLandscaper", "reconcileTLSRoute"}
                 PROVE  /\ components'["rbac"] = Target("rbac", obj'.version)
                        /\ pc' # "installManifest" =>
                              components'["manifest"]
                                  = Target("manifest", obj'.version)
                        /\ pc' \in {"installLandscaper", "reconcileTLSRoute"} =>
                              components'["helm"] = Target("helm", obj'.version)
                        /\ pc' = "reconcileTLSRoute" =>
                              components'["landscaper"]
                                  = Target("landscaper", obj'.version)
      OBVIOUS
    <2>1. InstallLandscaperInstance
      BY InstallOrder
    <2>2. CASE Install("installRBAC", "rbac", "installManifest")
      BY <1>3, <2>2 DEF Components
    <2>3. CASE Install("installManifest", "manifest", "installHelm")
      BY <1>3, <2>3 DEF Components, ProgressInv
    <2>4. CASE Install("installHelm", "helm", "installLandscaper")
      BY <1>3, <2>4 DEF Components, ProgressInv
    <2>5. CASE Install("installLandscaper", "landscaper", "reconcileTLSRoute")
      BY <1>3, <2>5 DEF Components, ProgressInv
    <2> QED
      BY <2>1, <2>2, <2>3, <2>4, <2>5 DEF InstallLandscaperInstance
  <1>5. pc' \in Installed \/ pc \in Installed => Complete(obj.version)' 
    <2>1. CASE pc' = "isTLSRouteReady"
      <3>1. pc = "reconcileTLSRoute" /\ UNCHANGED <<components, obj>>
        BY <2>1, InstallOrder DEF ReconcileTLSRoute
      <3>2. route' # "absent"
        BY <2>1, InstallOrder
      <3> QED BY <3>1, <3>2 DEF ProgressInv, Complete, Components
    <2>2. CASE pc \in Installed
      BY <2>2, InstallOrder DEF ProgressInv, Complete
    <2> QED BY <2>1, <2>2, InstallOrder DEF Installed
  <1>6. pc' = "finish" /\ Claims(st') =>
           /\ Complete(obj.version)'
           /\ obj'.deleting => st'.observedGeneration < obj'.generation
    <2> SUFFICES ASSUME pc' = "finish", Claims(st')
                 PROVE  /\ Complete(obj.version)'
                        /\ obj'.deleting =>
                               st'.observedGeneration < obj'.generation
      OBVIOUS
    <2>1. pc \in Installed
      BY <1>1, ClaimsAppear DEF ProgressInv, Installed
    <2>2. obj' = obj /\ st'.observedGeneration = st.observedGeneration
      BY <2>1, InstallOrder, GenerationReported
    <2> QED
      BY <1>5, <2>1, <2>2 DEF GenerationInv, Installed, CreateSteps
  <1> QED
    BY <1>2, <1>4, <1>5, <1>6 DEF ProgressInv

LEMMA ProgressKept ==
    ASSUME TypeOK, HeldInv, GenerationInv, ProgressInv, [Next]_vars, GenerationInv'
    PROVE  ProgressInv'
  <1>1. CASE UNCHANGED vars
    BY <1>1 DEF vars, install, local, ProgressInv, Complete
  <1>2. CASE Get
    <2>1. \/ pc' = "idle"
          \/ pc' \in {"ensureFinalizer", "getProviderConfigD"} /\ ~Claims(st')
      BY <1>2, GetMoves
         DEF local, Claims, newCreateOrUpdateStatus, newDeleteStatus, Condition,
             NoCondition
    <2> QED
      BY <2>1 DEF ProgressInv, CreateSteps, DeleteSteps, Installed
  <1>3. CASE Finish \/ Crash
    <2>1. pc' = "idle"
      BY <1>3 DEF Finish, Crash, Rest
    <2> QED
      BY <2>1 DEF ProgressInv, CreateSteps, DeleteSteps, Installed
  <1>4. CASE Others
    BY <1>4, OthersWrite DEF ProgressInv, Complete
  <1> QED
    BY <1>1, <1>2, <1>3, <1>4, ProgressHandler, StepKinds

\* What a handler leaves behind is what the stored status and the status that
\* is built up claim.
LEMMA ClaimHandler ==
    ASSUME TypeOK, SafetyInv, HeldInv, GenerationInv, ProgressInv, ClaimInv,
           Handler, SafetyInv'
    PROVE  ClaimInv'
  <1>1. /\ ls.generation \in Nat /\ ls.status.observedGeneration \in Nat
        /\ obj.generation \in Nat /\ st \in ReconcileStatuses
    BY GenerationTypes DEF TypeOK
  <1>2. Adding => /\ ReadStored
                      /\ st.phase # "Terminating" /\ ls.status.phase # "Terminating"
    BY InstallingPosition
       DEF ReadStored, AfterAccess, CreateSteps, HeldInv, PhaseInv
  <1>3. ls'.exists => SameContent(ls, ls')
    BY HandlerKeepsContent, EmptyRecords DEF HeldInv, KeepsContent, LetsGo
  <1>4. Footprint' => Footprint \/ Adding
    BY InstallationChanges, RemovingShrinks DEF Footprint
  <1>5. (/\ ls'.exists /\ ls'.status.observedGeneration = ls'.generation
         /\ Claims(ls'.status))
            => ~ls'.deleting /\ Complete(ls.version)'
    <2> SUFFICES ASSUME ls'.exists, Claims(ls'.status),
                        ls'.status.observedGeneration = ls'.generation
                 PROVE  ~ls'.deleting /\ Complete(ls.version)'
      OBVIOUS
    <2>1. /\ ls.exists /\ Claims(ls.status) /\ ls'.version = ls.version
          /\ ls'.deleting = ls.deleting
          /\ ls.status.observedGeneration = ls.generation
      BY <1>3 DEF SameContent, SameStatus, Claims
    <2>2. ~ls.deleting /\ Complete(ls.version)
      BY <2>1 DEF ClaimInv
    <2>3. CASE Adding
      <3>1. obj.version = ls.version
        BY <1>1, <1>2, <2>1, <2>3 DEF GenerationInv
      <3>2. UNCHANGED components /\ route' # "absent"
        BY <2>2, <2>3, <3>1, InstallingKeepsComplete
      <3> QED BY <2>1, <2>2, <3>2 DEF Complete
    <2>4. CASE Removing
      <3>1. Footprint
        BY <2>2 DEF Complete, Footprint
      <3>2. ls.deleting
        BY <2>4, <3>1, InstallingPosition, PositionFacts
      <3> QED BY <2>2, <3>2
    <2>5. CASE UNCHANGED <<components, route>>
      BY <2>1, <2>2, <2>5 DEF Complete
    <2> QED BY <2>3, <2>4, <2>5, InstallationChanges
  <1>6. ls'.status.uninstalled.status = "True" =>
           ls'.status.phase = "Terminating" /\ ~Footprint'
    <2>1. CASE ls'.exists
      BY <1>2, <1>3, <1>4, <2>1 DEF SameContent, SameStatus, ClaimInv
    <2>2. CASE ~ls'.exists
      <3>1. \/ ls' = NoLandscaper
            \/ SameStatus(ls.status, ls'.status)
        BY HandlerKeepsContent DEF HeldInv, KeepsContent, LetsGo, SameContent
      <3>2. CASE ls' = NoLandscaper
        BY <3>2, EmptyRecords
      <3>3. CASE SameStatus(ls.status, ls'.status)
        BY <1>2, <1>4, <3>3 DEF SameStatus, ClaimInv
      <3> QED BY <3>1, <3>2, <3>3
    <2> QED BY <2>1, <2>2
  <1>7. st'.uninstalled.status = "True" =>
           st'.phase = "Terminating" /\ ~Footprint'
    <2> SUFFICES ASSUME st'.uninstalled.status = "True"
                 PROVE  st'.phase = "Terminating" /\ ~Footprint'
      OBVIOUS
    <2>1. CASE pc' = "reconcileDelete" /\ st' = setUninstalled(st)
                   /\ pc = "uninstallRBAC"
      <3>1. st.phase = "Terminating"
        BY <2>1 DEF HeldInv, PhaseInv, DeleteSteps
      <3>2. ~Footprint'
        BY <2>1 DEF SafetyInv, DeleteInv
      <3> QED BY <1>1, <2>1, <3>1, <3>2, SettersThatPromise
    <2>2. CASE Setback(st, st')
      BY <1>2, <1>4, <2>2 DEF Setback, ClaimInv
    <2>3. CASE /\ pc \in {"reconcileTLSRoute", "checkReadiness"}
               /\ st' \in {setInstalled(st), setReady(st)}
      <3>1. st.uninstalled.status = "True"
        BY <1>1, <2>3, SettersThatPromise
      <3> QED
        BY <2>3, <3>1 DEF ClaimInv, HeldInv, PhaseInv, CreateSteps
    <2> QED BY <2>1, <2>2, <2>3, HandlerMoves
  <1> QED BY <1>5, <1>6, <1>7 DEF ClaimInv

LEMMA ClaimKept ==
    ASSUME TypeOK, SafetyInv, HeldInv, TruthInv, [Next]_vars,
           SafetyInv', GenerationInv'
    PROVE  ClaimInv'
  <1> USE DEF TruthInv
  <1>1. /\ obj \in Landscapers /\ st \in ReconcileStatuses
        /\ ls.generation \in Nat /\ ls.status.observedGeneration \in Nat
        /\ obj.generation \in Nat /\ st.observedGeneration \in Nat
    BY GenerationTypes DEF TypeOK
  <1>2. \A n : /\ newCreateOrUpdateStatus(n).uninstalled.status # "True"
               /\ newDeleteStatus(n).uninstalled.status # "True"
    BY DEF newCreateOrUpdateStatus, newDeleteStatus, Condition, NoCondition
  <1>3. CASE UNCHANGED vars
    BY <1>3 DEF vars, install, local, ClaimInv, Complete, Footprint
  <1>4. CASE Get \/ Crash
    <2>1. /\ UNCHANGED <<ls, components, route>>
          /\ st' = st \/ st'.uninstalled.status # "True"
      BY <1>2, <1>4 DEF Get, Crash, Rest, install, local
    <2> QED BY <2>1 DEF ClaimInv, Complete, Footprint
  <1>5. CASE Finish
    <2>1. /\ UNCHANGED <<components, route>> /\ pc = "finish"
          /\ st'.uninstalled.status # "True"
      BY <1>2, <1>5, FinishMoves DEF Finish, Rest
    <2>2. CASE UNCHANGED ls
      BY <2>1, <2>2 DEF ClaimInv, Complete, Footprint
    <2>3. CASE ls' = [obj EXCEPT !.status =
                         convertToLandscaperStatus(st, obj.status)]
      <3>1. /\ ls'.generation = obj.generation /\ ls'.version = obj.version
            /\ ls'.deleting = obj.deleting /\ SameStatus(st, ls'.status)
        BY <1>1, <2>3, WrittenStatus
      <3> HIDE <2>3
      <3>2. Claims(ls'.status) => Claims(st)
        BY <3>1 DEF SameStatus, Claims
      <3>3. (/\ ls'.status.observedGeneration = ls'.generation
             /\ Claims(ls'.status))
                => ~ls'.deleting /\ Complete(ls.version)'
        BY <1>1, <2>1, <3>1, <3>2 DEF ProgressInv, SameStatus, Complete
      <3>4. ls'.status.uninstalled.status = "True" =>
               ls'.status.phase = "Terminating" /\ ~Footprint'
        BY <2>1, <3>1 DEF ClaimInv, SameStatus, Footprint
      <3> QED BY <2>1, <3>3, <3>4 DEF ClaimInv
    <2> QED BY <1>5, <2>2, <2>3, FinishMoves
  <1>6. CASE Others
    <2>1. /\ UNCHANGED <<st, components>> /\ Footprint' = Footprint
          /\ route # "absent" => route' # "absent"
      BY <1>6, OthersWrite DEF Footprint
    <2>2. CASE UNCHANGED ls
      BY <2>1, <2>2 DEF ClaimInv, Complete
    <2>3. CASE Created \/ Vanished
      <3>1. ~(ls'.exists /\ Claims(ls'.status))
            /\ ls'.status.uninstalled.status # "True"
        BY <2>3, EmptyRecords DEF Created, Vanished, Claims
      <3> QED BY <2>1, <3>1 DEF ClaimInv
    <2>4. CASE Edited \/ MarkedDeleted
      <3>1. /\ ls'.status = ls.status
            /\ ls'.status.observedGeneration # ls'.generation
        BY <1>1, <2>4 DEF Edited, MarkedDeleted, GenerationInv
      <3> QED BY <2>1, <3>1 DEF ClaimInv
    <2>5. CASE Touched
      BY <2>1, <2>5
         DEF ClaimInv, Complete, Touched, SameContent, SameStatus, Claims
    <2> QED BY <1>6, <2>2, <2>3, <2>4, <2>5, OthersWrite
  <1> QED
    BY <1>3, <1>4, <1>5, <1>6, ClaimHandler, StepKinds

-----------------------------------------------------------------------------

\* Initially nothing is claimed.
LEMMA TruthInit == Init => TruthInv
  <1> SUFFICES ASSUME Init PROVE TruthInv
    OBVIOUS
  <1>1. /\ ls = NoLandscaper /\ pc = "idle" /\ ~Footprint
        /\ st.uninstalled.status # "True"
    BY DEF Init, Footprint, newCreateOrUpdateStatus, NoCondition
  <1> QED
    BY <1>1, EmptyRecords
       DEF TruthInv, GenerationInv, ReadStored, ProgressInv, ClaimInv, Installed,
           CreateSteps, DeleteSteps

LEMMA TruthKept ==
    ASSUME TypeOK, SafetyInv, HeldInv, TruthInv, [Next]_vars,
           TypeOK', SafetyInv', HeldInv'
    PROVE  TruthInv'
  <1>1. GenerationInv'
    BY GenerationKept DEF TruthInv
  <1>2. ProgressInv'
    BY <1>1, ProgressKept DEF TruthInv
  <1>3. ClaimInv'
    BY <1>1, ClaimKept
  <1> QED BY <1>1, <1>2, <1>3 DEF TruthInv

\* A reconciliation may also be broken off: it says no more than it had said.
GivesUp ==
    /\ pc \in CreateSteps \cup DeleteSteps /\ pc' = "finish"
    /\ Setback(st, st')
    /\ UNCHANGED <<ls, obj, fresh, components, route>>

LEMMA TruthGivenUp ==
    ASSUME TypeOK, HeldInv, TruthInv, GivesUp
    PROVE  HeldInv' /\ TruthInv'
  <1>1. /\ pc \in CreateSteps \cup DeleteSteps /\ pc # "finish" /\ pc # "idle"
        /\ pc' = "finish" /\ pc' \notin CreateSteps /\ pc' \notin DeleteSteps
        /\ UNCHANGED <<ls, obj, fresh, components, route>>
    BY DEF GivesUp, CreateSteps, DeleteSteps
  <1>2. /\ st'.phase = st.phase
        /\ st'.observedGeneration = st.observedGeneration
        /\ Claims(st') => Claims(st)
        /\ st'.uninstalled.status = "True" => st.uninstalled.status = "True"
    BY DEF GivesUp, Setback, Claims
  <1>3. HeldInv'
    BY <1>1, <1>2
       DEF HeldInv, FreshInv, PhaseInv, VersionInv, SameContent, SameStatus
  <1>4. GenerationInv'
    BY <1>1, <1>2 DEF TruthInv, GenerationInv, ReadStored
  <1>5. ProgressInv'
    <2>1. Claims(st') => pc \in Installed
      BY <1>1, <1>2 DEF TruthInv, ProgressInv
    <2> QED
      BY <1>1, <1>2, <2>1
         DEF TruthInv, ProgressInv, GenerationInv, Complete, Installed,
             CreateSteps
  <1>6. ClaimInv'
    BY <1>1, <1>2 DEF TruthInv, ClaimInv, Complete, Footprint
  <1> QED BY <1>3, <1>4, <1>5, <1>6 DEF TruthInv

\* TruthInv is an invariant.
THEOREM TruthCorrect == Spec => []TruthInv
  <1>1. (/\ TypeOK /\ SafetyInv /\ StepInv /\ TruthInv /\ [Next]_vars
         /\ TypeOK' /\ SafetyInv' /\ StepInv')
            => TruthInv'
    BY TruthKept DEF StepInv
  <1> QED
    BY <1>1, TruthInit, TypeCorrect, SafetyCorrect, StepCorrect, PTL DEF Spec

LEMMA TruthMeans == TruthInv => StatusIsTruthful
  BY DEF TruthInv, ClaimInv, StatusIsTruthful, Claims, Complete

(***************************************************************************)
(* StatusIsTruthful: a status that speaks of the current generation and    *)
(* says installed, ready or uninstalled is true, however the resource, the *)
(* worker's copy and the installation have moved on since it was written.  *)
(***************************************************************************)
THEOREM StatusIsTruthfulCorrect == Spec => []StatusIsTruthful
  <1>1. TruthInv => StatusIsTruthful
    BY TruthMeans
  <1> QED BY <1>1, TruthCorrect, PTL

-----------------------------------------------------------------------------
(* Installation, as the reconciliation carries it out.                     *)

\* The worker installs, and uninstalls.
InstallSteps ==
    {"installRBAC", "installManifest", "installHelm", "installLandscaper",
     "reconcileTLSRoute"}

UninstallSteps ==
    {"uninstallLandscaper", "uninstallHelm", "uninstallManifest",
     "uninstallRBAC"}

\* ... and has uninstalled.
Ended == {"reconcileDelete", "removeFinalizer"}

\* What only an installer says.
SaysFailed(s) ==
    s.installed.reason = "InstallFailed" \/ s.uninstalled.reason = "InstallFailed"

\* A failed installer ends the handler, and the end of an uninstallation is
\* reported nowhere before it.
ReportInv ==
    /\ pc = "idle" => st.installed.status # "True"
    /\ pc \notin Ended \cup {"finish"} => st.uninstalled.status # "True"
    /\ pc # "finish" => ~SaysFailed(st)
    /\ pc = "finish" /\ SaysFailed(st) =>
           st.installed.status # "True" /\ st.uninstalled.status # "True"

\* What the setters make of the reasons.
LEMMA SettersGiveReasons ==
    ASSUME NEW s \in ReconcileStatuses
    PROVE  /\ setInstalled(s).installed
                  = [status |-> "True", reason |-> "LandscaperInstalled"]
           /\ setUninstalled(s).uninstalled
                  = [status |-> "True", reason |-> "LandscaperInstalled"]
           /\ setInstallFailed(s).installed
                  = [status |-> "False", reason |-> "InstallFailed"]
           /\ setInstallFailed(s).uninstalled = s.uninstalled
           /\ setUninstallFailed(s).uninstalled
                  = [status |-> "False", reason |-> "InstallFailed"]
           /\ setUninstallFailed(s).installed = s.installed
  BY DEF ReconcileStatuses, setInstalled, setUninstalled, setInstallFailed,
         setUninstallFailed, Condition

LEMMA OtherReasons ==
    ASSUME NEW s \in ReconcileStatuses, ~SaysFailed(s)
    PROVE  /\ ~SaysFailed(setInstallWaitForClusterAccessReady(s))
           /\ ~SaysFailed(setUninstallWaitForClusterAccessReady(s))
           /\ ~SaysFailed(setWaitForReadinessCheck(s))
           /\ ~SaysFailed(setInstallClusterAccessError(s))
           /\ ~SaysFailed(setUninstallClusterAccessError(s))
           /\ ~SaysFailed(setInstallProviderConfigError(s))
           /\ ~SaysFailed(setUninstallProviderConfigError(s))
           /\ ~SaysFailed(setInstallConfigurationError(s))
           /\ ~SaysFailed(setUninstallConfigurationError(s))
           /\ ~SaysFailed(setInstallDNSConfigFailed(s))
           /\ ~SaysFailed(setInstallWaitForDNSReady(s))
           /\ ~SaysFailed(SetUninstallDNSConfigFailed(s))
           /\ ~SaysFailed(setInstalled(s))
           /\ ~SaysFailed(setUninstalled(s))
           /\ ~SaysFailed(setReady(s))
  BY DEF SaysFailed, ReconcileStatuses, Condition,
         setInstallWaitForClusterAccessReady,
         setUninstallWaitForClusterAccessReady, setWaitForReadinessCheck,
         setInstallClusterAccessError, setUninstallClusterAccessError,
         setInstallProviderConfigError, setUninstallProviderConfigError,
         setInstallConfigurationError, setUninstallConfigurationError,
         setInstallDNSConfigFailed, setInstallWaitForDNSReady,
         SetUninstallDNSConfigFailed, setInstalled, setUninstalled, setReady

\* Only a failing installer says so.
LEMMA FailureIsSaid ==
    ASSUME TypeOK, Handler, ~SaysFailed(st), SaysFailed(st')
    PROVE  InstallerFails
  <1>1. st \in ReconcileStatuses
    BY DEF TypeOK
  <1> SUFFICES ASSUME ~InstallerFails PROVE FALSE
    OBVIOUS
  <1>2. ~SaysFailed(FailureStatus)
    BY <1>1, OtherReasons DEF FailureStatus
  <1>3. CASE CallFails \/ ReconcileDeleteFails
    BY <1>2, <1>3 DEF CallFails, ReconcileDeleteFails, Return
  <1>4. CASE CreateOrUpdate
    BY <1>1, <1>4, OtherReasons
       DEF CreateOrUpdate, EnsureFinalizer, CheckReconcileAnnotation,
           EnsureInstanceID, GetProviderConfig, RecordProviderConfig,
           ClusterAccess, WaitForAccess, ReconcileGateway, WaitForGateway,
           CreateConfig, SyncCA, InstallLandscaperInstance, Install,
           ReconcileTLSRoute, IsTLSRouteReady, CheckReadiness, InstanceReady,
           Goto, Return
  <1>5. CASE Delete
    BY <1>1, <1>5, OtherReasons
       DEF Delete, GetProviderConfig, RecordProviderConfig, AccessInDeletion,
           ClusterAccess, WaitForAccess, CreateConfig, DeleteTLSRoute, DeleteCA,
           UninstallLandscaperInstance, Uninstall, ReconcileDelete,
           WaitForRelease, RemoveFinalizer, Goto, Return
  <1> QED BY <1>3, <1>4, <1>5 DEF Handler

LEMMA ReportHandler ==
    ASSUME TypeOK, ProgressInv, ReportInv, Handler
    PROVE  ReportInv'
  <1>1. /\ pc # "idle" /\ pc # "finish" /\ pc' # "idle"
        /\ st \in ReconcileStatuses
    BY HandlerMoves DEF CreateSteps, DeleteSteps, TypeOK
  <1>2. pc' # "finish" => ~SaysFailed(st')
    <2>1. InstallerFails => pc' = "finish"
      BY DEF InstallerFails, InstallFails, InstallError, UninstallFails,
             UninstallError, Return
    <2> QED BY <1>1, <2>1, FailureIsSaid DEF ReportInv, SaysFailed
  <1>3. pc \in Ended => pc' \in Ended \cup {"finish"}
    BY DEF Ended, Handler, CreateOrUpdate, EnsureFinalizer,
           CheckReconcileAnnotation, EnsureInstanceID, GetProviderConfig,
           RecordProviderConfig, ClusterAccess, ReconcileGateway, CreateConfig,
           SyncCA, InstallLandscaperInstance, Install, ReconcileTLSRoute,
           IsTLSRouteReady, CheckReadiness, Delete, AccessInDeletion,
           DeleteTLSRoute, DeleteCA, UninstallLandscaperInstance, Uninstall,
           ReconcileDelete, WaitForRelease, RemoveFinalizer, CallFails,
           InstallerFails, InstallFails, UninstallFails, ReconcileDeleteFails,
           Goto, Return
  <1>4. pc' \notin Ended \cup {"finish"} => st'.uninstalled.status # "True"
    <2> SUFFICES ASSUME pc' \notin Ended \cup {"finish"}
                 PROVE  st'.uninstalled.status # "True"
      OBVIOUS
    <2>1. st.uninstalled.status # "True"
      BY <1>1, <1>3 DEF ReportInv
    <2> QED
      BY <1>1, <2>1, HandlerMoves, SettersThatPromise DEF Setback, Ended
  <1>5. SaysFailed(st') =>
            st'.installed.status # "True" /\ st'.uninstalled.status # "True"
    <2> SUFFICES ASSUME SaysFailed(st')
                 PROVE  /\ st'.installed.status # "True"
                        /\ st'.uninstalled.status # "True"
      OBVIOUS
    <2>1. InstallerFails
      BY <1>1, FailureIsSaid DEF ReportInv
    <2>2. /\ st' \in {setInstallFailed(st), setUninstallFailed(st)}
          /\ pc \in InstallSteps \cup UninstallSteps
      BY <2>1
         DEF InstallerFails, InstallFails, InstallError, UninstallFails,
             UninstallError, Return, InstallSteps, UninstallSteps
    <2>3. /\ st.installed.status # "True" /\ st.uninstalled.status # "True"
      BY <2>2
         DEF ProgressInv, ReportInv, Claims, Ended, Installed, CreateSteps,
             DeleteSteps, InstallSteps, UninstallSteps
    <2> QED BY <1>1, <2>2, <2>3, SettersGiveReasons
  <1> QED BY <1>1, <1>2, <1>4, <1>5 DEF ReportInv

LEMMA NewStatuses ==
    ASSUME NEW n
    PROVE  /\ newCreateOrUpdateStatus(n).installed.status # "True"
           /\ newCreateOrUpdateStatus(n).uninstalled.status # "True"
           /\ ~SaysFailed(newCreateOrUpdateStatus(n))
           /\ newDeleteStatus(n).installed.status # "True"
           /\ newDeleteStatus(n).uninstalled.status # "True"
           /\ ~SaysFailed(newDeleteStatus(n))
  BY DEF newCreateOrUpdateStatus, newDeleteStatus, Condition, NoCondition,
         SaysFailed

\* ReportInv is an invariant.
LEMMA ReportCorrect == Spec => []ReportInv
  <1>1. Init => ReportInv
    BY NewStatuses DEF Init, ReportInv, SaysFailed
  <1>2. TypeOK /\ ProgressInv /\ ReportInv /\ [Next]_vars => ReportInv'
    <2> SUFFICES ASSUME TypeOK, ProgressInv, ReportInv, [Next]_vars PROVE ReportInv'
      OBVIOUS
    <2>1. CASE UNCHANGED <<pc, st>>
      BY <2>1 DEF ReportInv
    <2>2. CASE Get
      BY <2>1, <2>2, GetMoves, NewStatuses
         DEF ReportInv, SaysFailed, local
    <2>3. CASE Finish \/ Crash
      BY <2>3, NewStatuses DEF Finish, Crash, Rest, ReportInv, SaysFailed
    <2>4. CASE Others
      BY <2>1, <2>4, OthersWrite
    <2>5. UNCHANGED vars => UNCHANGED <<pc, st>>
      BY DEF vars, local
    <2> QED BY <2>1, <2>2, <2>3, <2>4, <2>5, ReportHandler, StepKinds
  <1>3. TruthInv => ProgressInv
    BY DEF TruthInv
  <1> QED BY <1>1, <1>2, <1>3, TypeCorrect, TruthCorrect, PTL DEF Spec

Order == <<"rbac", "manifest", "helm", "landscaper">>

LEMMA AbstractOrder ==
    /\ Installs!InOrder = Order
    /\ DOMAIN Order = 1..4
    /\ Order[1] = "rbac" /\ Order[2] = "manifest" /\ Order[3] = "helm"
    /\ Order[4] = "landscaper"
    /\ Installs!Components = Components
  <1>1. Installs!InOrder = Order /\ DOMAIN Order = 1..4
    BY DEF Installs!InOrder, Order
  <1>2. /\ Order[1] = "rbac" /\ Order[2] = "manifest" /\ Order[3] = "helm"
        /\ Order[4] = "landscaper"
    BY DEF Order
  <1>3. Installs!Components = {Order[i] : i \in 1..4}
    BY <1>1 DEF Installs!Components
  <1>4. {Order[i] : i \in 1..4} = Components
    BY <1>2 DEF Components
  <1> QED BY <1>1, <1>2, <1>3, <1>4

\* What the operation makes of a component.
LEMMA Goals ==
    ASSUME NEW c
    PROVE  /\ Operation = "install" => Installs!Goal(c) = Target(c, obj.version)
           /\ Operation = "uninstall" => Installs!Goal(c) = "absent"
  BY DEF Installs!Goal, Target

\* The operation as it appears to Installation.
Unreported == UNCHANGED <<Operation, obj, Reported>>

\* One component is worked on in its turn.
LEMMA WorkOnOne ==
    ASSUME TypeOK, Operation # "none", Unreported,
           NEW i \in 1..4, NEW x \in {"mixed", Installs!Goal(Order[i])},
           components[Order[i]] # Installs!Goal(Order[i]),
           components' = [components EXCEPT ![Order[i]] = x],
           \A j \in 1..4 : (IF Operation = "install" THEN j < i ELSE j > i) =>
               components[Order[j]] = Installs!Goal(Order[j])
    PROVE  [Installs!Next]_(Installs!vars)
  <1>1. Order[i] \in Installs!Components
    BY AbstractOrder DEF Components
  <1>2. Installs!Turn(Order[i])
    BY AbstractOrder DEF Installs!Turn
  <1>3. Installs!Work
    BY <1>1, <1>2 DEF Installs!Work, Unreported
  <1> QED BY <1>3 DEF Installs!Next

LEMMA NothingHappens ==
    ASSUME Unreported, UNCHANGED components
    PROVE  [Installs!Next]_(Installs!vars)
  BY DEF Unreported, Installs!vars

\* One installer, which has got all the way or not.
LEMMA InstallsOne ==
    ASSUME TypeOK, Operation = "install", Unreported,
           NEW i \in 1..4, NEW x,
           x \in {components[Order[i]], Target(Order[i], obj.version)}
               \/ (x = "mixed" /\ components[Order[i]] # Target(Order[i], obj.version)),
           components' = [components EXCEPT ![Order[i]] = x],
           \A j \in 1..4 : j < i =>
               components[Order[j]] = Target(Order[j], obj.version)
    PROVE  [Installs!Next]_(Installs!vars)
  <1>1. \A j \in 1..4 : Installs!Goal(Order[j]) = Target(Order[j], obj.version)
    BY Goals
  <1>2. CASE components[Order[i]] = x
    <2>1. components' = components
      BY <1>2 DEF TypeOK
    <2> QED BY <2>1, NothingHappens
  <1>3. CASE components[Order[i]] # x
    <2>1. /\ x \in {"mixed", Installs!Goal(Order[i])}
          /\ components[Order[i]] # Installs!Goal(Order[i])
      BY <1>1, <1>3
    <2>2. \A j \in 1..4 : (IF Operation = "install" THEN j < i ELSE j > i) =>
               components[Order[j]] = Installs!Goal(Order[j])
      BY <1>1
    <2> QED BY <2>1, <2>2, WorkOnOne
  <1> QED BY <1>2, <1>3

LEMMA UninstallsOne ==
    ASSUME TypeOK, Operation = "uninstall", Unreported,
           NEW i \in 1..4, NEW x,
           x \in {components[Order[i]], "absent"}
               \/ (x = "mixed" /\ components[Order[i]] # "absent"),
           components' = [components EXCEPT ![Order[i]] = x],
           \A j \in 1..4 : j > i => components[Order[j]] = "absent"
    PROVE  [Installs!Next]_(Installs!vars)
  <1>1. \A j \in 1..4 : Installs!Goal(Order[j]) = "absent"
    BY Goals
  <1>2. CASE components[Order[i]] = x
    <2>1. components' = components
      BY <1>2 DEF TypeOK
    <2> QED BY <2>1, NothingHappens
  <1>3. CASE components[Order[i]] # x
    <2>1. /\ x \in {"mixed", Installs!Goal(Order[i])}
          /\ components[Order[i]] # Installs!Goal(Order[i])
      BY <1>1, <1>3
    <2>2. \A j \in 1..4 : (IF Operation = "install" THEN j < i ELSE j > i) =>
               components[Order[j]] = Installs!Goal(Order[j])
      BY <1>1
    <2> QED BY <2>1, <2>2, WorkOnOne
  <1> QED BY <1>2, <1>3

\* The operation, and what is reported, at the worker's positions.
OperationInv ==
    /\ pc \in InstallSteps => Operation = "install" /\ Reported = "none"
    /\ pc \in UninstallSteps => Operation = "uninstall" /\ Reported = "none"
    /\ pc = "reconcileDelete" =>
           /\ Reported = "none"
           /\ Operation = IF st.uninstalled.status = "True"
                          THEN "uninstall" ELSE "none"
    /\ (pc \notin InstallSteps \cup UninstallSteps \cup {"reconcileDelete"}
        /\ (pc = "finish" => ~SaysFailed(st))) => Operation = "none"
    /\ pc \in Steps \ (Installed \cup {"finish", "removeFinalizer"}) =>
           Reported = "none"

LEMMA OperationAt ==
    ASSUME ReportInv, ProgressInv
    PROVE  OperationInv
  <1>1. pc \in (CreateSteps \ Installed) \cup DeleteSteps \cup {"idle"} =>
            st.installed.status # "True"
    BY DEF ReportInv, ProgressInv, Claims, CreateSteps, DeleteSteps, Installed
  <1> QED
    BY <1>1
       DEF OperationInv, Operation, Reported, InstallSteps, UninstallSteps,
           ReportInv, Ended, SaysFailed, Steps, CreateSteps, DeleteSteps,
           Installed

\* The successes.
LEMMA SucceedsWith ==
    ASSUME Operation # "none", Operation' = "none", Reported' = Operation,
           UNCHANGED components,
           \A c \in Components : components[c] = Installs!Goal(c)
    PROVE  [Installs!Next]_(Installs!vars)
  <1>1. Installs!Succeed
    BY AbstractOrder DEF Installs!Succeed
  <1> QED BY <1>1 DEF Installs!Next

LEMMA FailsWith ==
    ASSUME Operation # "none", Operation' = "none",
           UNCHANGED <<components, Reported>>
    PROVE  [Installs!Next]_(Installs!vars)
  <1>1. Installs!Fail
    BY DEF Installs!Fail
  <1> QED BY <1>1 DEF Installs!Next

LEMMA BeginsWith ==
    ASSUME TypeOK, VersionInv, pc # "idle",
           Operation = "none", Operation' \in {"install", "uninstall"},
           Reported' = "none", UNCHANGED <<components, obj>>
    PROVE  [Installs!Next]_(Installs!vars)
  <1>1. obj.version \in Versions
    BY DEF TypeOK, VersionInv, Landscapers
  <1>2. Installs!Begin
    BY <1>1 DEF Installs!Begin
  <1> QED BY <1>2 DEF Installs!Next

\* Between the operations nothing is installed, and at most a report goes.
LEMMA ForgetsAtMost ==
    ASSUME Operation = "none", Operation' = "none",
           Reported' \in {Reported, "none"}, UNCHANGED components
    PROVE  [Installs!Next]_(Installs!vars)
  <1>1. CASE Reported' = Reported
    BY <1>1 DEF Installs!vars
  <1>2. CASE Reported' # Reported
    <2>1. Installs!Forget
      BY <1>2 DEF Installs!Forget, Installs!vars
    <2> QED BY <2>1 DEF Installs!Next
  <1> QED BY <1>1, <1>2

\* The first three installers lead to the next, the last one to the route.
LEMMA InstallStep ==
    ASSUME TypeOK, ProgressInv, OperationInv, OperationInv',
           InstallLandscaperInstance
    PROVE  [Installs!Next]_(Installs!vars)
  <1>1. ASSUME NEW i \in 1..4, NEW at \in InstallSteps, NEW next \in InstallSteps,
               Install(at, Order[i], next),
               \A j \in 1..4 : j < i =>
                   components[Order[j]] = Target(Order[j], obj.version)
        PROVE  [Installs!Next]_(Installs!vars)
    <2>1. /\ pc = at /\ pc' = next /\ obj' = obj
          /\ components' = [components EXCEPT ![Order[i]] =
                                Target(Order[i], obj.version)]
      BY <1>1 DEF Install, Goto
    <2>2. Operation = "install" /\ Unreported
      BY <2>1 DEF OperationInv, Unreported
    <2> DEFINE x == Target(Order[i], obj.version)
    <2>3. x \in {components[Order[i]], x}
             \/ (x = "mixed" /\ components[Order[i]] # x)
      OBVIOUS
    <2> HIDE DEF x
    <2>4. components' = [components EXCEPT ![Order[i]] = x]
      BY <2>1 DEF x
    <2> QED BY <1>1, <2>2, <2>3, <2>4, InstallsOne DEF x
  <1> USE AbstractOrder DEF ProgressInv, InstallSteps
  <1>2. CASE Install("installRBAC", "rbac", "installManifest")
    <2>1. Install("installRBAC", Order[1], "installManifest")
      BY <1>2
    <2> QED BY <1>1, <2>1
  <1>3. CASE Install("installManifest", "manifest", "installHelm")
    <2>1. Install("installManifest", Order[2], "installHelm")
      BY <1>3
    <2>2. \A j \in 1..4 : j < 2 =>
              components[Order[j]] = Target(Order[j], obj.version)
      BY <1>3 DEF Install
    <2> QED BY <1>1, <2>1, <2>2
  <1>4. CASE Install("installHelm", "helm", "installLandscaper")
    <2>1. Install("installHelm", Order[3], "installLandscaper")
      BY <1>4
    <2>2. \A j \in 1..4 : j < 3 =>
              components[Order[j]] = Target(Order[j], obj.version)
      BY <1>4 DEF Install
    <2> QED BY <1>1, <2>1, <2>2
  <1>5. CASE Install("installLandscaper", "landscaper", "reconcileTLSRoute")
    <2>1. Install("installLandscaper", Order[4], "reconcileTLSRoute")
      BY <1>5
    <2>2. \A j \in 1..4 : j < 4 =>
              components[Order[j]] = Target(Order[j], obj.version)
      BY <1>5 DEF Install
    <2> QED BY <1>1, <2>1, <2>2
  <1> QED BY <1>2, <1>3, <1>4, <1>5 DEF InstallLandscaperInstance

\* After a failure the operation lasts until the handler has returned.
LEMMA InstallFailsStep ==
    ASSUME TypeOK, ProgressInv, ReportInv, OperationInv,
           NEW i \in 1..4, NEW at \in InstallSteps,
           InstallFails(at, Order[i]),
           \A j \in 1..4 : j < i =>
               components[Order[j]] = Target(Order[j], obj.version)
    PROVE  [Installs!Next]_(Installs!vars)
  <1>1. PICK x \in {components[Order[i]],
                    IF components[Order[i]] = Target(Order[i], obj.version)
                        THEN components[Order[i]] ELSE "mixed"} :
            components' = [components EXCEPT ![Order[i]] = x]
    BY DEF InstallFails
  <1>2. /\ pc = at /\ pc' = "finish" /\ obj' = obj /\ st' = setInstallFailed(st)
    BY DEF InstallFails, InstallError, Return
  <1>3. Operation = "install" /\ Reported = "none"
    BY <1>2 DEF OperationInv
  <1>4. st'.installed = [status |-> "False", reason |-> "InstallFailed"]
        /\ st'.uninstalled = st.uninstalled
    BY <1>2, SettersGiveReasons DEF TypeOK
  <1>5. st.uninstalled.status # "True"
    BY <1>2 DEF ReportInv, Ended, InstallSteps
  <1>6. Unreported
    BY <1>2, <1>3, <1>4, <1>5 DEF Unreported, Operation, Reported
  <1>7. x \in {components[Order[i]], Target(Order[i], obj.version)}
           \/ (x = "mixed" /\ components[Order[i]] # Target(Order[i], obj.version))
    OBVIOUS
  <1> QED BY <1>1, <1>3, <1>6, <1>7, InstallsOne

\* The first three uninstallers lead to the next, the last one to the requests.
LEMMA UninstallStep ==
    ASSUME TypeOK, SafetyInv, OperationInv, OperationInv',
           UninstallLandscaperInstance
    PROVE  [Installs!Next]_(Installs!vars)
  <1>1. ASSUME NEW i \in 1..4, NEW at \in UninstallSteps,
               NEW next \in UninstallSteps \cup {"reconcileDelete"},
               Uninstall(at, Order[i], next),
               \A j \in 1..4 : j > i => components[Order[j]] = "absent"
        PROVE  [Installs!Next]_(Installs!vars)
    <2>1. /\ pc = at /\ pc' = next /\ obj' = obj
          /\ components' = IF obj.id
                           THEN [components EXCEPT ![Order[i]] = "absent"]
                           ELSE components
          /\ next = "reconcileDelete" => st' = setUninstalled(st)
      BY <1>1 DEF Uninstall
    <2>2. next = "reconcileDelete" => st'.uninstalled.status = "True"
      BY <2>1, SettersGiveReasons DEF TypeOK
    <2>3. Operation = "uninstall" /\ Unreported
      BY <2>1, <2>2 DEF OperationInv, Unreported
    <2>4. CASE obj.id
      <3>1. "absent" \in {components[Order[i]], "absent"}
               \/ ("absent" = "mixed" /\ components[Order[i]] # "absent")
        OBVIOUS
      <3>2. components' = [components EXCEPT ![Order[i]] = "absent"]
        BY <2>1, <2>4
      <3> QED BY <1>1, <2>3, <3>1, <3>2, UninstallsOne
    <2>5. CASE ~obj.id
      BY <2>1, <2>3, <2>5, NothingHappens
    <2> QED BY <2>4, <2>5
  <1> USE AbstractOrder DEF SafetyInv, DeleteInv, UninstallSteps
  <1>2. CASE Uninstall("uninstallLandscaper", "landscaper", "uninstallHelm")
    <2>1. Uninstall("uninstallLandscaper", Order[4], "uninstallHelm")
      BY <1>2
    <2> QED BY <1>1, <2>1
  <1>3. CASE Uninstall("uninstallHelm", "helm", "uninstallManifest")
    <2>1. Uninstall("uninstallHelm", Order[3], "uninstallManifest")
      BY <1>3
    <2>2. \A j \in 1..4 : j > 3 => components[Order[j]] = "absent"
      BY <1>3 DEF Uninstall
    <2> QED BY <1>1, <2>1, <2>2
  <1>4. CASE Uninstall("uninstallManifest", "manifest", "uninstallRBAC")
    <2>1. Uninstall("uninstallManifest", Order[2], "uninstallRBAC")
      BY <1>4
    <2>2. \A j \in 1..4 : j > 2 => components[Order[j]] = "absent"
      BY <1>4 DEF Uninstall
    <2> QED BY <1>1, <2>1, <2>2
  <1>5. CASE Uninstall("uninstallRBAC", "rbac", "reconcileDelete")
    <2>1. Uninstall("uninstallRBAC", Order[1], "reconcileDelete")
      BY <1>5
    <2>2. \A j \in 1..4 : j > 1 => components[Order[j]] = "absent"
      BY <1>5 DEF Uninstall
    <2> QED BY <1>1, <2>1, <2>2
  <1> QED BY <1>2, <1>3, <1>4, <1>5 DEF UninstallLandscaperInstance

LEMMA UninstallFailsStep ==
    ASSUME TypeOK, ProgressInv, ReportInv, OperationInv,
           NEW i \in 1..4, NEW at \in UninstallSteps,
           UninstallFails(at, Order[i]),
           \A j \in 1..4 : j > i => components[Order[j]] = "absent"
    PROVE  [Installs!Next]_(Installs!vars)
  <1>1. components' = IF obj.id /\ components[Order[i]] # "absent"
                      THEN [components EXCEPT ![Order[i]] = "mixed"]
                      ELSE components
    BY DEF UninstallFails
  <1>2. /\ pc = at /\ pc' = "finish" /\ obj' = obj
        /\ st' = setUninstallFailed(st)
    BY DEF UninstallFails, UninstallError, Return
  <1>3. Operation = "uninstall" /\ Reported = "none"
    BY <1>2 DEF OperationInv
  <1>4. st'.uninstalled = [status |-> "False", reason |-> "InstallFailed"]
        /\ st'.installed = st.installed
    BY <1>2, SettersGiveReasons DEF TypeOK
  <1>5. st.installed.reason # "InstallFailed" /\ st.installed.status # "True"
    BY <1>2
       DEF ReportInv, SaysFailed, ProgressInv, Claims, UninstallSteps,
           DeleteSteps
  <1>6. Unreported
    BY <1>2, <1>3, <1>4, <1>5 DEF Unreported, Operation, Reported
  <1>7. CASE components' = components
    BY <1>6, <1>7, NothingHappens
  <1>8. CASE /\ components[Order[i]] # "absent"
             /\ components' = [components EXCEPT ![Order[i]] = "mixed"]
    BY <1>3, <1>6, <1>8, UninstallsOne
  <1> QED BY <1>1, <1>7, <1>8

LEMMA InstallerFailsStep ==
    ASSUME TypeOK, SafetyInv, ProgressInv, ReportInv, OperationInv,
           InstallerFails
    PROVE  [Installs!Next]_(Installs!vars)
  <1> USE AbstractOrder
  <1>1. CASE InstallFails("installRBAC", "rbac")
    <2>1. InstallFails("installRBAC", Order[1])
      BY <1>1
    <2> QED BY <2>1, InstallFailsStep DEF InstallSteps
  <1>2. CASE InstallFails("installManifest", "manifest")
    <2>1. InstallFails("installManifest", Order[2])
      BY <1>2
    <2>2. \A j \in 1..4 : j < 2 =>
              components[Order[j]] = Target(Order[j], obj.version)
      BY <1>2 DEF InstallFails, ProgressInv
    <2> QED BY <2>1, <2>2, InstallFailsStep DEF InstallSteps
  <1>3. CASE InstallFails("installHelm", "helm")
    <2>1. InstallFails("installHelm", Order[3])
      BY <1>3
    <2>2. \A j \in 1..4 : j < 3 =>
              components[Order[j]] = Target(Order[j], obj.version)
      BY <1>3 DEF InstallFails, ProgressInv
    <2> QED BY <2>1, <2>2, InstallFailsStep DEF InstallSteps
  <1>4. CASE InstallFails("installLandscaper", "landscaper")
    <2>1. InstallFails("installLandscaper", Order[4])
      BY <1>4
    <2>2. \A j \in 1..4 : j < 4 =>
              components[Order[j]] = Target(Order[j], obj.version)
      BY <1>4 DEF InstallFails, ProgressInv
    <2> QED BY <2>1, <2>2, InstallFailsStep DEF InstallSteps
  <1>5. CASE UninstallFails("uninstallLandscaper", "landscaper")
    <2>1. UninstallFails("uninstallLandscaper", Order[4])
      BY <1>5
    <2> QED BY <2>1, UninstallFailsStep DEF UninstallSteps
  <1>6. CASE UninstallFails("uninstallHelm", "helm")
    <2>1. UninstallFails("uninstallHelm", Order[3])
      BY <1>6
    <2>2. \A j \in 1..4 : j > 3 => components[Order[j]] = "absent"
      BY <1>6 DEF UninstallFails, SafetyInv, DeleteInv
    <2> QED BY <2>1, <2>2, UninstallFailsStep DEF UninstallSteps
  <1>7. CASE UninstallFails("uninstallManifest", "manifest")
    <2>1. UninstallFails("uninstallManifest", Order[2])
      BY <1>7
    <2>2. \A j \in 1..4 : j > 2 => components[Order[j]] = "absent"
      BY <1>7 DEF UninstallFails, SafetyInv, DeleteInv
    <2> QED BY <2>1, <2>2, UninstallFailsStep DEF UninstallSteps
  <1>8. CASE UninstallFails("uninstallRBAC", "rbac")
    <2>1. UninstallFails("uninstallRBAC", Order[1])
      BY <1>8
    <2>2. \A j \in 1..4 : j > 1 => components[Order[j]] = "absent"
      BY <1>8 DEF UninstallFails, SafetyInv, DeleteInv
    <2> QED BY <2>1, <2>2, UninstallFailsStep DEF UninstallSteps
  <1> QED
    BY <1>1, <1>2, <1>3, <1>4, <1>5, <1>6, <1>7, <1>8 DEF InstallerFails

\* The route is the last thing of an installation, the check for requests the
\* first thing after an uninstallation.
LEMMA TLSRouteStep ==
    ASSUME TypeOK, ProgressInv, ReportInv, OperationInv, OperationInv',
           ReconcileTLSRoute
    PROVE  [Installs!Next]_(Installs!vars)
  <1>1. /\ pc = "reconcileTLSRoute" /\ UNCHANGED <<components, obj>>
        /\ Operation = "install" /\ Reported = "none"
        /\ st \in ReconcileStatuses /\ ~SaysFailed(st)
        /\ st.uninstalled.status # "True" /\ st.installed.status # "True"
    BY DEF ReconcileTLSRoute, OperationInv, InstallSteps, TypeOK, ReportInv,
           Ended, SaysFailed, ProgressInv, Claims, CreateSteps, Installed
  <1>2. CASE pc' = "isTLSRouteReady" /\ st' = setInstalled(st)
    <2>1. st'.installed.status = "True"
      BY <1>1, <1>2, SettersGiveReasons
    <2>2. Reported' = "install"
      BY <2>1 DEF Reported
    <2>3. Operation' = "none"
      BY <1>2 DEF OperationInv, InstallSteps, UninstallSteps
    <2>4. \A c \in Components : components[c] = Installs!Goal(c)
      BY <1>1, Goals DEF ProgressInv, Components
    <2> QED BY <1>1, <2>2, <2>3, <2>4, SucceedsWith
  <1>3. CASE pc' = "finish" /\ st' = setInstallDNSConfigFailed(st)
    <2>1. ~SaysFailed(st') /\ Setback(st, st')
      BY <1>1, <1>3, OtherReasons, SettersAreSetbacks
    <2>2. Reported' = "none"
      BY <1>1, <2>1 DEF Reported, Setback
    <2>3. Operation' = "none"
      BY <1>3, <2>1 DEF OperationInv, InstallSteps, UninstallSteps
    <2> QED BY <1>1, <2>2, <2>3, FailsWith
  <1> QED BY <1>2, <1>3 DEF ReconcileTLSRoute, Return

LEMMA FirstStep ==
    ASSUME TypeOK, VersionInv, OperationInv, OperationInv', SyncCA \/ DeleteCA
    PROVE  [Installs!Next]_(Installs!vars)
  <1>1. /\ UNCHANGED <<components, obj>> /\ pc # "idle"
        /\ \/ pc = "syncCA" /\ pc' = "installRBAC"
           \/ pc = "deleteCA" /\ pc' = "uninstallLandscaper"
    BY DEF SyncCA, DeleteCA, Goto
  <1>2. /\ Operation = "none" /\ Operation' \in {"install", "uninstall"}
        /\ Reported' = "none"
    BY <1>1 DEF OperationInv, InstallSteps, UninstallSteps
  <1> QED BY <1>1, <1>2, BeginsWith

\* What the end of the cluster access in the deletion does to the operation.
LEMMA AccessEnds ==
    ASSUME TypeOK, SafetyInv, ProgressInv, ReportInv, OperationInv, OperationInv',
           pc = "reconcileDelete", pc' \in {"removeFinalizer", "finish"},
           UNCHANGED components, ~SaysFailed(st'), Setback(st, st')
    PROVE  [Installs!Next]_(Installs!vars)
  <1>1. /\ Reported = "none" /\ Operation' = "none"
        /\ Operation = IF st.uninstalled.status = "True"
                       THEN "uninstall" ELSE "none"
        /\ st.installed.status # "True"
    BY DEF OperationInv, InstallSteps, UninstallSteps, ProgressInv, Claims,
           DeleteSteps
  <1>2. Reported' = IF st'.uninstalled.status = "True" THEN "uninstall" ELSE "none"
    BY <1>1 DEF Reported, Setback
  <1>3. CASE st'.uninstalled.status = "True"
    <2>1. Operation = "uninstall" /\ Reported' = "uninstall"
      BY <1>1, <1>2, <1>3 DEF Setback
    <2>2. \A c \in Components : components[c] = Installs!Goal(c)
      BY <2>1, Goals DEF SafetyInv, DeleteInv, Footprint
    <2> QED BY <1>1, <2>1, <2>2, SucceedsWith
  <1>4. CASE st'.uninstalled.status # "True" /\ st.uninstalled.status = "True"
    BY <1>1, <1>2, <1>4, FailsWith
  <1>5. CASE st.uninstalled.status # "True"
    BY <1>1, <1>2, <1>5, ForgetsAtMost DEF Setback
  <1> QED BY <1>3, <1>4, <1>5

LEMMA ReconcileDeleteStep ==
    ASSUME TypeOK, SafetyInv, ProgressInv, ReportInv, OperationInv, OperationInv',
           \/ ReconcileDelete
           \/ ReconcileDeleteFails
           \/ CallFails /\ pc = "reconcileDelete"
    PROVE  [Installs!Next]_(Installs!vars)
  <1>1. pc = "reconcileDelete" /\ UNCHANGED components
    BY DEF ReconcileDelete, ReconcileDeleteFails, CallFails, install
  <1>2. pc' \in {"removeFinalizer", "finish"} /\ st' \in {st, FailureStatus}
    BY DEF ReconcileDelete, ReconcileDeleteFails, CallFails, WaitForRelease,
           Goto, Return
  <1>3. ~SaysFailed(st) /\ st \in ReconcileStatuses
    BY <1>1 DEF ReportInv, SaysFailed, TypeOK
  <1>4. ~SaysFailed(FailureStatus)
    BY <1>3, OtherReasons DEF FailureStatus
  <1>5. Setback(st, st')
    BY <1>2, <1>3, SettersAreSetbacks, FailuresAreSetbacks
  <1> QED BY <1>1, <1>2, <1>3, <1>4, <1>5, AccessEnds

\* A call that fails in an installation, past the installers, is the route's.
LEMMA RouteFailsStep ==
    ASSUME TypeOK, ProgressInv, ReportInv, OperationInv, OperationInv',
           CallFails, pc = "reconcileTLSRoute"
    PROVE  [Installs!Next]_(Installs!vars)
  <1>1. /\ UNCHANGED components /\ pc' = "finish" /\ st' = FailureStatus
        /\ st \in ReconcileStatuses /\ ~SaysFailed(st)
        /\ st.uninstalled.status # "True" /\ st.installed.status # "True"
    BY DEF CallFails, Return, install, TypeOK, ReportInv, Ended, SaysFailed,
           ProgressInv, Claims, CreateSteps, Installed
  <1>2. ~SaysFailed(FailureStatus)
    BY <1>1, OtherReasons DEF FailureStatus
  <1>3. Operation = "install" /\ Reported = "none" /\ Operation' = "none"
    BY <1>1, <1>2 DEF OperationInv, InstallSteps, UninstallSteps
  <1>4. Reported' = "none"
    BY <1>1, FailuresAreSetbacks DEF Reported, Setback
  <1> QED BY <1>1, <1>3, <1>4, FailsWith

\* The remaining steps are outside of the operations.
LEMMA OutsideStep ==
    ASSUME TypeOK, ProgressInv, ReportInv, OperationInv, OperationInv', Handler,
           UNCHANGED components,
           pc \notin InstallSteps \cup UninstallSteps \cup {"reconcileDelete"},
           pc' \notin InstallSteps \cup UninstallSteps,
           pc' # "reconcileDelete" \/ pc = "accessInDeletion"
    PROVE  [Installs!Next]_(Installs!vars)
  <1>1. pc \in CreateSteps \cup DeleteSteps /\ pc # "finish" /\ pc' # "idle"
    BY HandlerMoves DEF CreateSteps, DeleteSteps
  <1>2. ~SaysFailed(st) /\ st \in ReconcileStatuses
    BY <1>1 DEF ReportInv, SaysFailed, TypeOK
  <1>3. Operation = "none"
    BY <1>2 DEF OperationInv
  <1>4. ~SaysFailed(st')
    <2>1. ~InstallerFails
      BY DEF InstallerFails, InstallFails, UninstallFails, InstallSteps,
             UninstallSteps
    <2> QED BY <1>2, <2>1, FailureIsSaid
  <1>5. Setback(st, st') \/ st' = setReady(st)
    BY HandlerMoves DEF InstallSteps, UninstallSteps
  <1>6. /\ st'.installed.status = "True" => st.installed.status = "True"
        /\ st'.uninstalled.status = "True" => st.uninstalled.status = "True"
    BY <1>2, <1>5, SettersThatPromise DEF Setback
  <1>7. CASE pc' = "reconcileDelete"
    <2>1. st.uninstalled.status # "True"
      BY <1>7 DEF ReportInv, Ended
    <2>2. Operation' = "none" /\ Reported' = "none"
      BY <1>6, <1>7, <2>1 DEF OperationInv
    <2> QED BY <1>3, <2>2, ForgetsAtMost
  <1>8. CASE pc' # "reconcileDelete"
    <2>1. Operation' = "none"
      BY <1>4, <1>8 DEF OperationInv
    <2>2. st.uninstalled.status = "True" =>
              st.installed.status # "True" /\ Reported = "uninstall"
      BY <1>1
         DEF ReportInv, ProgressInv, Claims, Ended, DeleteSteps, Reported
    <2>3. Reported' \in {Reported, "none"}
      BY <1>6, <1>8, <2>2 DEF Reported
    <2> QED BY <1>3, <2>1, <2>3, ForgetsAtMost
  <1> QED BY <1>7, <1>8

LEMMA HandlerInstalls ==
    ASSUME TypeOK, SafetyInv, VersionInv, ProgressInv, ReportInv, OperationInv,
           OperationInv', Handler
    PROVE  [Installs!Next]_(Installs!vars)
  <1>1. CASE InstallLandscaperInstance
    BY <1>1, InstallStep
  <1>2. CASE InstallerFails
    BY <1>2, InstallerFailsStep
  <1>3. CASE UninstallLandscaperInstance
    BY <1>3, UninstallStep
  <1>4. CASE ReconcileTLSRoute
    BY <1>4, TLSRouteStep
  <1>5. CASE SyncCA \/ DeleteCA
    BY <1>5, FirstStep
  <1>6. CASE ReconcileDelete \/ ReconcileDeleteFails
    BY <1>6, ReconcileDeleteStep
  <1>7. CASE CallFails /\ pc = "reconcileDelete"
    BY <1>7, ReconcileDeleteStep
  <1>8. CASE CallFails /\ pc = "reconcileTLSRoute"
    BY <1>8, RouteFailsStep
  <1>9. CASE CallFails /\ pc \notin {"reconcileDelete", "reconcileTLSRoute"}
    BY <1>9, OutsideStep
       DEF CallFails, Return, install, InstallSteps, UninstallSteps
  <1>10. CASE CreateOrUpdate /\ ~(InstallLandscaperInstance \/ ReconcileTLSRoute \/ SyncCA)
    <2>1. /\ UNCHANGED components
          /\ pc \notin InstallSteps \cup UninstallSteps \cup {"reconcileDelete"}
          /\ pc' \notin InstallSteps \cup UninstallSteps \cup {"reconcileDelete"}
      BY <1>10
         DEF CreateOrUpdate, EnsureFinalizer, CheckReconcileAnnotation,
             EnsureInstanceID, GetProviderConfig, RecordProviderConfig,
             ClusterAccess, WaitForAccess, ReconcileGateway, WaitForGateway,
             CreateConfig, IsTLSRouteReady, CheckReadiness, InstanceReady,
             Goto, Return, install, InstallSteps, UninstallSteps
    <2> QED BY <2>1, OutsideStep
  <1>11. CASE Delete /\ ~(UninstallLandscaperInstance \/ DeleteCA \/ ReconcileDelete)
    <2>1. /\ UNCHANGED components
          /\ pc \notin InstallSteps \cup UninstallSteps \cup {"reconcileDelete"}
          /\ pc' \notin InstallSteps \cup UninstallSteps
          /\ pc' = "reconcileDelete" => pc = "accessInDeletion"
      BY <1>11
         DEF Delete, GetProviderConfig, RecordProviderConfig, AccessInDeletion,
             ClusterAccess, WaitForAccess, CreateConfig, DeleteTLSRoute,
             RemoveFinalizer, Goto, Return, install, InstallSteps,
             UninstallSteps
    <2> QED BY <2>1, OutsideStep
  <1> QED
    BY <1>1, <1>2, <1>3, <1>4, <1>5, <1>6, <1>7, <1>8, <1>9, <1>10, <1>11
       DEF Handler

LEMMA StepInstalls ==
    ASSUME TypeOK, SafetyInv, VersionInv, ProgressInv, ReportInv, OperationInv,
           OperationInv', [Next]_vars
    PROVE  [Installs!Next]_(Installs!vars)
  <1>1. CASE UNCHANGED <<components, pc, st, obj>>
    BY <1>1, NothingHappens DEF Unreported, Operation, Reported
  <1>2. UNCHANGED vars => UNCHANGED <<components, pc, st, obj>>
    BY DEF vars, local, install
  <1>3. CASE Get
    <2>1. UNCHANGED components /\ pc = "idle"
      BY <1>3, GetMoves
    <2>2. pc' \in {"ensureFinalizer", "getProviderConfigD"}
             \/ UNCHANGED <<components, pc, st, obj>>
      BY <1>3, GetMoves DEF local
    <2>3. CASE pc' \in {"ensureFinalizer", "getProviderConfigD"}
      <3>1. /\ Operation = "none" /\ Operation' = "none"
            /\ Reported' = "none"
        BY <2>1, <2>3
           DEF OperationInv, InstallSteps, UninstallSteps, Steps, CreateSteps,
               DeleteSteps, Installed
      <3> QED BY <2>1, <3>1, ForgetsAtMost
    <2> QED BY <1>1, <2>2, <2>3
  <1>4. CASE Finish \/ Crash
    <2>1. UNCHANGED components /\ pc' = "idle"
      BY <1>4 DEF Finish, Crash, Rest, install
    <2>2. Operation' = "none" /\ Reported' = "none"
      BY <2>1
         DEF OperationInv, InstallSteps, UninstallSteps, Steps, CreateSteps,
             DeleteSteps, Installed
    <2>3. CASE Operation = "none"
      BY <2>1, <2>2, <2>3, ForgetsAtMost
    <2>4. CASE Operation # "none"
      <3>1. Reported = "none"
        BY <2>4
           DEF OperationInv, ReportInv, Reported, InstallSteps, UninstallSteps
      <3> QED BY <2>1, <2>2, <2>4, <3>1, FailsWith
    <2> QED BY <2>3, <2>4
  <1>5. CASE Others
    BY <1>1, <1>5, OthersWrite
  <1> QED
    BY <1>1, <1>2, <1>3, <1>4, <1>5, HandlerInstalls, StepKinds

LEMMA InitInstalls == Init => Installs!Init
  <1> SUFFICES ASSUME Init PROVE Installs!Init
    OBVIOUS
  <1>1. pc = "idle" /\ st = newCreateOrUpdateStatus(0)
        /\ components = [c \in Components |-> "absent"]
    BY DEF Init
  <1>2. Operation = "none" /\ Reported = "none"
    BY <1>1, NewStatuses DEF Operation, Reported
  <1> QED BY <1>1, <1>2, AbstractOrder DEF Installs!Init

(***************************************************************************)
(* InstallsInOrder: the reconciliation, with everything that may come      *)
(* between its calls, implements Installation.                             *)
(***************************************************************************)
THEOREM InstallsInOrderCorrect == Spec => InstallsInOrder
  <1>1. (/\ TypeOK /\ SafetyInv /\ StepInv /\ TruthInv /\ ReportInv
         /\ OperationInv /\ OperationInv' /\ [Next]_vars)
            => [Installs!Next]_(Installs!vars)
    <2> SUFFICES ASSUME TypeOK, SafetyInv, StepInv, TruthInv, ReportInv,
                        OperationInv, OperationInv', [Next]_vars
                 PROVE  [Installs!Next]_(Installs!vars)
      OBVIOUS
    <2>1. ProgressInv /\ VersionInv
      BY DEF TruthInv, StepInv, HeldInv
    <2> QED BY <2>1, StepInstalls
  <1>2. ReportInv /\ TruthInv => OperationInv
    BY OperationAt DEF TruthInv
  <1> QED
    BY <1>1, <1>2, InitInstalls, TypeCorrect, SafetyCorrect, StepCorrect, TruthCorrect,
       ReportCorrect, PTL
       DEF Spec, InstallsInOrder, Installs!Spec

-----------------------------------------------------------------------------
(* The instance label, in the presence of a user who removes it.           *)

\* Past ensureInstanceID the worker's copy carries the label; a stale copy has
\* the key in the queue, and so has a worker that failed before it.
LabelInv ==
    /\ FreshInv
    /\ fresh => obj.id = ls.id
    /\ pc # "idle" => fresh \/ queued = "now"
    /\ pc \in CreateSteps \ BeforeID => obj.id
    /\ pc \in DeleteSteps => obj.deleting
    /\ pc = "finish" => res = "error" \/ obj.id \/ obj.deleting
    /\ pc = "idle" /\ ls.exists /\ ~ls.deleting /\ queued # "now" => ls.id

\* What a handler does to the label.
LEMMA HandlerLabel ==
    ASSUME TypeOK, Handler
    PROVE  /\ fresh' => \/ ls' = obj'
                        \/ UNCHANGED <<ls, fresh>> /\ obj'.id = obj.id
           /\ pc \in CreateSteps \ BeforeID => obj'.id = obj.id
           /\ pc' \in CreateSteps \ BeforeID =>
                 pc \in CreateSteps \ BeforeID \/ obj'.id
           /\ pc' = "finish" /\ pc \in BeforeID => res' = "error"
  <1>1. obj \in Landscapers /\ fresh \in BOOLEAN
    BY DEF TypeOK
  <1>2. ASSUME UNCHANGED <<ls, fresh>>, obj'.id = obj.id,
               pc \in BeforeID => pc' \in BeforeID \cup {"finish"},
               pc' = "finish" /\ pc \in BeforeID => res' = "error",
               pc' \in CreateSteps => pc \in CreateSteps
        PROVE  /\ fresh' => \/ ls' = obj'
                            \/ UNCHANGED <<ls, fresh>> /\ obj'.id = obj.id
               /\ pc \in CreateSteps \ BeforeID => obj'.id = obj.id
               /\ pc' \in CreateSteps \ BeforeID =>
                     pc \in CreateSteps \ BeforeID \/ obj'.id
               /\ pc' = "finish" /\ pc \in BeforeID => res' = "error"
    BY <1>2 DEF BeforeID, CreateSteps
  <1>3. CASE EnsureFinalizer \/ CheckReconcileAnnotation
    BY <1>3
       DEF EnsureFinalizer, CheckReconcileAnnotation, OwnWrite, Goto, Return,
           CreateSteps, BeforeID
  <1>4. CASE EnsureInstanceID
    <2>1. [obj EXCEPT !.id = TRUE].id
      BY <1>1 DEF Landscapers
    <2> QED
      BY <1>4, <2>1
         DEF EnsureInstanceID, StoreInstanceID, OwnWrite, Goto, Return,
             CreateSteps, BeforeID
  <1>5. ASSUME NEW at, NEW next, NEW status, NEW accepted,
               RecordProviderConfig(at, next, status, accepted)
        PROVE  /\ obj'.id = obj.id
               /\ \/ ls' = obj' /\ fresh' = TRUE
                  \/ UNCHANGED <<ls, fresh>>
               /\ pc = at /\ pc' \in {next, "finish"}
    <2>1. [obj EXCEPT !.status.ref = cfg.name].id = obj.id
      BY <1>1 DEF Landscapers
    <2> QED BY <1>5, <2>1 DEF RecordProviderConfig, OwnWrite, Goto, Return
  <1>6. CASE \/ RecordProviderConfig("recordProviderConfig", "clusterAccess",
                                     setInstallProviderConfigError(st),
                                     IsVersionAvailable)
             \/ RecordProviderConfig("recordProviderConfigD", "accessInDeletion",
                                     setUninstallProviderConfigError(st), TRUE)
    <2>1. /\ obj'.id = obj.id
          /\ ls' = obj' \/ UNCHANGED <<ls, fresh>>
          /\ pc \in {"recordProviderConfig", "recordProviderConfigD"}
          /\ pc = "recordProviderConfigD" => pc' \in {"accessInDeletion", "finish"}
      <3>1. CASE RecordProviderConfig("recordProviderConfig", "clusterAccess",
                                      setInstallProviderConfigError(st),
                                      IsVersionAvailable)
        <4>1. /\ obj'.id = obj.id
              /\ (ls' = obj' /\ fresh' = TRUE) \/ UNCHANGED <<ls, fresh>>
              /\ pc = "recordProviderConfig" /\ pc' \in {"clusterAccess", "finish"}
          BY <1>5, <3>1, Zenon
        <4> QED BY <4>1
      <3>2. CASE RecordProviderConfig("recordProviderConfigD", "accessInDeletion",
                                      setUninstallProviderConfigError(st), TRUE)
        <4>1. /\ obj'.id = obj.id
              /\ (ls' = obj' /\ fresh' = TRUE) \/ UNCHANGED <<ls, fresh>>
              /\ pc = "recordProviderConfigD"
              /\ pc' \in {"accessInDeletion", "finish"}
          BY <1>5, <3>2, Zenon
        <4> QED BY <4>1
      <3> QED BY <1>6, <3>1, <3>2
    <2> QED BY <2>1 DEF CreateSteps, BeforeID
  <1>7. CASE RemoveFinalizer
    BY <1>7 DEF RemoveFinalizer, Return, CreateSteps, BeforeID
  <1>8. CASE CallFails
    <2>1. KeptCopy.id = obj.id
      BY <1>1 DEF KeptCopy, Landscapers
    <2> QED
      BY <1>8, <2>1, <1>2 DEF CallFails, Return, CreateSteps, BeforeID
  <1>9. CASE \/ GetProviderConfig("getProviderConfig", "recordProviderConfig",
                                  setInstallProviderConfigError(st))
             \/ GetProviderConfig("getProviderConfigD", "recordProviderConfigD",
                                  setUninstallProviderConfigError(st))
             \/ ClusterAccess("clusterAccess", "reconcileGateway",
                              setInstallWaitForClusterAccessReady(st))
             \/ ClusterAccess("clusterAccessD", "createConfigD",
                              setUninstallWaitForClusterAccessReady(st))
             \/ ReconcileGateway
             \/ CreateConfig("createConfig", "syncCA")
             \/ CreateConfig("createConfigD", "deleteTLSRoute")
             \/ SyncCA \/ InstallLandscaperInstance \/ ReconcileTLSRoute
             \/ IsTLSRouteReady \/ CheckReadiness \/ AccessInDeletion
             \/ DeleteTLSRoute \/ DeleteCA \/ UninstallLandscaperInstance
             \/ ReconcileDelete \/ InstallerFails \/ ReconcileDeleteFails
    <2>1. UNCHANGED <<ls, fresh, obj>> /\ pc \notin BeforeID
      BY <1>9
         DEF GetProviderConfig, ClusterAccess, ReconcileGateway, CreateConfig,
             SyncCA, InstallLandscaperInstance, Install, ReconcileTLSRoute,
             IsTLSRouteReady, CheckReadiness, AccessInDeletion, DeleteTLSRoute,
             DeleteCA, UninstallLandscaperInstance, Uninstall, ReconcileDelete,
             InstallerFails, InstallFails, UninstallFails, ReconcileDeleteFails,
             BeforeID
    <2>2. pc' \in CreateSteps => pc \in CreateSteps
      BY HandlerMoves DEF CreateSteps, DeleteSteps
    <2> QED BY <1>2, <2>1, <2>2
  <1> QED
    BY <1>3, <1>4, <1>6, <1>7, <1>8, <1>9
       DEF Handler, CreateOrUpdate, Delete

\* Removing the label is a write like the user's others.
LEMMA RemoveLabelWrites ==
    ASSUME TypeOK, RemoveLabel
    PROVE  /\ TypeOK'
           /\ UNCHANGED <<pc, obj, res>> /\ ~fresh' /\ queued' = "now"
  <1>1. [ls EXCEPT !.id = FALSE] \in Landscapers
    BY DEF TypeOK, Landscapers
  <1>2. userOps' \in Nat
    BY DEF TypeOK, RemoveLabel, UserOp
  <1>3. TypeOK'
    BY <1>1, <1>2, Zenon DEF TypeOK, RemoveLabel, OtherWrite, install, config
  <1> QED BY <1>3 DEF RemoveLabel, OtherWrite

LEMMA LabelInvKept ==
    ASSUME TypeOK, LabelInv, [LabelNext]_vars
    PROVE  LabelInv'
  <1>1. fresh \in BOOLEAN /\ ls \in Landscapers /\ obj \in Landscapers
    BY DEF TypeOK
  <1>2. CASE UNCHANGED vars
    BY <1>2 DEF vars, local, LabelInv, FreshInv, SameContent, SameStatus
  <1>3. CASE Get
    <2>1. SameContent(ls, ls)
      BY <1>1, ContentKept
    <2> QED
      BY <1>3, <2>1, GetMoves
         DEF local, LabelInv, FreshInv, CreateSteps, DeleteSteps, BeforeID
  <1>4. CASE Handler
    <2>1. /\ FreshInv' /\ (fresh' \/ queued' = "now")
          /\ pc \in DeleteSteps => obj'.deleting
      <3>1. pc # "idle"
        BY <1>4, HandlerMoves DEF CreateSteps, DeleteSteps
      <3>2. FreshInv /\ (fresh \/ queued = "now")
            /\ (pc \in DeleteSteps => obj.deleting)
        BY <3>1 DEF LabelInv
      <3>3. CASE KeepsContent
        BY <3>2, <3>3
           DEF FreshInv, KeepsContent, SameContent, SameStatus, DeleteSteps
      <3>4. CASE LetsGo
        BY <3>2, <3>4 DEF FreshInv, LetsGo, SameContent
      <3> QED BY <1>4, <3>2, <3>3, <3>4, HandlerKeepsContent
    <2>2. fresh' => obj'.id = ls'.id
      BY <1>4, HandlerLabel DEF LabelInv
    <2>3. pc' \in CreateSteps \ BeforeID => obj'.id
      BY <1>4, HandlerLabel DEF LabelInv
    <2>4. pc' \in DeleteSteps => obj'.deleting
      BY <1>4, <2>1, HandlerMoves DEF CreateSteps, DeleteSteps
    <2>5. pc' = "finish" => res' = "error" \/ obj'.id \/ obj'.deleting
      BY <1>4, <2>1, HandlerLabel, HandlerMoves DEF LabelInv
    <2>6. pc' # "idle"
      BY <1>4, HandlerMoves DEF CreateSteps, DeleteSteps
    <2> QED
      BY <2>1, <2>2, <2>3, <2>4, <2>5, <2>6 DEF LabelInv
  <1>5. CASE Finish
    <2>1. /\ pc = "finish" /\ pc' = "idle" /\ ~fresh'
      BY <1>5, FinishMoves
    <2>2. queued' # "now" => UNCHANGED ls /\ (~ls.exists \/ (queued # "now" /\ res # "error"))
      BY <1>5 DEF Finish
    <2>3. ls'.exists /\ ~ls'.deleting /\ queued' # "now" => ls'.id
      BY <2>1, <2>2 DEF LabelInv, FreshInv, SameContent
    <2> QED
      BY <2>1, <2>3 DEF LabelInv, FreshInv, CreateSteps, DeleteSteps
  <1>6. CASE Crash
    <2>1. /\ pc' = "idle" /\ ~fresh' /\ UNCHANGED ls
          /\ ls.exists => queued' = "now"
      BY <1>6 DEF Crash, Rest
    <2> QED BY <2>1 DEF LabelInv, FreshInv, CreateSteps, DeleteSteps
  <1>7. CASE Others \/ RemoveLabel
    <2>1. /\ UNCHANGED <<pc, obj, res>>
          /\ UNCHANGED <<ls, queued, fresh>> \/ (~fresh' /\ queued' = "now")
      BY <1>7, OthersWrite, RemoveLabelWrites
    <2> QED BY <2>1 DEF LabelInv, FreshInv, SameContent, SameStatus
  <1> QED
    BY <1>2, <1>3, <1>4, <1>5, <1>6, <1>7, StepKinds DEF LabelNext

\* The types and LabelInv are invariants, with that user as well.
THEOREM LabelCorrect == LabelSpec => [](TypeOK /\ LabelInv)
  <1>1. Init => LabelInv
    <2> SUFFICES ASSUME Init PROVE LabelInv
      OBVIOUS
    <2>1. ls = NoLandscaper /\ pc = "idle" /\ ~fresh
      BY DEF Init
    <2> QED
      BY <2>1, EmptyRecords DEF LabelInv, FreshInv, CreateSteps, DeleteSteps
  <1>2. TypeOK /\ LabelInv /\ [LabelNext]_vars => TypeOK' /\ LabelInv'
    <2> SUFFICES ASSUME TypeOK, LabelInv, [LabelNext]_vars
                 PROVE  TypeOK' /\ LabelInv'
      OBVIOUS
    <2>1. TypeOK'
      <3>1. CASE UNCHANGED vars
        BY <3>1 DEF TypeOK, vars, local, install, config, bounds
      <3> QED
        BY <3>1, TypeReconcile, TypeFault, TypeUser, TypeEnvironment,
           RemoveLabelWrites DEF LabelNext, Next
    <2> QED BY <2>1, LabelInvKept
  <1> QED BY <1>1, <1>2, TypeInit, PTL DEF LabelSpec

(***************************************************************************)
(* LabelComesBack: a Landscaper at rest that is not being deleted carries  *)
(* its instance id, however often the label is removed.                    *)
(***************************************************************************)
THEOREM LabelComesBackCorrect == LabelSpec => []LabelComesBack
  <1>1. LabelInv => LabelComesBack
    BY DEF LabelInv, LabelComesBack
  <1> QED BY <1>1, LabelCorrect, PTL

-----------------------------------------------------------------------------
(* Changes of the provider config, with no event of the watch dropped.     *)

\* Nothing but the timer is on its way to the resource.
Quiet == ls.exists /\ ~ls.deleting /\ queued # "now"

\* What was read of a provider config is present, or its change has an event.
Noticed(c) ==
    /\ c.name \in ProviderConfigNames
    /\ \/ c.name \in configEvents
       \/ ~providerConfigs[c.name].exists
       \/ c = ReadConfig(c.name)

Done == pc = "finish" /\ st.phase = "Ready"

Failed == pc = "finish" /\ res = "error"

BeforeConfig ==
    {"ensureFinalizer", "checkReconcileAnnotation", "ensureInstanceID",
     "getProviderConfig", "recordProviderConfig"}

AfterInstall == {"reconcileTLSRoute", "isTLSRouteReady", "checkReadiness"}

\* A handler says ready only at its end.
DoneInv ==
    /\ pc \in CreateSteps \cup DeleteSteps => st.phase # "Ready"
    /\ Done => res = "requeue"

\* While it is quiet the worker's copy is the stored resource, with a reference
\* that could not be recorded at most, and no annotation waits unseen.
QuietInv ==
    /\ pc # "idle" =>
           /\ oldStatus.phase = ls.status.phase
           /\ obj.annotated = ls.annotated
           /\ obj.status.ref = ls.status.ref \/ Failed
    /\ ls.annotated =>
           pc \in {"ensureFinalizer", "checkReconcileAnnotation"} \/ Failed

\* The config that is being installed, or was, is the one that the recorded
\* reference names, and its changes find their way.
NoticedInv ==
    /\ pc = "recordProviderConfig" /\ ls.status.ref = cfg.name => Noticed(cfg)
    /\ pc \in CreateSteps \ BeforeConfig \/ Done =>
           Noticed(cfg) /\ ls.status.ref = cfg.name
    /\ pc \in AfterInstall \/ Done => applied = cfg
    /\ pc = "idle" /\ ls.status.phase = "Ready" =>
           Noticed(applied) /\ ls.status.ref = applied.name

ConfigInv == DoneInv /\ (Quiet => QuietInv /\ NoticedInv)

\* A handler that leaves it quiet writes nothing, and in its copy at most a
\* reference, before it fails.
LEMMA QuietHandler ==
    ASSUME TypeOK, Handler, ls.exists, pc \in CreateSteps, queued' # "now"
    PROVE  /\ UNCHANGED <<ls, queued>>
           /\ obj'.annotated = obj.annotated
           /\ \/ obj'.status.ref = obj.status.ref
              \/ pc' = "finish" /\ res' = "error"
           /\ pc = "checkReconcileAnnotation" =>
                 ~obj.annotated \/ (pc' = "finish" /\ res' = "error")
  <1>1. obj \in Landscapers /\ cfg.name \in ConfigRefs
    BY DEF TypeOK, ReadConfigs
  <1> DEFINE copy == [obj EXCEPT !.status.ref = cfg.name]
  <1>2. copy.annotated = obj.annotated /\ copy.status.ref = cfg.name
    BY <1>1 DEF Landscapers, LandscaperStatuses
  <1> HIDE DEF copy
  <1>3. CASE EnsureFinalizer \/ CheckReconcileAnnotation \/ EnsureInstanceID
    BY <1>3
       DEF EnsureFinalizer, CheckReconcileAnnotation, EnsureInstanceID,
           StoreInstanceID, OwnWrite, Goto, Return
  <1>4. CASE RecordProviderConfig("recordProviderConfig", "clusterAccess",
                                  setInstallProviderConfigError(st),
                                  IsVersionAvailable)
    BY <1>2, <1>4 DEF RecordProviderConfig, OwnWrite, Goto, Return, copy
  <1>5. CASE CallFails
    <2>1. KeptCopy \in {obj, copy}
      BY DEF KeptCopy, copy
    <2> QED BY <1>2, <1>5, <2>1 DEF CallFails, Return
  <1>6. CASE Delete
    BY <1>6
       DEF Delete, GetProviderConfig, RecordProviderConfig, AccessInDeletion,
           ClusterAccess, CreateConfig, DeleteTLSRoute, DeleteCA,
           UninstallLandscaperInstance, Uninstall, ReconcileDelete,
           RemoveFinalizer, CreateSteps
  <1>7. CASE \/ GetProviderConfig("getProviderConfig", "recordProviderConfig",
                                  setInstallProviderConfigError(st))
             \/ ClusterAccess("clusterAccess", "reconcileGateway",
                              setInstallWaitForClusterAccessReady(st))
             \/ ReconcileGateway
             \/ CreateConfig("createConfig", "syncCA")
             \/ SyncCA \/ InstallLandscaperInstance \/ ReconcileTLSRoute
             \/ IsTLSRouteReady \/ CheckReadiness
             \/ InstallerFails \/ ReconcileDeleteFails
    BY <1>7
       DEF GetProviderConfig, ClusterAccess, ReconcileGateway, CreateConfig,
           SyncCA, InstallLandscaperInstance, Install, ReconcileTLSRoute,
           IsTLSRouteReady, CheckReadiness, InstallerFails, InstallFails,
           UninstallFails, ReconcileDeleteFails
  <1> QED
    BY <1>3, <1>4, <1>5, <1>6, <1>7 DEF Handler, CreateOrUpdate

\* The config from where it is read to where it has been installed.
LEMMA ConfigOrder ==
    ASSUME TypeOK, Handler, pc \in CreateSteps
    PROVE  /\ UNCHANGED <<oldStatus, config>>
           /\ pc = "getProviderConfig" => obj' = obj
           /\ pc' = "recordProviderConfig" =>
                 \E p \in ConfigCandidates(obj) :
                     providerConfigs[p].exists /\ cfg' = ReadConfig(p)
           /\ pc' \in CreateSteps \ BeforeConfig =>
                 /\ cfg' = cfg
                 /\ \/ pc \in CreateSteps \ BeforeConfig
                    \/ /\ pc = "recordProviderConfig"
                       /\ \/ obj.status.ref = cfg.name
                          \/ ~ls.exists \/ queued' = "now"
           /\ pc' \in AfterInstall =>
                 \/ applied' = cfg
                 \/ pc \in AfterInstall /\ applied' = applied
           /\ pc = "checkReadiness" =>
                 res' = "requeue" /\ UNCHANGED <<cfg, applied>>
           /\ pc' \in {"ensureFinalizer", "checkReconcileAnnotation"} =>
                 pc = "ensureFinalizer"
           /\ pc' # "finish" => pc' \in CreateSteps
  <1>1. CASE Delete
    BY <1>1
       DEF Delete, GetProviderConfig, RecordProviderConfig, AccessInDeletion,
           ClusterAccess, CreateConfig, DeleteTLSRoute, DeleteCA,
           UninstallLandscaperInstance, Uninstall, ReconcileDelete,
           RemoveFinalizer, CreateSteps
  <1>2. CASE CallFails \/ InstallerFails \/ ReconcileDeleteFails
    BY <1>2
       DEF CallFails, InstallerFails, InstallFails, InstallError,
           UninstallFails, UninstallError, ReconcileDeleteFails, KeptCopy,
           Return, CreateSteps, BeforeConfig, AfterInstall, config
  <1>3. CASE CreateOrUpdate
    BY <1>3
       DEF CreateOrUpdate, EnsureFinalizer, OwnWrite, CheckReconcileAnnotation,
           EnsureInstanceID, StoreInstanceID, GetProviderConfig,
           RecordProviderConfig, ClusterAccess, WaitForAccess, ReconcileGateway,
           WaitForGateway, CreateConfig, SyncCA, InstallLandscaperInstance,
           Install, ReconcileTLSRoute, IsTLSRouteReady, CheckReadiness,
           InstanceReady, Goto, Return, install, config, CreateSteps,
           BeforeConfig, AfterInstall
  <1> QED BY <1>1, <1>2, <1>3 DEF Handler

\* What has been noticed stays so when configs are edited.
LEMMA EditIsNoticed ==
    ASSUME TypeOK, EditProviderConfig
    PROVE  \A c : Noticed(c) => Noticed(c)'
  <1>1. PICK p \in ProviderConfigNames, v \in ConfigValues :
           /\ providerConfigs' = [providerConfigs EXCEPT ![p] = v]
           /\ configEvents' =
                  IF v = [providerConfigs[p] EXCEPT !.default = v.default]
                  THEN configEvents ELSE configEvents \cup {p}
    BY DEF EditProviderConfig
  <1>2. /\ providerConfigs[p] \in ConfigContents
        /\ providerConfigs'[p] = v
        /\ \A q \in ProviderConfigNames \ {p} :
               providerConfigs'[q] = providerConfigs[q]
    BY <1>1 DEF TypeOK
  <1>3. v = [providerConfigs[p] EXCEPT !.default = v.default] =>
           /\ v.exists = providerConfigs[p].exists
           /\ v.versions = providerConfigs[p].versions
           /\ v.ca = providerConfigs[p].ca
    BY <1>2 DEF ConfigContents
  <1> SUFFICES ASSUME NEW c, Noticed(c) PROVE Noticed(c)'
    OBVIOUS
  <1>4. CASE c.name # p
    BY <1>1, <1>2, <1>4 DEF Noticed, ReadConfig
  <1>5. CASE c.name = p /\ p \in configEvents'
    BY <1>5, <1>1 DEF Noticed
  <1>6. CASE c.name = p /\ p \notin configEvents'
    <2>1. v = [providerConfigs[p] EXCEPT !.default = v.default]
      BY <1>1, <1>6
    <2>2. ~providerConfigs[p].exists \/ c = ReadConfig(p)
      BY <1>1, <1>6, <2>1 DEF Noticed
    <2>3. ReadConfig(p)' = ReadConfig(p) /\ (providerConfigs[p].exists)' = providerConfigs[p].exists
      BY <1>2, <1>3, <2>1 DEF ReadConfig
    <2> QED BY <1>6, <2>2, <2>3 DEF Noticed
  <1> QED BY <1>4, <1>5, <1>6

\* The watch is handled: the resource is annotated, refers to something else,
\* or had been annotated before.
LEMMA WatchIsNoticed ==
    ASSUME TypeOK, NEW p \in ProviderConfigNames, mapProviderConfigToRequests(p),
           Quiet'
    PROVE  /\ UNCHANGED <<ls, queued, providerConfigs>>
           /\ ls.annotated \/ ls.status.ref # p
           /\ \A c : Noticed(c) /\ c.name # p => Noticed(c)'
  BY DEF mapProviderConfigToRequests, OtherWrite, IsUserOf, Quiet, Noticed,
         ReadConfig

LEMMA ConfigHandler ==
    ASSUME TypeOK, LabelInv, ConfigInv, Handler
    PROVE  ConfigInv'
  <1>1. /\ st \in ReconcileStatuses /\ obj \in Landscapers /\ ls \in Landscapers
        /\ cfg.name \in ConfigRefs /\ fresh \in BOOLEAN
    BY DEF TypeOK, ReadConfigs
  <1>2. /\ pc \in CreateSteps \cup DeleteSteps
        /\ pc' \in CreateSteps \cup DeleteSteps \cup {"finish"}
        /\ pc # "idle" /\ pc # "finish" /\ pc' # "idle"
    BY HandlerMoves DEF CreateSteps, DeleteSteps
  <1>3. st'.phase = "Ready" => pc = "checkReadiness" /\ pc' = "finish"
    BY <1>1, <1>2, HandlerMoves, SettersThatPromise
       DEF Setback, ConfigInv, DoneInv
  <1>4. pc = "checkReadiness" => res' = "requeue" /\ UNCHANGED <<cfg, applied>>
    BY ConfigOrder DEF CreateSteps
  <1>5. DoneInv'
    BY <1>2, <1>3, <1>4 DEF DoneInv, Done, CreateSteps, DeleteSteps
  <1> SUFFICES ASSUME Quiet' PROVE QuietInv' /\ NoticedInv'
    BY <1>5 DEF ConfigInv
  <1>6. Quiet /\ fresh
    <2>1. KeepsContent
      BY HandlerKeepsContent, EmptyRecords DEF LabelInv, LetsGo, Quiet
    <2>2. Quiet
      BY <2>1 DEF KeepsContent, SameContent, Quiet
    <2> QED BY <1>2, <2>2 DEF LabelInv, Quiet
  <1>7. QuietInv /\ NoticedInv
    BY <1>6 DEF ConfigInv
  <1>8. pc \in CreateSteps
    BY <1>2, <1>6 DEF LabelInv, FreshInv, SameContent, Quiet
  <1>9. /\ UNCHANGED <<ls, queued, oldStatus, providerConfigs, configEvents>>
        /\ \A c : Noticed(c) => Noticed(c)'
    <2>1. UNCHANGED <<ls, queued, oldStatus, providerConfigs, configEvents>>
      BY <1>6, <1>8, QuietHandler, ConfigOrder DEF Quiet, config
    <2> QED BY <2>1 DEF Noticed, ReadConfig
  <1>10. ~Failed
    BY <1>2 DEF Failed
  <1>11. QuietInv'
    <2>1. oldStatus'.phase = ls'.status.phase /\ obj'.annotated = ls'.annotated
      BY <1>2, <1>6, <1>7, <1>8, <1>9, QuietHandler DEF QuietInv, Quiet
    <2>2. obj'.status.ref = ls'.status.ref \/ Failed'
      BY <1>2, <1>6, <1>7, <1>8, <1>9, <1>10, QuietHandler
         DEF QuietInv, Quiet, Failed
    <2>3. ls'.annotated =>
             pc' \in {"ensureFinalizer", "checkReconcileAnnotation"} \/ Failed'
      <3>1. ASSUME ls.annotated
            PROVE  pc' \in {"ensureFinalizer", "checkReconcileAnnotation"} \/ Failed'
        <4>1. pc \in {"ensureFinalizer", "checkReconcileAnnotation"} /\ obj.annotated
          BY <1>2, <1>7, <1>10, <3>1 DEF QuietInv
        <4>2. CASE pc = "checkReconcileAnnotation"
          BY <1>6, <1>8, <4>1, <4>2, QuietHandler DEF Failed, Quiet
        <4>3. CASE pc = "ensureFinalizer"
          BY <4>3
             DEF Handler, CreateOrUpdate, EnsureFinalizer, Goto, Return,
                 CheckReconcileAnnotation, EnsureInstanceID, GetProviderConfig,
                 RecordProviderConfig, ClusterAccess, ReconcileGateway,
                 CreateConfig, SyncCA, InstallLandscaperInstance, Install,
                 ReconcileTLSRoute, IsTLSRouteReady, CheckReadiness, Delete,
                 AccessInDeletion, DeleteTLSRoute, DeleteCA,
                 UninstallLandscaperInstance, Uninstall, ReconcileDelete,
                 RemoveFinalizer, CallFails, InstallerFails, InstallFails,
                 UninstallFails, ReconcileDeleteFails, Failed
        <4> QED BY <4>1, <4>2, <4>3
      <3> QED BY <1>9, <3>1
    <2> QED BY <1>2, <2>1, <2>2, <2>3 DEF QuietInv
  <1>12. pc' = "recordProviderConfig" => Noticed(cfg')
    <2> SUFFICES ASSUME pc' = "recordProviderConfig" PROVE Noticed(cfg')
      OBVIOUS
    <2>1. PICK p \in ConfigCandidates(obj) :
             providerConfigs[p].exists /\ cfg' = ReadConfig(p)
      BY <1>8, ConfigOrder
    <2>2. p \in ProviderConfigNames
      BY <1>1 DEF ConfigCandidates, Landscapers, LandscaperStatuses, ConfigRefs
    <2> QED BY <2>1, <2>2 DEF Noticed, ReadConfig
  <1>13. pc' \in CreateSteps \ BeforeConfig =>
            /\ cfg' = cfg /\ Noticed(cfg) /\ ls.status.ref = cfg.name
    <2> SUFFICES ASSUME pc' \in CreateSteps \ BeforeConfig
                 PROVE  cfg' = cfg /\ Noticed(cfg) /\ ls.status.ref = cfg.name
      OBVIOUS
    <2>1. CASE pc \in CreateSteps \ BeforeConfig
      BY <1>7, <1>8, <2>1, ConfigOrder DEF NoticedInv
    <2>2. CASE pc = "recordProviderConfig" /\ obj.status.ref = cfg.name
      BY <1>2, <1>7, <1>8, <1>10, <2>2, ConfigOrder DEF NoticedInv, QuietInv
    <2> QED BY <1>6, <1>8, <1>9, <2>1, <2>2, ConfigOrder DEF Quiet
  <1>14. Done' => /\ cfg' = cfg /\ applied' = applied /\ applied = cfg
                  /\ Noticed(cfg) /\ ls.status.ref = cfg.name
    BY <1>3, <1>4, <1>7
       DEF Done, NoticedInv, AfterInstall, CreateSteps, BeforeConfig
  <1>15. pc' \in AfterInstall => applied' = cfg'
    <2>1. pc' \in AfterInstall => pc' \in CreateSteps \ BeforeConfig
      BY DEF AfterInstall, CreateSteps, BeforeConfig
    <2> QED BY <1>7, <1>8, <1>13, <2>1, ConfigOrder DEF NoticedInv
  <1>16. NoticedInv'
    BY <1>2, <1>9, <1>12, <1>13, <1>14, <1>15 DEF NoticedInv
  <1> QED BY <1>11, <1>16

LEMMA ConfigInvKept ==
    ASSUME TypeOK, LabelInv, ConfigInv, [LabelNext]_vars, [~HandlerFails]_vars
    PROVE  ConfigInv'
  <1> USE DEF Done, Failed
  <1>1. CASE UNCHANGED vars
    BY <1>1
       DEF vars, local, install, config, ConfigInv, DoneInv, Quiet, QuietInv,
           NoticedInv, Noticed, ReadConfig
  <1>2. CASE Get
    <2>1. CASE ~ls.exists /\ UNCHANGED <<local, ls>>
      BY <2>1 DEF ConfigInv, DoneInv, Quiet, local
    <2>2. CASE /\ ls.exists /\ UNCHANGED ls /\ obj' = ls /\ oldStatus' = ls.status
               /\ \/ /\ ~ls.deleting /\ pc' = "ensureFinalizer"
                     /\ st' = newCreateOrUpdateStatus(ls.generation)
                  \/ /\ ls.deleting /\ pc' = "getProviderConfigD"
                     /\ st' = newDeleteStatus(ls.generation)
      <3>1. st'.phase # "Ready"
        BY <2>2 DEF newCreateOrUpdateStatus, newDeleteStatus
      <3> QED
        BY <2>2, <3>1
           DEF ConfigInv, DoneInv, Quiet, QuietInv, NoticedInv, CreateSteps,
               BeforeConfig, AfterInstall
    <2> QED BY <1>2, <2>1, <2>2 DEF Get, IsDeletion
  <1>3. CASE Handler
    BY <1>3, ConfigHandler
  <1>4. CASE Finish
    <2>1. pc = "finish" /\ pc' = "idle"
      BY <1>4, FinishMoves
    <2>2. DoneInv'
      BY <2>1 DEF DoneInv, CreateSteps, DeleteSteps
    <2> SUFFICES ASSUME Quiet' PROVE QuietInv' /\ NoticedInv'
      BY <2>2 DEF ConfigInv
    <2>3. /\ UNCHANGED <<ls, applied, providerConfigs, configEvents>>
          /\ queued # "now" /\ res # "error"
          /\ convertToLandscaperStatus(st, obj.status) = oldStatus
      BY <1>4 DEF Finish, Quiet, install, config
    <2>4. Quiet /\ QuietInv /\ NoticedInv
      BY <2>3 DEF Quiet, ConfigInv
    <2>5. oldStatus.phase = st.phase
      <3>1. obj.status \in LandscaperStatuses
        BY DEF TypeOK, Landscapers
      <3>2. convertToLandscaperStatus(st, obj.status).phase = st.phase
        BY <3>1 DEF convertToLandscaperStatus, LandscaperStatuses
      <3> QED BY <2>3, <3>2
    <2>6. QuietInv'
      BY <2>1, <2>3, <2>4 DEF QuietInv
    <2>7. ls.status.phase = "Ready" => Noticed(applied) /\ ls.status.ref = applied.name
      BY <2>1, <2>4, <2>5 DEF QuietInv, NoticedInv
    <2>8. Noticed(applied)' <=> Noticed(applied)
      BY <2>3 DEF Noticed, ReadConfig
    <2>9. NoticedInv'
      BY <2>1, <2>3, <2>7, <2>8 DEF NoticedInv, CreateSteps, AfterInstall
    <2> QED BY <2>6, <2>9
  <1>5. CASE Crash
    BY <1>5
       DEF Crash, Rest, ConfigInv, DoneInv, Quiet, CreateSteps, DeleteSteps
  <1>6. CASE Others \/ RemoveLabel
    <2>1. /\ UNCHANGED <<pc, obj, oldStatus, st, cfg, res, applied>>
          /\ UNCHANGED <<ls, queued>> \/ queued' = "now"
      <3>1. UNCHANGED applied
        BY <1>6
           DEF Others, HandlerFails, Outage, User, Create, Edit, Annotate,
               RequestDeletion, Environment, ReleaseForeign, EditProviderConfig,
               mapProviderConfigToRequests, GrantRequest, RemoveRequest,
               ProvideGateway, AcceptRoute, RollOut, install, RemoveLabel
      <3> QED BY <1>6, <3>1, OthersWrite DEF RemoveLabel, OtherWrite
    <2>2. DoneInv'
      BY <2>1 DEF ConfigInv, DoneInv
    <2> SUFFICES ASSUME Quiet' PROVE QuietInv' /\ NoticedInv'
      BY <2>2 DEF ConfigInv
    <2>3. UNCHANGED <<ls, queued>> /\ Quiet /\ QuietInv /\ NoticedInv
      BY <2>1 DEF ConfigInv, Quiet
    <2>4. QuietInv'
      BY <2>1, <2>3 DEF QuietInv
    <2>5. ASSUME \A c : Noticed(c) => Noticed(c)' PROVE NoticedInv'
      BY <2>1, <2>3, <2>5 DEF NoticedInv
    <2>6. CASE EditProviderConfig
      BY <2>4, <2>5, <2>6, EditIsNoticed
    <2>7. ASSUME NEW p \in ProviderConfigNames, mapProviderConfigToRequests(p)
          PROVE  NoticedInv'
      <3>1. /\ ls.annotated \/ ls.status.ref # p
            /\ \A c : Noticed(c) /\ c.name # p => Noticed(c)'
        BY <2>7, WatchIsNoticed
      <3>2. CASE ls.annotated
        <4>1. /\ pc # "recordProviderConfig" /\ pc \notin CreateSteps \ BeforeConfig
              /\ pc \notin AfterInstall /\ pc # "idle" /\ ~Done
          BY <2>3, <3>2
             DEF QuietInv, ConfigInv, DoneInv, CreateSteps, BeforeConfig,
                 AfterInstall
        <4> QED BY <2>1, <4>1 DEF NoticedInv
      <3>3. CASE ls.status.ref # p
        BY <2>1, <2>3, <3>1, <3>3
           DEF NoticedInv
      <3> QED BY <3>1, <3>2, <3>3
    <2>8. CASE UNCHANGED <<providerConfigs, configEvents>>
      BY <2>4, <2>5, <2>8 DEF Noticed, ReadConfig
    <2>9. \/ EditProviderConfig
          \/ \E p \in ProviderConfigNames : mapProviderConfigToRequests(p)
          \/ UNCHANGED <<providerConfigs, configEvents>>
      <3>1. ~HandlerFails \/ UNCHANGED vars
        OBVIOUS
      <3> QED
        BY <1>6, <3>1
           DEF Others, Outage, User, Create, Edit, Annotate, RequestDeletion,
               Environment, ReleaseForeign, GrantRequest, RemoveRequest,
               ProvideGateway, AcceptRoute, RollOut, RemoveLabel, config, vars
    <2> QED BY <2>4, <2>6, <2>7, <2>8, <2>9
  <1> QED
    BY <1>1, <1>2, <1>3, <1>4, <1>5, <1>6, StepKinds DEF LabelNext

(***************************************************************************)
(* ConfigChangesAreNoticed: as long as the handler of the watch can list   *)
(* and annotate, no change of a provider config is missed, whichever step  *)
(* of the reconciliation it falls between, with any number of configs,     *)
(* edits, failing calls and crashes.  With HandlerFails an event may be    *)
(* lost, and the change is found by the periodic reconciliation only.      *)
(***************************************************************************)
THEOREM ConfigChangesCorrect ==
    LabelSpec /\ [][~HandlerFails]_vars => []ConfigChangesAreNoticed
  <1>1. Init => ConfigInv
    <2> SUFFICES ASSUME Init PROVE ConfigInv
      OBVIOUS
    <2>1. ls = NoLandscaper /\ pc = "idle"
      BY DEF Init
    <2> QED
      BY <2>1, EmptyRecords
         DEF ConfigInv, DoneInv, Done, Quiet, CreateSteps, DeleteSteps
  <1>2. /\ TypeOK /\ LabelInv /\ ConfigInv
        /\ [LabelNext]_vars /\ [~HandlerFails]_vars
        => ConfigInv'
    BY ConfigInvKept
  <1>3. ConfigInv => ConfigChangesAreNoticed
    BY DEF ConfigInv, Quiet, NoticedInv, Noticed, ConfigChangesAreNoticed
  <1> QED BY <1>1, <1>2, <1>3, LabelCorrect, PTL DEF LabelSpec
=============================================================================
