---------------------------- MODULE EventHandlers ----------------------------
(***************************************************************************)
(* How a change on the platform cluster reaches the Landscapers            *)
(* (SetupWithManager and the three handlers of landscaper_controller.go).  *)
(* Provider configs, image pull secrets and CA bundle config maps are      *)
(* watched; each watch runs its handler for one event at a time, the three *)
(* of them next to each other and next to the worker.  A handler finds out *)
(* whether the object is in use, lists the Landscapers and then annotates  *)
(* them one by one, on the strength of that list.  An annotation is a      *)
(* write, so its own event puts the Landscaper into the work queue.        *)
(*                                                                         *)
(* The reconciliation is reduced to what reads the watched objects and to  *)
(* the writes that the handlers meet; LandscaperReconciler has the rest.   *)
(* The ServiceProvider, whose list of pull secrets applies where a         *)
(* provider config has none, is read but not watched.                      *)
(***************************************************************************)
EXTENDS Integers, FiniteSets

CONSTANTS
    Landscapers,      \* names of Landscaper resources
    ProviderConfigs,  \* names of ProviderConfig resources
    Secrets,          \* names of image pull secrets
    CABundles,        \* names of CA bundle config maps
    NoCA, NoRef,      \* nil references
    SpecRef,          \* the provider config that the spec of a Landscaper names
    ConfigValues,     \* contents an operator gives to a ProviderConfig
    Scenarios         \* bound: the Landscapers there are, and what happens to
                      \* them, at most once each

\* inherits: it leaves the pull secrets to the ServiceProvider.
ConfigContents ==
    [inherits : BOOLEAN, secrets : SUBSET Secrets, ca : CABundles \cup {NoCA}]

\* What operators, users and failures do to the system.
Disturbances ==
    {"config", "contents", "provider", "deletion", "lookup", "refusal",
     "worker", "restart"}

ASSUME ConstantsAssumption ==
    /\ Secrets \cap CABundles = {}  \* a secret is not a config map
    /\ NoCA \notin CABundles
    /\ NoRef \notin ProviderConfigs \cup Landscapers
    /\ SpecRef \in [Landscapers -> ProviderConfigs]
    /\ ConfigValues \subseteq ConfigContents
    /\ Scenarios \subseteq (SUBSET Landscapers) \X (SUBSET Disturbances)

VARIABLES
    landscapers,      \* the Landscapers on the onboarding cluster
    queue,            \* their keys: "now", after a "timer", or "no"
    providerConfigs,  \* contents of the ProviderConfigs
    providerSecrets,  \* the list of pull secrets of the ServiceProvider
    contents,         \* a number for the contents of each secret and bundle
    events,           \* objects with an undelivered event, for each watch
    handlers,         \* what the handler of each watch is doing
    worker,           \* what the worker is doing
    installed,        \* what the instance of each Landscaper was given
    missed,           \* the Landscapers that were not told of a change (history)
    ahead             \* the disturbances that may still happen

sources == <<providerConfigs, providerSecrets, contents>>
vars    == <<landscapers, queue, sources, events, handlers, worker, installed,
             missed, ahead>>

-----------------------------------------------------------------------------

Watches == {"config", "secret", "bundle"}

Watched == [config |-> ProviderConfigs, secret |-> Secrets, bundle |-> CABundles]

\* ref: the provider config recorded in the status; ready: the phase.
LandscaperRecords ==
    [exists : BOOLEAN, deleting : BOOLEAN, annotated : BOOLEAN,
     ref : ProviderConfigs \cup {NoRef}, ready : BOOLEAN]

NoLandscaper ==
    [exists |-> FALSE, deleting |-> FALSE, annotated |-> FALSE, ref |-> NoRef,
     ready |-> FALSE]

IdleHandler == [at |-> "idle", object |-> NoRef, todo |-> {}]

Nothing == [inherits |-> TRUE, secrets |-> {}, ca |-> NoCA]

IdleWorker ==
    [at |-> "idle", key |-> NoRef, annotated |-> FALSE, fresh |-> FALSE,
     cfg |-> Nothing]

\* What is given to an instance: contents of secrets by name, and of a bundle.
NothingInstalled == [secrets |-> [s \in {} |-> 0], ca |-> NoCA, bundle |-> 0]

TypeOK ==
    /\ landscapers \in [Landscapers -> LandscaperRecords]
    /\ queue \in [Landscapers -> {"no", "timer", "now"}]
    /\ providerConfigs \in [ProviderConfigs -> ConfigContents]
    /\ providerSecrets \in SUBSET Secrets
    /\ contents \in [Secrets \cup CABundles -> Nat]
    /\ events \in [Watches -> SUBSET (ProviderConfigs \cup Secrets \cup CABundles)]
    /\ \A w \in Watches : events[w] \subseteq Watched[w]
    /\ handlers \in
           [Watches -> [at : {"idle", "provider", "configs", "list", "annotate"},
                        object : ProviderConfigs \cup Secrets \cup CABundles
                                     \cup {NoRef},
                        todo : SUBSET Landscapers]]
    /\ \A w \in Watches : handlers[w].todo # {} <=> handlers[w].at = "annotate"
    /\ worker \in
           [at : {"idle", "checkAnnotation", "readConfig", "recordRef",
                  "syncCA", "syncSecrets", "finish", "delete"},
            key : Landscapers \cup {NoRef}, annotated : BOOLEAN,
            fresh : BOOLEAN, cfg : ConfigContents]
    /\ \A l \in Landscapers :
           /\ DOMAIN installed[l].secrets \subseteq Secrets
           /\ \A s \in DOMAIN installed[l].secrets :
                  installed[l].secrets[s] \in Nat
           /\ installed[l].ca \in CABundles \cup {NoCA}
           /\ installed[l].bundle \in Nat
    /\ missed \in SUBSET Landscapers
    /\ ahead \in SUBSET Disturbances

-----------------------------------------------------------------------------
(* Writes to a Landscaper.  The watch on Landscapers has no predicate, so  *)
(* every write puts the key into the queue.                                *)

Write(l, new) ==
    /\ landscapers' = [landscapers EXCEPT ![l] = new]
    /\ queue' = [queue EXCEPT ![l] = "now"]

\* A write by a handler or a user makes the worker's copy an old one.
OtherWrite(l, new) ==
    /\ Write(l, new)
    /\ worker' = IF worker.key = l THEN [worker EXCEPT !.fresh = FALSE] ELSE worker

-----------------------------------------------------------------------------
(* The handlers.                                                           *)

Handle(w, h) == handlers' = [handlers EXCEPT ![w] = h]

Misses(ls) == missed' = missed \cup ls

\* A provider config is in use by whoever refers to it; secrets and bundles
\* are looked up first.
Deliver(w) ==
    /\ handlers[w].at = "idle"
    /\ \E o \in events[w] :
          /\ events' = [events EXCEPT ![w] = @ \ {o}]
          /\ Handle(w, [at |-> CASE w = "config" -> "list"
                                 [] w = "secret" -> "provider"
                                 [] w = "bundle" -> "configs",
                        object |-> o, todo |-> {}])
    /\ UNCHANGED <<landscapers, queue, sources, worker, installed, missed, ahead>>

\* isReferencedImagePullSecret asks the ServiceProvider first; an error there
\* is only logged.
LookInProvider ==
    LET h == handlers["secret"]
    IN  /\ h.at = "provider"
        /\ Handle("secret", [h EXCEPT !.at =
               IF h.object \in providerSecrets THEN "list" ELSE "configs"])
        /\ UNCHANGED <<landscapers, queue, sources, events, worker, installed,
                       missed, ahead>>

\* Mutant: only the list of the ServiceProvider counts.
RefersTo_ProviderOnly(w, cfg, o) == w = "bundle" /\ cfg.ca = o

\* The end of isReferencedImagePullSecret, and isReferencedCaConfigMap.
RefersTo(w, cfg, o) ==
    \/ w = "secret" /\ ~cfg.inherits /\ o \in cfg.secrets
    \/ w = "bundle" /\ cfg.ca = o

LookInConfigs(w) ==
    LET h == handlers[w]
    IN  /\ h.at = "configs"
        /\ Handle(w, IF \E p \in ProviderConfigs :
                            RefersTo(w, providerConfigs[p], h.object)
                     THEN [h EXCEPT !.at = "list"] ELSE IdleHandler)
        /\ UNCHANGED <<landscapers, queue, sources, events, worker, installed,
                       missed, ahead>>

(***************************************************************************)
(* What is left to do depends on the list alone: EnsureAnnotation makes no *)
(* call for a Landscaper that has the annotation in the list, and the      *)
(* config handler compares the reference in the listed status.             *)
(***************************************************************************)
List(w) ==
    LET h    == handlers[w]
        todo == {l \in Landscapers :
                    /\ landscapers[l].exists /\ ~landscapers[l].annotated
                    /\ w = "config" => landscapers[l].ref = h.object}
    IN  /\ h.at = "list"
        /\ Handle(w, IF todo = {} THEN IdleHandler
                     ELSE [h EXCEPT !.at = "annotate", !.todo = todo])
        /\ UNCHANGED <<landscapers, queue, sources, events, worker, installed,
                       missed, ahead>>

\* Mutant: the handler never finds that it has come to the end of its list.
Without_NoEnd(h, l) == [h EXCEPT !.todo = @ \ {l}]

Without(h, l) ==
    IF h.todo = {l} THEN IdleHandler ELSE [h EXCEPT !.todo = @ \ {l}]

\* Mutant: the handler gives up at the first error, whichever it is.
AfterError_Return(w, l) == IdleHandler

\* The handler of provider configs returns, the others log and go on.
AfterError(w, l) ==
    IF w = "config" THEN IdleHandler ELSE Without(handlers[w], l)

AnnotationFails(w, l) ==
    /\ Handle(w, AfterError(w, l))
    /\ Misses(IF w = "config" THEN handlers[w].todo ELSE {l})

\* A merge patch: it hits whatever is stored, and a second one is no change.
Annotate(w) ==
    /\ handlers[w].at = "annotate"
    /\ \E l \in handlers[w].todo :
          \/ /\ landscapers[l].exists
             /\ Handle(w, Without(handlers[w], l))
             /\ IF landscapers[l].annotated THEN UNCHANGED <<landscapers, queue, worker>>
                ELSE OtherWrite(l, [landscapers[l] EXCEPT !.annotated = TRUE])
             /\ UNCHANGED missed
          \/ /\ ~landscapers[l].exists
             /\ AnnotationFails(w, l)
             /\ UNCHANGED <<landscapers, queue, worker>>
    /\ UNCHANGED <<sources, events, installed, ahead>>

Handler(w) ==
    \/ Deliver(w)
    \/ w = "secret" /\ LookInProvider
    \/ LookInConfigs(w)
    \/ List(w)
    \/ Annotate(w)

-----------------------------------------------------------------------------
(* The worker: the calls of reconcile() that touch the watched objects.    *)

Step(at) == worker' = [worker EXCEPT !.at = at]

\* An error brings the key back at once.
Fails ==
    /\ worker' = IdleWorker
    /\ queue' = [queue EXCEPT ![worker.key] = "now"]
    /\ UNCHANGED landscapers

OwnWrite(new, at) ==
    /\ Write(worker.key, new)
    /\ worker' = [worker EXCEPT !.at = at, !.fresh = TRUE]

Take ==
    /\ worker.at = "idle"
    /\ \E l \in Landscapers :
          /\ queue[l] # "no"
          /\ queue' = [queue EXCEPT ![l] = "no"]
          /\ worker' = IF ~landscapers[l].exists THEN worker
                       ELSE [IdleWorker EXCEPT
                                !.at = IF landscapers[l].deleting THEN "delete"
                                       ELSE "checkAnnotation",
                                !.key = l,
                                !.annotated = landscapers[l].annotated,
                                !.fresh = TRUE]
          /\ missed' = missed \ {l}
    /\ UNCHANGED <<landscapers, sources, events, handlers, installed, ahead>>

CheckReconcileAnnotation ==
    /\ worker.at = "checkAnnotation"
    /\ IF worker.annotated
       THEN OwnWrite([landscapers[worker.key] EXCEPT !.annotated = FALSE],
                     "readConfig")
       ELSE Step("readConfig") /\ UNCHANGED <<landscapers, queue>>
    /\ UNCHANGED <<sources, events, handlers, installed, missed, ahead>>

GetProviderConfig ==
    /\ worker.at = "readConfig"
    /\ worker' = [worker EXCEPT !.at = "recordRef",
                                !.cfg = providerConfigs[SpecRef[worker.key]]]
    /\ UNCHANGED <<landscapers, queue, sources, events, handlers, installed,
                   missed, ahead>>

\* The reference goes into the status before the config is used.
RecordRef ==
    /\ worker.at = "recordRef"
    /\ LET l == worker.key
       IN  \/ /\ landscapers[l].ref = SpecRef[l]
             /\ Step("syncCA")
             /\ UNCHANGED <<landscapers, queue>>
          \/ /\ landscapers[l].ref # SpecRef[l] /\ worker.fresh
             /\ OwnWrite([landscapers[l] EXCEPT !.ref = SpecRef[l]], "syncCA")
          \/ /\ landscapers[l].ref # SpecRef[l] /\ ~worker.fresh
             /\ Fails
    /\ UNCHANGED <<sources, events, handlers, installed, missed, ahead>>

\* getImagePullSecrets, of all components together.
SecretNames(cfg) == IF cfg.inherits THEN providerSecrets ELSE cfg.secrets

\* createConfig settles the names of the secrets; the bundle is copied next.
CreateConfigAndSyncCA ==
    /\ worker.at = "syncCA"
    /\ LET cfg == worker.cfg
       IN  /\ installed' = [installed EXCEPT ![worker.key].ca = cfg.ca,
                  ![worker.key].bundle = IF cfg.ca = NoCA THEN 0 ELSE contents[cfg.ca]]
           /\ worker' = [worker EXCEPT !.at = "syncSecrets",
                                       !.cfg.secrets = SecretNames(cfg)]
    /\ UNCHANGED <<landscapers, queue, sources, events, handlers, missed, ahead>>

\* The installers copy the secrets to the clusters of the instance.
SyncSecrets ==
    /\ worker.at = "syncSecrets"
    /\ installed' = [installed EXCEPT ![worker.key].secrets =
                        [s \in worker.cfg.secrets |-> contents[s]]]
    /\ Step("finish")
    /\ UNCHANGED <<landscapers, queue, sources, events, handlers, missed, ahead>>

\* Mutant: a ready instance is not looked at again.
NextLook_Never == "no"

\* A ready instance is looked at again after ten minutes.
NextLook == "timer"

\* The status is written when it changes, and a conflict is an error.
Finish ==
    /\ worker.at = "finish"
    /\ LET l == worker.key
       IN  \/ /\ landscapers[l].ready
             /\ worker' = IdleWorker
             /\ queue' = [queue EXCEPT ![l] = IF @ = "now" THEN @ ELSE NextLook]
             /\ UNCHANGED landscapers
          \/ /\ ~landscapers[l].ready /\ worker.fresh
             /\ Write(l, [landscapers[l] EXCEPT !.ready = TRUE])
             /\ worker' = IdleWorker
          \/ /\ ~landscapers[l].ready /\ ~worker.fresh
             /\ Fails
    /\ UNCHANGED <<sources, events, handlers, installed, missed, ahead>>

\* The delete path ends with the removal of the finalizer.
Delete ==
    /\ worker.at = "delete"
    /\ \/ /\ worker.fresh
          /\ Write(worker.key, NoLandscaper)
          /\ worker' = IdleWorker
       \/ /\ ~worker.fresh
          /\ Fails
    /\ UNCHANGED <<sources, events, handlers, installed, missed, ahead>>

Worker ==
    \/ Take \/ CheckReconcileAnnotation \/ GetProviderConfig \/ RecordRef
    \/ CreateConfigAndSyncCA \/ SyncSecrets \/ Finish \/ Delete

-----------------------------------------------------------------------------
(* Operators, users and failures.                                          *)

Happens(kind) == kind \in ahead /\ ahead' = ahead \ {kind}

\* The watch on provider configs drops what leaves the spec alone.
EditProviderConfig ==
    /\ Happens("config")
    /\ \E p \in ProviderConfigs, v \in ConfigValues :
          /\ v # providerConfigs[p]
          /\ providerConfigs' = [providerConfigs EXCEPT ![p] = v]
          /\ events' = [events EXCEPT !["config"] = @ \cup {p}]
    /\ UNCHANGED <<landscapers, queue, providerSecrets, contents, handlers,
                   worker, installed, missed>>

Rotate ==
    /\ Happens("contents")
    /\ \E w \in {"secret", "bundle"} : \E o \in Watched[w] :
          /\ contents' = [contents EXCEPT ![o] = @ + 1]
          /\ events' = [events EXCEPT ![w] = @ \cup {o}]
    /\ UNCHANGED <<landscapers, queue, providerConfigs, providerSecrets,
                   handlers, worker, installed, missed>>

EditServiceProvider ==
    /\ Happens("provider")
    /\ \E names \in SUBSET Secrets :
          names # providerSecrets /\ providerSecrets' = names
    /\ Misses(Landscapers)
    /\ UNCHANGED <<landscapers, queue, providerConfigs, contents, events,
                   handlers, worker, installed>>

RequestDeletion ==
    /\ Happens("deletion")
    /\ \E l \in Landscapers :
          /\ landscapers[l].exists /\ ~landscapers[l].deleting
          /\ OtherWrite(l, [landscapers[l] EXCEPT !.deleting = TRUE])
    /\ UNCHANGED <<sources, events, handlers, installed, missed>>

\* The clusters cannot be read: ProviderConfigs or Landscapers are not listed.
\* (The map function runs for the old and for the new version of an updated
\* object; the failure outlasts both.)
LookupFails(w) ==
    /\ Happens("lookup")
    /\ handlers[w].at \in {"configs", "list"}
    /\ Handle(w, IdleHandler)
    /\ Misses(Landscapers)
    /\ UNCHANGED <<landscapers, queue, sources, events, worker, installed>>

AnnotationRefused(w) ==
    /\ Happens("refusal")
    /\ handlers[w].at = "annotate"
    /\ \E l \in handlers[w].todo : AnnotationFails(w, l)
    /\ UNCHANGED <<landscapers, queue, sources, events, worker, installed>>

WorkerFails ==
    /\ Happens("worker")
    /\ worker.at # "idle"
    /\ Fails
    /\ UNCHANGED <<sources, events, handlers, installed, missed>>

\* A new process lists all objects, and so gets an event for each of them.
Restart ==
    /\ Happens("restart")
    /\ worker' = IdleWorker
    /\ handlers' = [w \in Watches |-> IdleHandler]
    /\ events' = Watched
    /\ queue' = [l \in Landscapers |->
                    IF landscapers[l].exists THEN "now" ELSE "no"]
    /\ UNCHANGED <<landscapers, sources, installed, missed>>

Environment ==
    \/ EditProviderConfig \/ Rotate \/ EditServiceProvider \/ RequestDeletion
    \/ \E w \in Watches : LookupFails(w) \/ AnnotationRefused(w)
    \/ WorkerFails \/ Restart

-----------------------------------------------------------------------------

\* A process that has just started.
Init ==
    /\ \E scenario \in Scenarios :
          /\ landscapers = [l \in Landscapers |->
                 [NoLandscaper EXCEPT !.exists = l \in scenario[1]]]
          /\ ahead = scenario[2]
    /\ queue = [l \in Landscapers |-> IF landscapers[l].exists THEN "now" ELSE "no"]
    /\ providerConfigs \in [ProviderConfigs -> ConfigValues]
    /\ providerSecrets \in SUBSET Secrets
    /\ contents = [o \in Secrets \cup CABundles |-> 0]
    /\ events = [w \in Watches |-> {}]
    /\ handlers = [w \in Watches |-> IdleHandler]
    /\ worker = IdleWorker
    /\ installed = [l \in Landscapers |-> NothingInstalled]
    /\ missed = {}

Next == Worker \/ (\E w \in Watches : Handler(w)) \/ Environment

Spec == Init /\ [][Next]_vars

\* The worker serves its keys in turn, and each watch delivers its events.
Fairness ==
    /\ WF_vars(Worker)
    /\ \A l \in Landscapers : SF_vars(Take /\ worker'.key = l)
    /\ \A w \in Watches : WF_vars(Handler(w))

FairSpec == Spec /\ Fairness

-----------------------------------------------------------------------------

\* What an instance would be given now.
Wanted(l) ==
    LET cfg == providerConfigs[SpecRef[l]]
    IN  [secrets |-> [s \in SecretNames(cfg) |-> contents[s]],
         ca      |-> cfg.ca,
         bundle  |-> IF cfg.ca = NoCA THEN 0 ELSE contents[cfg.ca]]

\* No event is waiting or being handled.
WatchesQuiet ==
    \A w \in Watches : events[w] = {} /\ handlers[w].at = "idle"

\* Nothing will look at the Landscaper before the timer does.
Resting(l) ==
    /\ landscapers[l].exists /\ ~landscapers[l].deleting
    /\ queue[l] # "now" /\ worker.key # l

(***************************************************************************)
(* Changes reach everybody: when all events have been handled, every       *)
(* Landscaper that is left to its timer has the present contents of the    *)
(* provider config its status refers to, of its pull secrets and of its CA *)
(* bundle ("triggers reconciliation of Landscaper resources whenever a     *)
(* ProviderConfig they reference changes", mapProviderConfigToRequests),   *)
(* unless it is one of those that had to be missed: those of a lookup that *)
(* failed, the one whose own annotation was refused or came too late, and, *)
(* for a provider config, those that were to follow it.                    *)
(***************************************************************************)
ChangesReachEverybody ==
    WatchesQuiet =>
        \A l \in Landscapers \ missed :
            Resting(l) => installed[l] = Wanted(l)

(***************************************************************************)
(* Nothing is missed for good: once the objects stay as they are, every    *)
(* Landscaper that stays gets and keeps their contents, whatever was       *)
(* dropped on the way and although nobody watches the ServiceProvider: the *)
(* timer makes up for it.                                                  *)
(***************************************************************************)
NothingIsMissedForGood ==
    \A l \in Landscapers :
        <>[](~landscapers[l].exists \/ installed[l] = Wanted(l))
=============================================================================
