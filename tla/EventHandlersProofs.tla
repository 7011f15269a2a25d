------------------------- MODULE EventHandlersProofs -------------------------
(***************************************************************************)
(* Proofs about EventHandlers, for every set of Landscapers, configs,      *)
(* secrets and bundles, and every interleaving of the three watches with   *)
(* the worker: a change reaches everybody who is not counted as missed.    *)
(***************************************************************************)
EXTENDS EventHandlers, TLAPS

-----------------------------------------------------------------------------
(* Types.                                                                  *)

HandlerRecords ==
    [at : {"idle", "provider", "configs", "list", "annotate"},
     object : ProviderConfigs \cup Secrets \cup CABundles \cup {NoRef},
     todo : SUBSET Landscapers]

WorkerRecords ==
    [at : {"idle", "checkAnnotation", "readConfig", "recordRef", "syncCA",
           "syncSecrets", "finish", "delete"},
     key : Landscapers \cup {NoRef}, annotated : BOOLEAN, fresh : BOOLEAN,
     cfg : ConfigContents]

Installations ==
    [secrets : UNION {[S -> Nat] : S \in SUBSET Secrets},
     ca : CABundles \cup {NoCA}, bundle : Nat]

\* A handler that annotates has something left to do; a worker that is at
\* work has a key.
HandlerTypes ==
    /\ events \in [Watches -> SUBSET (ProviderConfigs \cup Secrets \cup CABundles)]
    /\ \A w \in Watches : events[w] \subseteq Watched[w]
    /\ handlers \in [Watches -> HandlerRecords]
    /\ \A w \in Watches : handlers[w].todo # {} <=> handlers[w].at = "annotate"

WorkerTypes ==
    /\ worker \in WorkerRecords
    /\ worker.at = "idle" <=> worker.key = NoRef

SourceTypes ==
    /\ providerConfigs \in [ProviderConfigs -> ConfigContents]
    /\ providerSecrets \in SUBSET Secrets
    /\ contents \in [Secrets \cup CABundles -> Nat]

LandscaperTypes ==
    /\ landscapers \in [Landscapers -> LandscaperRecords]
    /\ queue \in [Landscapers -> {"no", "timer", "now"}]
    /\ missed \in SUBSET Landscapers
    /\ ahead \in SUBSET Disturbances

Types ==
    /\ LandscaperTypes /\ SourceTypes /\ HandlerTypes /\ WorkerTypes
    /\ installed \in [Landscapers -> Installations]

LEMMA TypesSuffice == Types => TypeOK
  <1> SUFFICES ASSUME Types PROVE TypeOK
    OBVIOUS
  <1>1. ASSUME NEW l \in Landscapers
        PROVE  /\ DOMAIN installed[l].secrets \subseteq Secrets
               /\ \A s \in DOMAIN installed[l].secrets :
                      installed[l].secrets[s] \in Nat
               /\ installed[l].ca \in CABundles \cup {NoCA}
               /\ installed[l].bundle \in Nat
    <2>1. installed[l] \in Installations
      BY DEF Types
    <2>2. PICK S \in SUBSET Secrets : installed[l].secrets \in [S -> Nat]
      BY <2>1 DEF Installations
    <2> QED BY <2>1, <2>2 DEF Installations
  <1> QED
    BY <1>1
       DEF Types, LandscaperTypes, SourceTypes, HandlerTypes, WorkerTypes,
           HandlerRecords, WorkerRecords, TypeOK

LEMMA Constants ==
    /\ NoCA \notin CABundles /\ NoRef \notin ProviderConfigs \cup Landscapers
    /\ SpecRef \in [Landscapers -> ProviderConfigs]
    /\ ConfigValues \subseteq ConfigContents
    /\ Watched \in [Watches -> {ProviderConfigs, Secrets, CABundles}]
    /\ Nothing \in ConfigContents /\ IdleWorker \in WorkerRecords
    /\ IdleHandler \in HandlerRecords
    /\ NoLandscaper \in LandscaperRecords
  <1>1. Nothing \in ConfigContents
    BY DEF Nothing, ConfigContents
  <1>2. IdleWorker \in WorkerRecords
    BY <1>1 DEF IdleWorker, WorkerRecords
  <1> QED
    BY <1>1, <1>2, ConstantsAssumption
       DEF Watched, Watches, IdleHandler, HandlerRecords, NoLandscaper,
           LandscaperRecords

LEMMA TypeInit == Init => Types
  <1> SUFFICES ASSUME Init PROVE Types
    OBVIOUS
  <1>1. LandscaperTypes
    <2>1. PICK scenario \in Scenarios :
             /\ landscapers = [l \in Landscapers |->
                    [NoLandscaper EXCEPT !.exists = l \in scenario[1]]]
             /\ ahead = scenario[2]
      BY DEF Init
    <2>2. ahead \in SUBSET Disturbances
      BY <2>1, ConstantsAssumption
    <2>3. ASSUME NEW b \in BOOLEAN
          PROVE  [NoLandscaper EXCEPT !.exists = b] \in LandscaperRecords
      BY DEF NoLandscaper, LandscaperRecords
    <2>4. landscapers \in [Landscapers -> LandscaperRecords]
      <3>1. ASSUME NEW l \in Landscapers
            PROVE  [NoLandscaper EXCEPT !.exists = l \in scenario[1]]
                       \in LandscaperRecords
        <4>1. (l \in scenario[1]) \in BOOLEAN
          OBVIOUS
        <4> QED BY <2>3, <4>1, Zenon
      <3> QED BY <2>1, <3>1, Zenon
    <2> QED BY <2>2, <2>4 DEF Init, LandscaperTypes
  <1>2. SourceTypes
    BY Constants DEF Init, SourceTypes
  <1>3. HandlerTypes
    BY Constants DEF Init, HandlerTypes, IdleHandler
  <1>4. WorkerTypes
    BY Constants DEF Init, WorkerTypes, IdleWorker
  <1>5. installed \in [Landscapers -> Installations]
    <2>1. [s \in {} |-> 0] \in UNION {[S -> Nat] : S \in SUBSET Secrets}
      <3>1. [s \in {} |-> 0] \in [{} -> Nat] /\ {} \in SUBSET Secrets
        OBVIOUS
      <3> QED BY <3>1
    <2>2. NothingInstalled \in Installations
      BY <2>1 DEF NothingInstalled, Installations
    <2> QED BY <2>2 DEF Init
  <1> QED BY <1>1, <1>2, <1>3, <1>4, <1>5 DEF Types

\* A handler moves on.
LEMMA TypeHandle ==
    ASSUME HandlerTypes, NEW w \in Watches, NEW h \in HandlerRecords,
           h.todo # {} <=> h.at = "annotate", Handle(w, h),
           UNCHANGED events \/ \E o : events' = [events EXCEPT ![w] = @ \ {o}]
    PROVE  HandlerTypes'
  <1>1. /\ handlers' \in [Watches -> HandlerRecords]
        /\ \A v \in Watches : handlers'[v].todo # {} <=> handlers'[v].at = "annotate"
    BY DEF HandlerTypes, Handle
  <1>2. /\ events' \in [Watches -> SUBSET (ProviderConfigs \cup Secrets \cup CABundles)]
        /\ \A v \in Watches : events'[v] \subseteq Watched[v]
    BY DEF HandlerTypes
  <1> QED BY <1>1, <1>2 DEF HandlerTypes

\* What is left of a list.
LEMMA TypeWithout ==
    ASSUME HandlerTypes, NEW w \in Watches, NEW l \in handlers[w].todo
    PROVE  /\ Without(handlers[w], l) \in HandlerRecords
           /\ Without(handlers[w], l).todo # {} <=>
                  Without(handlers[w], l).at = "annotate"
           /\ Without(handlers[w], l).todo = handlers[w].todo \ {l}
           /\ handlers[w].todo \ {l} # {} =>
                  Without(handlers[w], l) = [handlers[w] EXCEPT !.todo = @ \ {l}]
  <1>1. handlers[w] \in HandlerRecords /\ handlers[w].at = "annotate"
    BY DEF HandlerTypes
  <1>2. CASE handlers[w].todo = {l}
    BY <1>2, Constants DEF Without, IdleHandler
  <1>3. CASE handlers[w].todo # {l}
    <2>1. handlers[w].todo \ {l} # {}
      BY <1>3
    <2> QED BY <1>1, <1>3, <2>1 DEF Without, HandlerRecords
  <1> QED BY <1>2, <1>3

LEMMA TypeAfterError ==
    ASSUME HandlerTypes, NEW w \in Watches, NEW l \in handlers[w].todo
    PROVE  /\ AfterError(w, l) \in HandlerRecords
           /\ AfterError(w, l).todo # {} <=> AfterError(w, l).at = "annotate"
  BY TypeWithout, Constants DEF AfterError, IdleHandler

\* A write by somebody else.
LEMMA TypeOtherWrite ==
    ASSUME Types, NEW l \in Landscapers, NEW new \in LandscaperRecords,
           OtherWrite(l, new)
    PROVE  /\ landscapers' \in [Landscapers -> LandscaperRecords]
           /\ queue' \in [Landscapers -> {"no", "timer", "now"}]
           /\ WorkerTypes'
  <1>1. worker' \in WorkerRecords /\ worker'.at = worker.at /\ worker'.key = worker.key
    BY DEF OtherWrite, Types, WorkerTypes, WorkerRecords
  <1> QED
    BY <1>1 DEF OtherWrite, Write, Types, LandscaperTypes, WorkerTypes

LEMMA TypeHandler ==
    ASSUME Types, NEW w \in Watches, Handler(w)
    PROVE  Types'
  <1>1. handlers[w] \in HandlerRecords /\ HandlerTypes
    BY DEF Types, HandlerTypes
  <1>2. CASE Deliver(w)
    <2>1. PICK o \in events[w] :
             /\ events' = [events EXCEPT ![w] = @ \ {o}]
             /\ Handle(w, [at |-> CASE w = "config" -> "list"
                                    [] w = "secret" -> "provider"
                                    [] w = "bundle" -> "configs",
                           object |-> o, todo |-> {}])
      BY <1>2 DEF Deliver
    <2> DEFINE h == [at |-> CASE w = "config" -> "list"
                              [] w = "secret" -> "provider"
                              [] w = "bundle" -> "configs",
                     object |-> o, todo |-> {}]
    <2>2. h \in HandlerRecords /\ h.todo = {} /\ h.at # "annotate"
      BY <1>1, <2>1 DEF HandlerTypes, HandlerRecords, Watches
    <2> HIDE DEF h
    <2>3. HandlerTypes'
      BY <1>1, <2>1, <2>2, TypeHandle DEF h
    <2> QED
      BY <1>2, <2>3
         DEF Deliver, Types, LandscaperTypes, SourceTypes, sources, WorkerTypes
  <1>3. ASSUME NEW h \in HandlerRecords, Handle(w, h),
               h.todo # {} <=> h.at = "annotate",
               UNCHANGED <<landscapers, queue, sources, events, worker,
                           installed, missed, ahead>>
        PROVE  Types'
    BY <1>1, <1>3, TypeHandle
       DEF Types, LandscaperTypes, SourceTypes, sources, WorkerTypes
  <1>4. CASE w = "secret" /\ LookInProvider
    <2> DEFINE h == [handlers[w] EXCEPT !.at =
               IF handlers[w].object \in providerSecrets THEN "list" ELSE "configs"]
    <2>1. h \in HandlerRecords /\ (h.todo # {} <=> h.at = "annotate")
      BY <1>1, <1>4 DEF HandlerTypes, HandlerRecords, LookInProvider
    <2>2. Handle(w, h)
      BY <1>4 DEF LookInProvider
    <2> HIDE DEF h
    <2> QED BY <1>3, <1>4, <2>1, <2>2 DEF LookInProvider
  <1>5. CASE LookInConfigs(w)
    <2>1. PICK h \in {[handlers[w] EXCEPT !.at = "list"], IdleHandler} : Handle(w, h)
      BY <1>5 DEF LookInConfigs
    <2>2. h \in HandlerRecords /\ (h.todo # {} <=> h.at = "annotate")
      BY <1>1, <1>5, Constants
         DEF HandlerTypes, HandlerRecords, LookInConfigs, IdleHandler
    <2> QED BY <1>3, <1>5, <2>1, <2>2 DEF LookInConfigs
  <1>6. CASE List(w)
    <2>1. PICK todo \in SUBSET Landscapers :
             Handle(w, IF todo = {} THEN IdleHandler
                       ELSE [handlers[w] EXCEPT !.at = "annotate", !.todo = todo])
      BY <1>6 DEF List
    <2> DEFINE h == IF todo = {} THEN IdleHandler
                    ELSE [handlers[w] EXCEPT !.at = "annotate", !.todo = todo]
    <2>2. h \in HandlerRecords /\ (h.todo # {} <=> h.at = "annotate")
      BY <1>1, Constants DEF HandlerRecords, IdleHandler
    <2> HIDE DEF h
    <2> QED BY <1>3, <1>6, <2>1, <2>2 DEF List, h
  <1>7. CASE Annotate(w)
    <2>1. PICK l \in handlers[w].todo :
             \/ /\ Handle(w, Without(handlers[w], l))
                /\ IF landscapers[l].annotated
                   THEN UNCHANGED <<landscapers, queue, worker>>
                   ELSE OtherWrite(l, [landscapers[l] EXCEPT !.annotated = TRUE])
                /\ UNCHANGED missed
             \/ /\ AnnotationFails(w, l)
                /\ UNCHANGED <<landscapers, queue, worker>>
      BY <1>7 DEF Annotate
    <2>2. l \in Landscapers
      BY <1>1 DEF HandlerRecords
    <2>3. HandlerTypes' /\ missed' \in SUBSET Landscapers
      <3>1. handlers[w].todo \in SUBSET Landscapers /\ missed \in SUBSET Landscapers
        BY <1>1 DEF HandlerRecords, Types, LandscaperTypes
      <3> QED
        BY <1>1, <1>7, <2>1, <2>2, <3>1, TypeHandle, TypeWithout, TypeAfterError
           DEF Annotate, AnnotationFails, Misses
    <2>4. [landscapers[l] EXCEPT !.annotated = TRUE] \in LandscaperRecords
      BY <2>2 DEF Types, LandscaperTypes, LandscaperRecords
    <2>5. /\ landscapers' \in [Landscapers -> LandscaperRecords]
          /\ queue' \in [Landscapers -> {"no", "timer", "now"}]
          /\ WorkerTypes'
      BY <2>1, <2>2, <2>4, TypeOtherWrite DEF Types, LandscaperTypes, WorkerTypes
    <2> QED
      BY <1>7, <2>3, <2>5 DEF Annotate, Types, LandscaperTypes, SourceTypes, sources
  <1> QED BY <1>2, <1>4, <1>5, <1>6, <1>7 DEF Handler

\* What the worker writes of a Landscaper, and where it goes on.
LEMMA TypeWork ==
    ASSUME Types, worker.at # "idle"
    PROVE  /\ worker.key \in Landscapers
           /\ \A new \in LandscaperRecords : Write(worker.key, new) =>
                  /\ landscapers' \in [Landscapers -> LandscaperRecords]
                  /\ queue' \in [Landscapers -> {"no", "timer", "now"}]
           /\ Fails => /\ UNCHANGED landscapers
                       /\ queue' \in [Landscapers -> {"no", "timer", "now"}]
                       /\ WorkerTypes'
  <1>1. worker.key \in Landscapers
    BY DEF Types, WorkerTypes, WorkerRecords
  <1>2. ASSUME NEW new \in LandscaperRecords, Write(worker.key, new)
        PROVE  /\ landscapers' \in [Landscapers -> LandscaperRecords]
               /\ queue' \in [Landscapers -> {"no", "timer", "now"}]
    BY <1>2 DEF Types, LandscaperTypes, Write
  <1>3. Fails => /\ UNCHANGED landscapers
                 /\ queue' \in [Landscapers -> {"no", "timer", "now"}]
                 /\ WorkerTypes'
    <2>1. IdleWorker.at = "idle" /\ IdleWorker.key = NoRef
      BY DEF IdleWorker
    <2> QED BY <2>1, Constants DEF Types, LandscaperTypes, Fails, WorkerTypes
  <1> QED BY <1>1, <1>2, <1>3

LEMMA TypeWorker ==
    ASSUME Types, Worker
    PROVE  Types'
  <1>1. UNCHANGED <<sources, events, handlers, ahead>>
    BY DEF Worker, Take, CheckReconcileAnnotation, GetProviderConfig, RecordRef,
           CreateConfigAndSyncCA, SyncSecrets, Finish, Delete
  <1> SUFFICES /\ landscapers' \in [Landscapers -> LandscaperRecords]
               /\ queue' \in [Landscapers -> {"no", "timer", "now"}]
               /\ WorkerTypes'
               /\ missed' \in SUBSET Landscapers
               /\ installed' \in [Landscapers -> Installations]
    BY <1>1 DEF Types, LandscaperTypes, SourceTypes, sources, HandlerTypes
  <1>2. /\ landscapers \in [Landscapers -> LandscaperRecords]
        /\ queue \in [Landscapers -> {"no", "timer", "now"}]
        /\ worker \in WorkerRecords /\ (worker.at = "idle" <=> worker.key = NoRef)
        /\ missed \in SUBSET Landscapers
        /\ installed \in [Landscapers -> Installations]
    BY DEF Types, LandscaperTypes, WorkerTypes
  <1>3. worker.at # "idle" => worker.key \in Landscapers
    BY TypeWork
  <1>4. CASE Take
    <2>1. PICK l \in Landscapers :
             /\ queue' = [queue EXCEPT ![l] = "no"]
             /\ worker' = IF ~landscapers[l].exists THEN worker
                          ELSE [IdleWorker EXCEPT
                                   !.at = IF landscapers[l].deleting THEN "delete"
                                          ELSE "checkAnnotation",
                                   !.key = l,
                                   !.annotated = landscapers[l].annotated,
                                   !.fresh = TRUE]
             /\ missed' = missed \ {l}
      BY <1>4 DEF Take
    <2>2. landscapers[l].annotated \in BOOLEAN
      BY <1>2 DEF LandscaperRecords
    <2>3. WorkerTypes'
      <3>1. CASE ~landscapers[l].exists
        BY <1>2, <2>1, <3>1 DEF WorkerTypes
      <3>2. CASE landscapers[l].exists
        BY <1>2, <2>1, <2>2, <3>2, Constants
           DEF WorkerTypes, WorkerRecords, IdleWorker
      <3> QED BY <3>1, <3>2
    <2> QED BY <1>2, <1>4, <2>1, <2>3 DEF Take
  <1>5. ASSUME NEW next \in {"readConfig", "syncCA", "finish"}, Step(next),
               worker.at # "idle"
        PROVE  WorkerTypes'
    BY <1>2, <1>5 DEF Step, WorkerTypes, WorkerRecords
  <1>6. ASSUME NEW next \in {"readConfig", "syncCA"}, NEW new \in LandscaperRecords,
               OwnWrite(new, next), worker.at # "idle"
        PROVE  /\ landscapers' \in [Landscapers -> LandscaperRecords]
               /\ queue' \in [Landscapers -> {"no", "timer", "now"}]
               /\ WorkerTypes'
    <2>1. WorkerTypes'
      BY <1>2, <1>6 DEF OwnWrite, WorkerTypes, WorkerRecords
    <2> QED BY <1>6, <2>1, TypeWork DEF OwnWrite
  <1>7. CASE CheckReconcileAnnotation
    <2>1. [landscapers[worker.key] EXCEPT !.annotated = FALSE] \in LandscaperRecords
      BY <1>2, <1>3, <1>7 DEF CheckReconcileAnnotation, LandscaperRecords
    <2> QED
      BY <1>2, <1>5, <1>6, <1>7, <2>1 DEF CheckReconcileAnnotation
  <1>8. CASE GetProviderConfig
    <2>1. providerConfigs[SpecRef[worker.key]] \in ConfigContents
      BY <1>3, <1>8, Constants DEF GetProviderConfig, Types, SourceTypes
    <2> QED
      BY <1>2, <1>8, <2>1 DEF GetProviderConfig, WorkerTypes, WorkerRecords
  <1>9. CASE RecordRef
    <2>1. [landscapers[worker.key] EXCEPT !.ref = SpecRef[worker.key]]
              \in LandscaperRecords
      BY <1>2, <1>3, <1>9, Constants DEF RecordRef, LandscaperRecords
    <2> QED
      BY <1>2, <1>5, <1>6, <1>9, <2>1, TypeWork DEF RecordRef
  <1>10. CASE CreateConfigAndSyncCA
    <2>1. worker.cfg \in ConfigContents
      BY <1>2 DEF WorkerRecords
    <2>2. SecretNames(worker.cfg) \in SUBSET Secrets
      BY <2>1 DEF SecretNames, ConfigContents, Types, SourceTypes
    <2>3. WorkerTypes'
      <3>1. [worker.cfg EXCEPT !.secrets = SecretNames(worker.cfg)] \in ConfigContents
        BY <2>1, <2>2 DEF ConfigContents
      <3>2. worker' = [worker EXCEPT !.at = "syncSecrets",
                          !.cfg = [worker.cfg EXCEPT !.secrets = SecretNames(worker.cfg)]]
        BY <1>2, <1>10 DEF CreateConfigAndSyncCA, WorkerRecords
      <3> QED
        BY <1>2, <1>10, <3>1, <3>2
           DEF CreateConfigAndSyncCA, WorkerTypes, WorkerRecords
    <2>4. installed' \in [Landscapers -> Installations]
      BY <1>2, <1>3, <1>10, <2>1
         DEF CreateConfigAndSyncCA, Installations, ConfigContents, Types,
             SourceTypes
    <2> QED BY <1>2, <1>10, <2>3, <2>4 DEF CreateConfigAndSyncCA
  <1>11. CASE SyncSecrets
    <2>1. worker.cfg.secrets \in SUBSET Secrets
      BY <1>2 DEF WorkerRecords, ConfigContents
    <2>2. [s \in worker.cfg.secrets |-> contents[s]]
              \in UNION {[S -> Nat] : S \in SUBSET Secrets}
      <3>1. [s \in worker.cfg.secrets |-> contents[s]] \in [worker.cfg.secrets -> Nat]
        BY <2>1 DEF Types, SourceTypes
      <3> QED BY <2>1, <3>1
    <2>3. installed' \in [Landscapers -> Installations]
      BY <1>2, <1>3, <1>11, <2>2 DEF SyncSecrets, Installations
    <2> QED BY <1>2, <1>5, <1>11, <2>3 DEF SyncSecrets
  <1>12. CASE Finish
    <2>1. [landscapers[worker.key] EXCEPT !.ready = TRUE] \in LandscaperRecords
      BY <1>2, <1>3, <1>12 DEF Finish, LandscaperRecords
    <2>2. worker' = IdleWorker => WorkerTypes'
      BY Constants DEF WorkerTypes, IdleWorker
    <2> QED
      BY <1>2, <1>3, <1>12, <2>1, <2>2, TypeWork DEF Finish, NextLook
  <1>13. CASE Delete
    <2>1. worker' = IdleWorker => WorkerTypes'
      BY Constants DEF WorkerTypes, IdleWorker
    <2> QED BY <1>2, <1>13, <2>1, TypeWork, Constants DEF Delete
  <1> QED
    BY <1>4, <1>7, <1>8, <1>9, <1>10, <1>11, <1>12, <1>13 DEF Worker

LEMMA TypeEnvironment ==
    ASSUME Types, Environment
    PROVE  Types'
  <1> USE DEF Types, sources
  <1>1. UNCHANGED installed
    BY DEF Environment, EditProviderConfig, Rotate, EditServiceProvider,
           RequestDeletion, LookupFails, AnnotationRefused, WorkerFails, Restart
  <1>2. ASSUME NEW kind, Happens(kind) PROVE ahead' \in SUBSET Disturbances
    BY <1>2 DEF Happens, LandscaperTypes
  <1>3. CASE EditProviderConfig
    <2>1. HandlerTypes' /\ SourceTypes'
      BY <1>3, Constants
         DEF EditProviderConfig, SourceTypes, HandlerTypes, Watches, Watched
    <2> QED
      BY <1>1, <1>2, <1>3, <2>1
         DEF EditProviderConfig, LandscaperTypes, WorkerTypes
  <1>4. CASE Rotate
    <2>1. HandlerTypes' /\ SourceTypes'
      BY <1>4 DEF Rotate, SourceTypes, HandlerTypes, Watches, Watched
    <2> QED BY <1>1, <1>2, <1>4, <2>1 DEF Rotate, LandscaperTypes, WorkerTypes
  <1>5. CASE EditServiceProvider
    BY <1>1, <1>2, <1>5
       DEF EditServiceProvider, Misses, LandscaperTypes, SourceTypes,
           HandlerTypes, WorkerTypes
  <1>6. CASE RequestDeletion
    <2>1. PICK l \in Landscapers :
             OtherWrite(l, [landscapers[l] EXCEPT !.deleting = TRUE])
      BY <1>6 DEF RequestDeletion
    <2>2. [landscapers[l] EXCEPT !.deleting = TRUE] \in LandscaperRecords
      BY DEF LandscaperTypes, LandscaperRecords
    <2> QED
      BY <1>1, <1>2, <1>6, <2>1, <2>2, TypeOtherWrite
         DEF RequestDeletion, LandscaperTypes, SourceTypes, HandlerTypes
  <1>7. ASSUME NEW w \in Watches, LookupFails(w) PROVE Types'
    <2>1. HandlerTypes'
      BY <1>7, Constants, TypeHandle DEF LookupFails, IdleHandler
    <2> QED
      BY <1>1, <1>2, <1>7, <2>1
         DEF LookupFails, Misses, LandscaperTypes, SourceTypes, WorkerTypes
  <1>8. ASSUME NEW w \in Watches, AnnotationRefused(w) PROVE Types'
    <2>1. PICK l \in handlers[w].todo : AnnotationFails(w, l)
      BY <1>8 DEF AnnotationRefused
    <2>2. HandlerTypes'
      BY <1>8, <2>1, TypeAfterError, TypeHandle
         DEF AnnotationRefused, AnnotationFails
    <2>3. missed' \in SUBSET Landscapers
      BY <2>1
         DEF AnnotationFails, Misses, LandscaperTypes, HandlerTypes, HandlerRecords
    <2> QED
      BY <1>1, <1>2, <1>8, <2>2, <2>3
         DEF AnnotationRefused, LandscaperTypes, SourceTypes, WorkerTypes
  <1>9. CASE WorkerFails
    BY <1>1, <1>2, <1>9, TypeWork
       DEF WorkerFails, LandscaperTypes, SourceTypes, HandlerTypes
  <1>10. CASE Restart
    <2>1. HandlerTypes'
      BY <1>10, Constants
         DEF Restart, HandlerTypes, IdleHandler, Watched, Watches
    <2>2. WorkerTypes'
      BY <1>10, Constants DEF Restart, WorkerTypes, IdleWorker
    <2> QED
      BY <1>1, <1>2, <1>10, <2>1, <2>2 DEF Restart, LandscaperTypes, SourceTypes
  <1> QED
    BY <1>3, <1>4, <1>5, <1>6, <1>7, <1>8, <1>9, <1>10 DEF Environment

\* Every step keeps the types.
LEMMA TypeStep ==
    ASSUME Types, [Next]_vars
    PROVE  Types'
  <1>1. CASE UNCHANGED vars
    BY <1>1
       DEF vars, sources, Types, LandscaperTypes, SourceTypes, HandlerTypes,
           WorkerTypes
  <1> QED BY <1>1, TypeWorker, TypeHandler, TypeEnvironment DEF Next

\* Type correctness of the events, the handlers and the worker.
THEOREM EventTypesCorrect == Spec => []TypeOK
  <1>1. Types /\ [Next]_vars => Types'
    BY TypeStep
  <1> QED BY <1>1, TypeInit, TypesSuffice, PTL DEF Spec

-----------------------------------------------------------------------------
(* The invariant.                                                          *)

\* The Landscaper will be looked at anyway, or need not be.
Settled(l) ==
    /\ landscapers[l].exists /\ ~landscapers[l].deleting
    /\ queue[l] # "now" /\ l \notin missed

(***************************************************************************)
(* An event of o is on its way to l: it waits, or the handler has not yet  *)
(* taken its list, or l is on the list.  While the handler looks whether   *)
(* anybody refers to o, it is on its way if the config of l does.          *)
(***************************************************************************)
Coming(w, o, l) ==
    \/ o \in events[w]
    \/ /\ handlers[w].object = o
       /\ \/ handlers[w].at \in {"provider", "list"}
          \/ /\ handlers[w].at = "configs"
             /\ RefersTo(w, providerConfigs[SpecRef[l]], o)
          \/ handlers[w].at = "annotate" /\ l \in handlers[w].todo

ConfigComing(l) == Coming("config", SpecRef[l], l)

Config(l) == providerConfigs[SpecRef[l]]

\* The CA bundle of the instance is the present one, or will be.
BundleKnown(l) ==
    /\ installed[l].ca = Config(l).ca
    /\ Config(l).ca = NoCA => installed[l].bundle = 0
    /\ Config(l).ca # NoCA =>
           \/ installed[l].bundle = contents[Config(l).ca]
           \/ Coming("bundle", Config(l).ca, l)

\* So are its pull secrets.
SecretsKnown(l) ==
    /\ DOMAIN installed[l].secrets = SecretNames(Config(l))
    /\ \A s \in SecretNames(Config(l)) :
           \/ installed[l].secrets[s] = contents[s]
           \/ Coming("secret", s, l)

\* The status names the config that the watch has to look for.
Recorded(l) == landscapers[l].ref = SpecRef[l]

\* What is known of a Landscaper that nobody is about to look at ...
RestInv(l) ==
    /\ Recorded(l)
    /\ ConfigComing(l) \/ (BundleKnown(l) /\ SecretsKnown(l))

\* ... and of the one that the worker holds, call by call.
WorkInv(l) ==
    /\ worker.at = "recordRef" /\ Recorded(l) =>
           ConfigComing(l) \/ worker.cfg = Config(l)
    /\ worker.at = "syncCA" =>
           Recorded(l) /\ (ConfigComing(l) \/ worker.cfg = Config(l))
    /\ worker.at = "syncSecrets" =>
           /\ Recorded(l)
           /\ \/ ConfigComing(l)
              \/ /\ BundleKnown(l)
                 /\ worker.cfg.secrets = SecretNames(Config(l))
    /\ worker.at = "finish" => RestInv(l)

\* An annotation is not overlooked: its event, or the worker, will find it.
AnnotationInv(l) ==
    landscapers[l].annotated =>
        \/ ~landscapers[l].exists \/ landscapers[l].deleting
        \/ queue[l] = "now"
        \/ worker.key = l /\ worker.at = "checkAnnotation" /\ worker.annotated

Known(l) == Settled(l) => IF worker.key = l THEN WorkInv(l) ELSE RestInv(l)

KnownInv == \A l \in Landscapers : AnnotationInv(l) /\ Known(l)

-----------------------------------------------------------------------------
(* Nothing on its way to a Landscaper gets lost.                           *)

\* A step takes no event off its way to l that l still needs.
ComingKept(l) ==
    /\ Recorded(l) /\ ConfigComing(l) => ConfigComing(l)'
    /\ \A s \in SecretNames(Config(l)) :
           Coming("secret", s, l) => Coming("secret", s, l)'
    /\ \A b \in CABundles :
           b = Config(l).ca /\ Coming("bundle", b, l) => Coming("bundle", b, l)'

\* While the watched objects stay as they are, l has to keep what is coming.
LEMMA KnownKept ==
    ASSUME Types, NEW l \in Landscapers, UNCHANGED sources, ComingKept(l),
           landscapers'[l].ref = landscapers[l].ref,
           installed'[l] = installed[l]
    PROVE  /\ RestInv(l) => RestInv(l)'
           /\ UNCHANGED <<worker.at, worker.cfg>> /\ WorkInv(l) => WorkInv(l)'
  <1>1. /\ Recorded(l)' <=> Recorded(l)
        /\ Config(l)' = Config(l) /\ SecretNames(Config(l))' = SecretNames(Config(l))
    BY DEF Recorded, Config, SecretNames, sources
  <1>2. Config(l).ca # NoCA => Config(l).ca \in CABundles
    BY Constants DEF Config, Types, SourceTypes, ConfigContents
  <1>3. BundleKnown(l) => BundleKnown(l)'
    <2>1. Config(l).ca # NoCA /\ Coming("bundle", Config(l).ca, l)
          => Coming("bundle", Config(l).ca, l)'
      BY <1>1, <1>2 DEF ComingKept, Coming, Config, sources
    <2> QED BY <1>1, <2>1 DEF BundleKnown, sources
  <1>4. SecretsKnown(l) => SecretsKnown(l)'
    BY <1>1 DEF SecretsKnown, ComingKept, sources
  <1>5. Recorded(l) /\ ConfigComing(l) => ConfigComing(l)'
    BY DEF ComingKept
  <1>6. RestInv(l) => RestInv(l)'
    BY <1>1, <1>3, <1>4, <1>5 DEF RestInv
  <1>7. UNCHANGED <<worker.at, worker.cfg>> /\ WorkInv(l) => WorkInv(l)'
    BY <1>1, <1>3, <1>5, <1>6 DEF WorkInv
  <1> QED BY <1>6, <1>7

\* Neither the worker nor a user takes an event away.
LEMMA NothingDelivered ==
    ASSUME NEW l \in Landscapers, UNCHANGED <<sources, events, handlers>>
    PROVE  ComingKept(l)
  BY DEF ComingKept, ConfigComing, Coming, RefersTo, sources

\* An event that l needs moves on to the list of its handler.
LEMMA DeliveryKeepsComing ==
    ASSUME Types, NEW w \in Watches, NEW l \in Landscapers,
           Deliver(w) \/ (w = "secret" /\ LookInProvider) \/ LookInConfigs(w)
    PROVE  ComingKept(l)
  <1>1. \A v \in Watches \ {w} :
           events'[v] = events[v] /\ handlers'[v] = handlers[v]
    BY DEF Types, HandlerTypes, Deliver, LookInProvider, LookInConfigs, Handle
  <1>2. UNCHANGED sources /\ handlers[w] \in HandlerRecords
    BY DEF Types, HandlerTypes, Deliver, LookInProvider, LookInConfigs
  <1> DEFINE Needs(o) == \/ w = "config" /\ o = SpecRef[l]
                         \/ w = "secret" /\ o \in SecretNames(Config(l))
                         \/ w = "bundle" /\ o = Config(l).ca
  <1>3. ASSUME NEW o, Coming(w, o, l), Needs(o) PROVE Coming(w, o, l)'
    <2>1. CASE Deliver(w)
      <3>1. handlers[w].at = "idle"
        BY <2>1 DEF Deliver
      <3>2. o \in events[w]
        BY <1>3, <3>1 DEF Coming
      <3>3. PICK e \in events[w] :
               /\ events' = [events EXCEPT ![w] = @ \ {e}]
               /\ handlers' = [handlers EXCEPT ![w] =
                      [at |-> CASE w = "config" -> "list"
                                [] w = "secret" -> "provider"
                                [] w = "bundle" -> "configs",
                       object |-> e, todo |-> {}]]
        BY <2>1 DEF Deliver, Handle
      <3>4. events'[w] = events[w] \ {e} /\ handlers'[w].object = e
        BY <3>3 DEF Types, HandlerTypes
      <3>5. CASE e # o
        BY <3>2, <3>4, <3>5 DEF Coming
      <3>6. CASE e = o
        <4>1. /\ w = "config" => handlers'[w].at = "list"
              /\ w = "secret" => handlers'[w].at = "provider"
              /\ w = "bundle" => handlers'[w].at = "configs"
          BY <3>3 DEF Types, HandlerTypes, Watches
        <4>2. w = "bundle" => RefersTo(w, providerConfigs'[SpecRef[l]], o)
          BY <1>2, <1>3 DEF RefersTo, Config, sources
        <4> QED BY <3>4, <3>6, <4>1, <4>2 DEF Coming, Watches
      <3> QED BY <3>5, <3>6
    <2>2. CASE w = "secret" /\ LookInProvider
      <3>1. /\ handlers[w].at = "provider" /\ UNCHANGED events
            /\ handlers'[w].object = handlers[w].object
            /\ handlers'[w].at = IF handlers[w].object \in providerSecrets
                                 THEN "list" ELSE "configs"
        BY <1>2, <2>2 DEF LookInProvider, Handle, Types, HandlerTypes, HandlerRecords
      <3>2. CASE o \in events[w]
        BY <3>1, <3>2 DEF Coming
      <3>3. CASE o \notin events[w]
        <4>1. handlers'[w].object = o
          BY <1>3, <3>1, <3>3 DEF Coming
        <4>2. o \notin providerSecrets => RefersTo(w, providerConfigs'[SpecRef[l]], o)
          BY <1>2, <1>3, <2>2 DEF RefersTo, Config, SecretNames, sources
        <4> QED BY <3>1, <4>1, <4>2 DEF Coming
      <3> QED BY <3>2, <3>3
    <2>3. CASE LookInConfigs(w)
      <3>1. CASE o \in events[w]
        BY <2>3, <3>1 DEF LookInConfigs, Coming
      <3>2. CASE o \notin events[w]
        <4>1. handlers[w].object = o /\ RefersTo(w, providerConfigs[SpecRef[l]], o)
          BY <1>3, <2>3, <3>2 DEF LookInConfigs, Coming
        <4>2. handlers' = [handlers EXCEPT ![w] = [handlers[w] EXCEPT !.at = "list"]]
          BY <2>3, <4>1, Constants DEF LookInConfigs, Handle
        <4>3. handlers'[w].object = o /\ handlers'[w].at = "list"
          BY <1>2, <4>1, <4>2 DEF Types, HandlerTypes, HandlerRecords
        <4> QED BY <4>3 DEF Coming
      <3> QED BY <3>1, <3>2
    <2> QED BY <2>1, <2>2, <2>3
  <1>4. ASSUME NEW v \in Watches, v # w, NEW o, Coming(v, o, l)
        PROVE  Coming(v, o, l)'
    BY <1>1, <1>2, <1>4 DEF Coming, sources
  <1> HIDE DEF Needs
  <1>5. {"config", "secret", "bundle"} = Watches
    BY DEF Watches
  <1>6. ConfigComing(l) => ConfigComing(l)'
    BY <1>3, <1>4, <1>5 DEF ConfigComing, Needs
  <1>7. \A s \in SecretNames(Config(l)) :
           Coming("secret", s, l) => Coming("secret", s, l)'
    BY <1>3, <1>4, <1>5 DEF Needs
  <1>8. \A b \in CABundles :
           b = Config(l).ca /\ Coming("bundle", b, l) => Coming("bundle", b, l)'
    BY <1>3, <1>4, <1>5 DEF Needs
  <1> QED BY <1>6, <1>7, <1>8 DEF ComingKept

\* The list has everybody who needs the event, as long as the annotation is
\* not set: what happens on the way to l is on the way to l on the list.
LEMMA ListKeepsComing ==
    ASSUME Types, NEW w \in Watches, NEW l \in Landscapers, List(w),
           landscapers[l].exists, ~landscapers[l].annotated
    PROVE  ComingKept(l)
  <1> DEFINE todo == {m \in Landscapers :
                         /\ landscapers[m].exists /\ ~landscapers[m].annotated
                         /\ w = "config" => landscapers[m].ref = handlers[w].object}
  <1>1. /\ UNCHANGED <<sources, events>> /\ handlers[w].at = "list"
        /\ handlers' = [handlers EXCEPT ![w] =
               IF todo = {} THEN IdleHandler
               ELSE [handlers[w] EXCEPT !.at = "annotate", !.todo = todo]]
    BY DEF List, Handle
  <1>2. l \in todo <=> (w = "config" => landscapers[l].ref = handlers[w].object)
    OBVIOUS
  <1> HIDE DEF todo
  <1>3. \A v \in Watches \ {w} : handlers'[v] = handlers[v]
    BY <1>1 DEF Types, HandlerTypes
  <1>4. ASSUME NEW o, Coming(w, o, l), w = "config" => landscapers[l].ref = o
        PROVE  Coming(w, o, l)'
    <2>1. CASE o \in events[w]
      BY <1>1, <2>1 DEF Coming
    <2>2. CASE o \notin events[w]
      <3>1. handlers[w].object = o /\ l \in todo
        BY <1>2, <1>4, <2>2 DEF Coming
      <3>2. handlers'[w] = [handlers[w] EXCEPT !.at = "annotate", !.todo = todo]
        BY <1>1, <3>1 DEF Types, HandlerTypes
      <3>3. /\ handlers'[w].object = o /\ handlers'[w].at = "annotate"
            /\ l \in handlers'[w].todo
        BY <3>1, <3>2 DEF Types, HandlerTypes, HandlerRecords
      <3> QED BY <3>3 DEF Coming
    <2> QED BY <2>1, <2>2
  <1>5. ASSUME NEW v \in Watches, v # w, NEW o, Coming(v, o, l)
        PROVE  Coming(v, o, l)'
    BY <1>1, <1>3, <1>5 DEF Coming, sources
  <1>6. {"config", "secret", "bundle"} = Watches
    BY DEF Watches
  <1>7. Recorded(l) /\ ConfigComing(l) => ConfigComing(l)'
    BY <1>4, <1>5, <1>6 DEF ConfigComing, Recorded
  <1>8. \A s \in SecretNames(Config(l)) :
           Coming("secret", s, l) => Coming("secret", s, l)'
    BY <1>4, <1>5, <1>6
  <1>9. \A b \in CABundles :
           b = Config(l).ca /\ Coming("bundle", b, l) => Coming("bundle", b, l)'
    BY <1>4, <1>5, <1>6
  <1> QED BY <1>7, <1>8, <1>9 DEF ComingKept

\* A Landscaper stays on the list until it is its turn.
LEMMA TurnKeepsComing ==
    ASSUME Types, NEW w \in Watches, NEW l \in Landscapers,
           NEW m \in handlers[w].todo, m # l,
           UNCHANGED <<sources, events>>,
           \/ Handle(w, Without(handlers[w], m))
           \/ AnnotationFails(w, m) /\ l \notin missed'
    PROVE  ComingKept(l)
  <1>1. handlers[w].at = "annotate"
    BY DEF Types, HandlerTypes
  <1>2. \A v \in Watches \ {w} : handlers'[v] = handlers[v]
    BY DEF Types, HandlerTypes, Handle, AnnotationFails
  <1>3. ASSUME NEW o, Coming(w, o, l) PROVE Coming(w, o, l)'
    <2>1. CASE o \in events[w]
      BY <2>1 DEF Coming
    <2>2. CASE o \notin events[w]
      <3>1. handlers[w].object = o /\ l \in handlers[w].todo
        BY <1>1, <1>3, <2>2 DEF Coming
      <3>2. Handle(w, Without(handlers[w], m))
        BY <3>1 DEF AnnotationFails, AfterError, Misses
      <3>3. handlers'[w] = [handlers[w] EXCEPT !.todo = @ \ {m}]
        <4>1. handlers[w].todo \ {m} # {}
          BY <3>1
        <4>2. Without(handlers[w], m) = [handlers[w] EXCEPT !.todo = @ \ {m}]
          BY <4>1, TypeWithout DEF Types
        <4> QED BY <3>2, <4>2 DEF Handle, Types, HandlerTypes
      <3>4. /\ handlers'[w].object = o /\ handlers'[w].at = "annotate"
            /\ l \in handlers'[w].todo
        BY <1>1, <3>1, <3>3 DEF Types, HandlerTypes, HandlerRecords
      <3> QED BY <3>4 DEF Coming
    <2> QED BY <2>1, <2>2
  <1>4. ASSUME NEW v \in Watches, v # w, NEW o, Coming(v, o, l)
        PROVE  Coming(v, o, l)'
    BY <1>2, <1>4 DEF Coming, sources
  <1>5. {"config", "secret", "bundle"} = Watches
    BY DEF Watches
  <1>6. ASSUME NEW v \in Watches, NEW o, Coming(v, o, l) PROVE Coming(v, o, l)'
    BY <1>3, <1>4, <1>6
  <1> QED BY <1>5, <1>6 DEF ComingKept, ConfigComing

-----------------------------------------------------------------------------
(* Every step keeps what is known.                                         *)

\* The annotation of l is set by a write, and its event is in the queue.
LEMMA KnownAnnotated ==
    ASSUME Types, NEW l \in Landscapers, AnnotationInv(l),
           NEW m \in Landscapers,
           OtherWrite(m, [landscapers[m] EXCEPT !.annotated = TRUE])
    PROVE  AnnotationInv(l)'
  <1>1. CASE l = m
    <2>1. queue'[l] = "now"
      BY <1>1 DEF OtherWrite, Write, Types, LandscaperTypes
    <2> QED BY <2>1 DEF AnnotationInv
  <1>2. CASE l # m
    <2>1. landscapers'[l] = landscapers[l] /\ queue'[l] = queue[l]
      BY <1>2 DEF OtherWrite, Write, Types, LandscaperTypes
    <2>2. UNCHANGED <<worker.key, worker.at, worker.annotated>>
      BY DEF OtherWrite, Types, WorkerTypes, WorkerRecords
    <2> QED BY <2>1, <2>2 DEF AnnotationInv
  <1> QED BY <1>1, <1>2

\* A Landscaper that is settled after the step of a handler was so before,
\* and nobody has written to it.
LEMMA KnownHandler ==
    ASSUME Types, NEW l \in Landscapers, AnnotationInv(l), Known(l),
           NEW w \in Watches, Handler(w)
    PROVE  AnnotationInv(l)' /\ Known(l)'
  <1>1. UNCHANGED <<sources, installed>>
    BY DEF Handler, Deliver, LookInProvider, LookInConfigs, List, Annotate
  <1>2. ASSUME UNCHANGED <<landscapers, queue, worker, missed>>,
               Settled(l) /\ ~landscapers[l].annotated => ComingKept(l)
        PROVE  AnnotationInv(l)' /\ Known(l)'
    <2>1. AnnotationInv(l)'
      BY <1>2 DEF AnnotationInv
    <2>2. CASE ~landscapers[l].annotated
      <3>1. /\ Settled(l)' <=> Settled(l)
            /\ UNCHANGED <<worker.key, worker.at, worker.cfg>>
            /\ landscapers'[l].ref = landscapers[l].ref
            /\ installed'[l] = installed[l]
        BY <1>1, <1>2 DEF Settled
      <3>2. CASE Settled(l)
        <4>1. ComingKept(l)
          BY <1>2, <2>2, <3>2
        <4>2. RestInv(l) => RestInv(l)'
          BY <1>1, <3>1, <4>1, KnownKept
        <4>3. WorkInv(l) => WorkInv(l)'
          BY <1>1, <3>1, <4>1, KnownKept
        <4> QED BY <2>1, <3>1, <3>2, <4>2, <4>3 DEF Known
      <3>3. CASE ~Settled(l)
        BY <2>1, <3>1, <3>3 DEF Known
      <3> QED BY <3>2, <3>3
    <2>3. CASE landscapers[l].annotated /\ Settled(l)
      <3>1. worker.key = l /\ worker.at = "checkAnnotation"
        BY <2>3 DEF AnnotationInv, Settled
      <3>2. worker'.key = l /\ worker'.at = "checkAnnotation"
        BY <1>2, <3>1
      <3> QED BY <2>1, <3>2 DEF Known, WorkInv
    <2>4. CASE ~Settled(l)
      BY <1>2, <2>1, <2>4 DEF Known, Settled
    <2> QED BY <2>2, <2>1, <2>3, <2>4
  <1>3. CASE Deliver(w) \/ (w = "secret" /\ LookInProvider) \/ LookInConfigs(w)
    <2>1. UNCHANGED <<landscapers, queue, worker, missed>>
      BY <1>3 DEF Deliver, LookInProvider, LookInConfigs
    <2> QED BY <1>2, <1>3, <2>1, DeliveryKeepsComing
  <1>4. CASE List(w)
    <2>1. UNCHANGED <<landscapers, queue, worker, missed>>
      BY <1>4 DEF List
    <2> QED BY <1>2, <1>4, <2>1, ListKeepsComing DEF Settled
  <1>5. CASE Annotate(w)
    <2>1. PICK m \in handlers[w].todo :
             \/ /\ landscapers[m].exists
                /\ Handle(w, Without(handlers[w], m))
                /\ IF landscapers[m].annotated
                   THEN UNCHANGED <<landscapers, queue, worker>>
                   ELSE OtherWrite(m, [landscapers[m] EXCEPT !.annotated = TRUE])
                /\ UNCHANGED missed
             \/ /\ ~landscapers[m].exists
                /\ AnnotationFails(w, m)
                /\ UNCHANGED <<landscapers, queue, worker>>
      BY <1>5 DEF Annotate
    <2>2. m \in Landscapers
      BY DEF Types, HandlerTypes, HandlerRecords
    <2>3. CASE ~landscapers[m].exists
      <3>1. AnnotationInv(l)'
        BY <2>1, <2>3 DEF AnnotationInv
      <3>2. CASE Settled(l)'
        <4>1. Settled(l) /\ m # l /\ l \notin missed'
          BY <2>1, <2>3, <3>2 DEF Settled, AnnotationFails, Misses
        <4>2. ComingKept(l)
          BY <1>1, <1>5, <2>1, <2>3, <4>1, TurnKeepsComing DEF Annotate
        <4> QED BY <1>1, <2>1, <2>3, <3>1, <4>1, <4>2, KnownKept DEF Known
      <3> QED BY <3>1, <3>2 DEF Known
    <2>4. CASE landscapers[m].exists /\ landscapers[m].annotated
      <3>1. m # l => ComingKept(l)
        BY <1>1, <1>5, <2>1, <2>4, TurnKeepsComing DEF Annotate
      <3> QED BY <1>2, <2>1, <2>4, <3>1
    <2>5. CASE landscapers[m].exists /\ ~landscapers[m].annotated
      <3>1. OtherWrite(m, [landscapers[m] EXCEPT !.annotated = TRUE])
            /\ UNCHANGED missed
        BY <2>1, <2>5
      <3>2. AnnotationInv(l)'
        BY <2>2, <3>1, KnownAnnotated
      <3>3. CASE m = l
        <4>1. queue'[l] = "now"
          BY <3>1, <3>3 DEF OtherWrite, Write, Types, LandscaperTypes
        <4> QED BY <3>2, <4>1 DEF Known, Settled
      <3>4. CASE m # l
        <4>1. landscapers'[l] = landscapers[l] /\ queue'[l] = queue[l]
          BY <3>1, <3>4 DEF OtherWrite, Write, Types, LandscaperTypes
        <4>2. UNCHANGED <<worker.key, worker.at, worker.cfg>>
          BY <3>1 DEF OtherWrite, Types, WorkerTypes, WorkerRecords
        <4>3. ComingKept(l)
          BY <1>1, <1>5, <2>1, <2>5, <3>4, TurnKeepsComing DEF Annotate
        <4> QED
          BY <1>1, <3>1, <3>2, <4>1, <4>2, <4>3, KnownKept DEF Known, Settled
      <3> QED BY <3>3, <3>4
    <2> QED BY <2>3, <2>4, <2>5
  <1> QED BY <1>3, <1>4, <1>5 DEF Handler

\* Whoever is not at work on l leaves it alone.
LEMMA KnownElsewhere ==
    ASSUME Types, NEW l \in Landscapers, AnnotationInv(l), Known(l),
           worker.key # l, worker'.key # l, UNCHANGED <<sources, events, handlers>>,
           landscapers'[l] = landscapers[l], queue'[l] = queue[l],
           installed'[l] = installed[l], l \in missed' <=> l \in missed
    PROVE  AnnotationInv(l)' /\ Known(l)'
  <1>1. AnnotationInv(l)'
    BY DEF AnnotationInv
  <1>2. RestInv(l) => RestInv(l)'
    BY NothingDelivered, KnownKept
  <1> QED BY <1>1, <1>2 DEF Known, Settled

\* A Landscaper whose key is in the queue will be looked at.
LEMMA KnownQueued ==
    ASSUME NEW l \in Landscapers, queue'[l] = "now"
    PROVE  AnnotationInv(l)' /\ Known(l)'
  BY DEF AnnotationInv, Known, Settled

\* The calls of the worker for the Landscaper it holds.
LEMMA KnownOwn ==
    ASSUME Types, NEW l \in Landscapers, worker.key = l,
           AnnotationInv(l), Known(l), Worker
    PROVE  AnnotationInv(l)' /\ Known(l)'
  <1>1. /\ worker \in WorkerRecords /\ worker.at # "idle"
        /\ landscapers[l] \in LandscaperRecords
        /\ \A x : [queue EXCEPT ![l] = x][l] = x
        /\ \A x : [landscapers EXCEPT ![l] = x][l] = x
    BY Constants DEF Types, WorkerTypes, LandscaperTypes
  <1>2. /\ UNCHANGED <<sources, events, handlers>> /\ ~Take
        /\ UNCHANGED missed
    BY <1>1
       DEF Worker, Take, CheckReconcileAnnotation, GetProviderConfig, RecordRef,
           CreateConfigAndSyncCA, SyncSecrets, Finish, Delete
  <1>3. /\ \A new, at : OwnWrite(new, at) => queue'[l] = "now"
        /\ \A new : Write(l, new) => queue'[l] = "now"
        /\ Fails => queue'[l] = "now"
    BY <1>1 DEF OwnWrite, Write, Fails
  <1>4. ASSUME NEW at, Step(at)
        PROVE  /\ worker'.at = at /\ worker'.key = l
               /\ UNCHANGED <<worker.cfg, worker.annotated>>
    BY <1>1, <1>4 DEF Step, WorkerRecords
  <1>5. ASSUME UNCHANGED <<landscapers, queue>>, worker.at # "checkAnnotation"
        PROVE  AnnotationInv(l)' /\ (Settled(l)' <=> Settled(l))
    BY <1>2, <1>5 DEF AnnotationInv, Settled
  <1>6. ComingKept(l)
    BY <1>2, NothingDelivered
  <1>7. /\ Config(l)' = Config(l) /\ (ConfigComing(l)' <=> ConfigComing(l))
        /\ SecretNames(Config(l))' = SecretNames(Config(l))
        /\ landscapers' = landscapers => (Recorded(l)' <=> Recorded(l))
        /\ \A b : Coming("bundle", b, l)' <=> Coming("bundle", b, l)
    BY <1>2
       DEF Config, SecretNames, ConfigComing, Coming, RefersTo, Recorded, sources
  <1>8. CASE CheckReconcileAnnotation
    <2>1. CASE worker.annotated
      BY <1>3, <1>8, <2>1, KnownQueued DEF CheckReconcileAnnotation
    <2>2. CASE ~worker.annotated
      <3>1. /\ Step("readConfig") /\ UNCHANGED <<landscapers, queue>>
        BY <1>8, <2>2 DEF CheckReconcileAnnotation
      <3>2. worker'.at = "readConfig" /\ worker'.key = l
        BY <1>4, <3>1
      <3>3. AnnotationInv(l)'
        BY <2>2, <3>1 DEF AnnotationInv
      <3> QED BY <3>2, <3>3 DEF Known, WorkInv
    <2> QED BY <2>1, <2>2
  <1>9. CASE GetProviderConfig
    <2>1. /\ worker'.at = "recordRef" /\ worker'.key = l
          /\ worker'.cfg = Config(l)
      BY <1>1, <1>9 DEF GetProviderConfig, WorkerRecords, Config
    <2>2. AnnotationInv(l)'
      BY <1>5, <1>9 DEF GetProviderConfig
    <2> QED BY <1>7, <2>1, <2>2 DEF Known, WorkInv
  <1>10. CASE RecordRef
    <2>1. CASE landscapers[l].ref = SpecRef[l]
      <3>1. Step("syncCA") /\ UNCHANGED <<landscapers, queue>>
        BY <1>10, <2>1 DEF RecordRef
      <3>2. worker'.at = "syncCA" /\ worker'.key = l /\ worker'.cfg = worker.cfg
        BY <1>4, <3>1
      <3>3. AnnotationInv(l)' /\ (Settled(l)' <=> Settled(l))
        BY <1>5, <1>10, <3>1 DEF RecordRef
      <3>4. Settled(l) => ConfigComing(l) \/ worker.cfg = Config(l)
        BY <1>10, <2>1 DEF RecordRef, Known, WorkInv, Recorded
      <3>5. Recorded(l)'
        BY <1>7, <2>1, <3>1 DEF Recorded
      <3> QED BY <1>7, <3>2, <3>3, <3>4, <3>5 DEF Known, WorkInv
    <2>2. CASE landscapers[l].ref # SpecRef[l]
      BY <1>3, <1>10, <2>2, KnownQueued DEF RecordRef
    <2> QED BY <2>1, <2>2
  <1>11. CASE CreateConfigAndSyncCA
    <2>1. /\ worker'.at = "syncSecrets" /\ worker'.key = l
          /\ worker'.cfg.secrets = SecretNames(worker.cfg)
      BY <1>1, <1>11 DEF CreateConfigAndSyncCA, WorkerRecords, ConfigContents
    <2>2. /\ installed'[l].ca = worker.cfg.ca
          /\ installed'[l].bundle =
                 IF worker.cfg.ca = NoCA THEN 0 ELSE contents[worker.cfg.ca]
      BY <1>11 DEF CreateConfigAndSyncCA, Types, Installations
    <2>3. UNCHANGED <<landscapers, queue>>
      BY <1>11 DEF CreateConfigAndSyncCA
    <2>4. AnnotationInv(l)' /\ (Settled(l)' <=> Settled(l))
      BY <1>5, <1>11, <2>3 DEF CreateConfigAndSyncCA
    <2>5. Settled(l) => Recorded(l) /\ (ConfigComing(l) \/ worker.cfg = Config(l))
      BY <1>11 DEF CreateConfigAndSyncCA, Known, WorkInv
    <2>6. worker.cfg = Config(l) => BundleKnown(l)'
      BY <1>2, <1>7, <2>2 DEF BundleKnown, sources
    <2> QED BY <1>7, <2>1, <2>3, <2>4, <2>5, <2>6 DEF Known, WorkInv
  <1>12. CASE SyncSecrets
    <2>1. worker'.at = "finish" /\ worker'.key = l
      BY <1>4, <1>12 DEF SyncSecrets
    <2>2. /\ installed'[l].secrets = [s \in worker.cfg.secrets |-> contents[s]]
          /\ installed'[l].ca = installed[l].ca
          /\ installed'[l].bundle = installed[l].bundle
      BY <1>12 DEF SyncSecrets, Types, Installations
    <2>3. UNCHANGED <<landscapers, queue>>
      BY <1>12 DEF SyncSecrets
    <2>4. AnnotationInv(l)' /\ (Settled(l)' <=> Settled(l))
      BY <1>5, <1>12, <2>3 DEF SyncSecrets
    <2>5. Settled(l) =>
             /\ Recorded(l)
             /\ \/ ConfigComing(l)
                \/ /\ BundleKnown(l)
                   /\ worker.cfg.secrets = SecretNames(Config(l))
      BY <1>12 DEF SyncSecrets, Known, WorkInv
    <2>6. BundleKnown(l) => BundleKnown(l)'
      BY <1>2, <1>7, <2>2 DEF BundleKnown, sources
    <2>7. worker.cfg.secrets = SecretNames(Config(l)) => SecretsKnown(l)'
      BY <1>2, <1>7, <2>2 DEF SecretsKnown, sources
    <2> QED
      BY <1>7, <2>1, <2>3, <2>4, <2>5, <2>6, <2>7 DEF Known, WorkInv, RestInv
  <1>13. CASE Finish
    <2>1. CASE landscapers[l].ready
      <3>1. /\ worker' = IdleWorker /\ UNCHANGED <<landscapers, installed>>
            /\ queue'[l] = IF queue[l] = "now" THEN "now" ELSE "timer"
        BY <1>1, <1>13, <2>1 DEF Finish, NextLook
      <3>2. worker'.key # l
        BY <3>1, Constants DEF IdleWorker
      <3>3. AnnotationInv(l)'
        BY <1>13, <3>1 DEF Finish, AnnotationInv
      <3>4. Settled(l)' <=> Settled(l)
        BY <1>2, <3>1 DEF Settled
      <3>5. Settled(l) => RestInv(l)
        BY <1>13 DEF Finish, Known, WorkInv
      <3>6. RestInv(l) => RestInv(l)'
        BY <1>2, <1>6, <3>1, KnownKept
      <3> QED BY <3>2, <3>3, <3>4, <3>5, <3>6 DEF Known
    <2>2. CASE ~landscapers[l].ready
      BY <1>3, <1>13, <2>2, KnownQueued DEF Finish
    <2> QED BY <2>1, <2>2
  <1>14. CASE Delete
    BY <1>3, <1>14, KnownQueued DEF Delete
  <1> QED
    BY <1>2, <1>8, <1>9, <1>10, <1>11, <1>12, <1>13, <1>14 DEF Worker

LEMMA KnownWorker ==
    ASSUME Types, NEW l \in Landscapers, AnnotationInv(l), Known(l), Worker
    PROVE  AnnotationInv(l)' /\ Known(l)'
  <1>1. CASE worker.key = l
    BY <1>1, KnownOwn
  <1>2. CASE worker.key # l /\ ~Take
    <2> DEFINE k == worker.key
    <2>1. k \in Landscapers /\ worker \in WorkerRecords
      BY <1>2, TypeWork
         DEF Worker, CheckReconcileAnnotation, GetProviderConfig, RecordRef,
             CreateConfigAndSyncCA, SyncSecrets, Finish, Delete, Types, WorkerTypes
    <2>2. UNCHANGED <<sources, events, handlers, missed>>
      BY <1>2
         DEF Worker, CheckReconcileAnnotation, GetProviderConfig, RecordRef,
             CreateConfigAndSyncCA, SyncSecrets, Finish, Delete
    <2>6. worker'.key \in {k, NoRef}
      <3>1. /\ \A at : Step(at) => worker'.key = k
            /\ \A new, at : OwnWrite(new, at) => worker'.key = k
            /\ Fails \/ worker' = IdleWorker => worker'.key = NoRef
        <4>1. ASSUME NEW at, Step(at) PROVE worker'.key = k
          BY <2>1, <4>1 DEF Step, WorkerRecords
        <4>2. ASSUME NEW new, NEW at, OwnWrite(new, at) PROVE worker'.key = k
          BY <2>1, <4>2 DEF OwnWrite, WorkerRecords
        <4>3. Fails \/ worker' = IdleWorker => worker'.key = NoRef
          BY DEF Fails, IdleWorker
        <4> QED BY <4>1, <4>2, <4>3
      <3>2. GetProviderConfig \/ CreateConfigAndSyncCA => worker'.key = k
        BY <2>1 DEF GetProviderConfig, CreateConfigAndSyncCA, WorkerRecords
      <3> HIDE DEF k
      <3> QED
        BY <1>2, <3>1, <3>2
           DEF Worker, CheckReconcileAnnotation, RecordRef, SyncSecrets, Finish,
               Delete
    <2>3. /\ queue' = [queue EXCEPT ![k] = queue'[k]]
          /\ landscapers' = [landscapers EXCEPT ![k] = landscapers'[k]]
          /\ installed' = [installed EXCEPT ![k] = installed'[k]]
      BY <1>2, <2>1
         DEF Worker, CheckReconcileAnnotation, GetProviderConfig, RecordRef,
             CreateConfigAndSyncCA, SyncSecrets, Finish, Delete, OwnWrite,
             Write, Fails, Types, LandscaperTypes
    <2> HIDE DEF k
    <2>4. /\ queue'[l] = queue[l] /\ landscapers'[l] = landscapers[l]
          /\ installed'[l] = installed[l]
      BY <1>2, <2>3 DEF Types, LandscaperTypes, k
    <2>5. worker'.key # l
      BY <1>2, <2>6, Constants DEF k
    <2> QED BY <1>2, <2>2, <2>4, <2>5, KnownElsewhere
  <1>3. CASE worker.key # l /\ Take
    <2>1. PICK k \in Landscapers :
             /\ queue' = [queue EXCEPT ![k] = "no"]
             /\ worker' = IF ~landscapers[k].exists THEN worker
                          ELSE [IdleWorker EXCEPT
                                   !.at = IF landscapers[k].deleting THEN "delete"
                                          ELSE "checkAnnotation",
                                   !.key = k,
                                   !.annotated = landscapers[k].annotated,
                                   !.fresh = TRUE]
             /\ missed' = missed \ {k}
      BY <1>3 DEF Take
    <2>2. UNCHANGED <<landscapers, sources, events, handlers, installed>>
      BY <1>3 DEF Take
    <2>3. CASE k # l
      <3>1. worker'.key # l
        BY <1>3, <2>1, <2>3 DEF IdleWorker
      <3>2. queue'[l] = queue[l] /\ (l \in missed' <=> l \in missed)
        BY <2>1, <2>3 DEF Types, LandscaperTypes
      <3> QED BY <1>3, <2>2, <3>1, <3>2, KnownElsewhere
    <2>4. CASE k = l /\ ~landscapers[l].exists
      BY <2>2, <2>4 DEF AnnotationInv, Known, Settled
    <2>5. CASE k = l /\ landscapers[l].exists /\ landscapers[l].deleting
      BY <2>2, <2>5 DEF AnnotationInv, Known, Settled
    <2>6. CASE k = l /\ landscapers[l].exists /\ ~landscapers[l].deleting
      <3>1. /\ worker'.key = l /\ worker'.at = "checkAnnotation"
            /\ worker'.annotated = landscapers[l].annotated
        BY <2>1, <2>6 DEF IdleWorker
      <3> QED BY <2>2, <3>1 DEF AnnotationInv, Known, WorkInv
    <2> QED BY <2>3, <2>4, <2>5, <2>6
  <1> QED BY <1>1, <1>2, <1>3

\* What is done to the watched objects is followed by an event; what is not
\* followed by one is missed.
LEMMA KnownEnvironment ==
    ASSUME Types, NEW l \in Landscapers, AnnotationInv(l), Known(l), Environment
    PROVE  AnnotationInv(l)' /\ Known(l)'
  <1>1. ASSUME UNCHANGED <<landscapers, queue, worker>>
        PROVE  AnnotationInv(l)'
    BY <1>1 DEF AnnotationInv
  <1>2. CASE EditProviderConfig
    <2>1. PICK p \in ProviderConfigs, v \in ConfigValues :
             /\ providerConfigs' = [providerConfigs EXCEPT ![p] = v]
             /\ events' = [events EXCEPT !["config"] = @ \cup {p}]
      BY <1>2 DEF EditProviderConfig
    <2>2. UNCHANGED <<landscapers, queue, worker, missed, installed, handlers,
                      providerSecrets, contents>>
      BY <1>2 DEF EditProviderConfig
    <2>3. events'["config"] = events["config"] \cup {p}
      BY <2>1 DEF Types, HandlerTypes, Watches
    <2>4. CASE SpecRef[l] = p
      <3>1. ConfigComing(l)'
        BY <2>3, <2>4 DEF ConfigComing, Coming
      <3>2. /\ Recorded(l)' <=> Recorded(l)
            /\ RestInv(l) => RestInv(l)'
        BY <2>2, <3>1 DEF RestInv, Recorded
      <3> QED BY <1>1, <2>2, <3>1, <3>2 DEF Known, Settled, WorkInv
    <2>5. CASE SpecRef[l] # p
      <3>1. providerConfigs'[SpecRef[l]] = providerConfigs[SpecRef[l]]
        BY <2>1, <2>5, Constants DEF Types, SourceTypes
      <3>2. \A w \in Watches : \A o : Coming(w, o, l) => Coming(w, o, l)'
        <4>1. \A w \in Watches : events[w] \subseteq events'[w]
          BY <2>1 DEF Types, HandlerTypes
        <4> QED BY <2>2, <3>1, <4>1 DEF Coming, RefersTo
      <3>3. /\ Recorded(l)' <=> Recorded(l)
            /\ Config(l)' = Config(l)
            /\ SecretNames(Config(l))' = SecretNames(Config(l))
            /\ ConfigComing(l) => ConfigComing(l)'
        BY <2>2, <3>1, <3>2 DEF Recorded, Config, SecretNames, ConfigComing, Watches
      <3>4. /\ BundleKnown(l) => BundleKnown(l)'
            /\ SecretsKnown(l) => SecretsKnown(l)'
        <4>1. \A o : /\ Coming("bundle", o, l) => Coming("bundle", o, l)'
                     /\ Coming("secret", o, l) => Coming("secret", o, l)'
          BY <3>2 DEF Watches
        <4>2. BundleKnown(l) => BundleKnown(l)'
          BY <2>2, <3>3, <4>1 DEF BundleKnown, Coming
        <4>3. SecretsKnown(l) => SecretsKnown(l)'
          BY <2>2, <3>3, <4>1 DEF SecretsKnown
        <4> QED BY <4>2, <4>3
      <3>5. /\ RestInv(l) => RestInv(l)'
            /\ WorkInv(l) => WorkInv(l)'
        BY <2>2, <3>3, <3>4 DEF RestInv, WorkInv
      <3> QED BY <1>1, <2>2, <3>5 DEF Known, Settled
    <2> QED BY <2>4, <2>5
  <1>3. CASE Rotate
    <2>1. PICK w \in {"secret", "bundle"} : \E o \in Watched[w] :
             /\ contents' = [contents EXCEPT ![o] = @ + 1]
             /\ events' = [events EXCEPT ![w] = @ \cup {o}]
      BY <1>3 DEF Rotate
    <2>2. PICK o \in Watched[w] :
             /\ contents' = [contents EXCEPT ![o] = @ + 1]
             /\ events' = [events EXCEPT ![w] = @ \cup {o}]
      BY <2>1
    <2>3. UNCHANGED <<landscapers, queue, worker, missed, installed, handlers,
                      providerSecrets, providerConfigs>>
      BY <1>3 DEF Rotate
    <2>4. /\ \A v \in Watches : events[v] \subseteq events'[v]
          /\ \A x \in Secrets \cup CABundles :
                 x # o => contents'[x] = contents[x]
          /\ o \in events'[w]
      BY <2>2 DEF Types, HandlerTypes, SourceTypes, Watches
    <2>5. \A v \in Watches : \A x : Coming(v, x, l) => Coming(v, x, l)'
      BY <2>3, <2>4 DEF Coming, RefersTo
    <2>6. /\ Recorded(l)' <=> Recorded(l)
          /\ Config(l)' = Config(l)
          /\ SecretNames(Config(l))' = SecretNames(Config(l))
          /\ ConfigComing(l) => ConfigComing(l)'
      BY <2>3, <2>5 DEF Recorded, Config, SecretNames, ConfigComing, Watches
    <2>7. /\ Config(l) \in ConfigContents
          /\ Config(l).ca # NoCA => Config(l).ca \in CABundles
          /\ SecretNames(Config(l)) \subseteq Secrets
      BY Constants DEF Config, SecretNames, Types, SourceTypes, ConfigContents
    <2>8. BundleKnown(l) => BundleKnown(l)'
      <3>1. Coming("bundle", Config(l).ca, l) => Coming("bundle", Config(l).ca, l)'
        BY <2>5, <2>6 DEF Coming, Watches
      <3>2. CASE w = "bundle"
        <4>1. o = Config(l).ca => Coming("bundle", Config(l).ca, l)'
          BY <2>4, <2>6, <3>2 DEF Coming
        <4> QED BY <2>3, <2>4, <2>6, <2>7, <3>1, <4>1 DEF BundleKnown
      <3>3. CASE w = "secret"
        <4>1. o \in Secrets
          BY <3>3 DEF Watched
        <4>2. Config(l).ca # NoCA => contents'[Config(l).ca] = contents[Config(l).ca]
          BY <2>4, <2>7, <4>1, ConstantsAssumption
        <4> QED BY <2>3, <2>6, <3>1, <4>2 DEF BundleKnown
      <3> QED BY <3>2, <3>3
    <2>9. SecretsKnown(l) => SecretsKnown(l)'
      <3>1. \A x : Coming("secret", x, l) => Coming("secret", x, l)'
        BY <2>5 DEF Watches
      <3>2. CASE w = "secret"
        <4>1. Coming("secret", o, l)'
          BY <2>4, <3>2 DEF Coming
        <4> QED BY <2>3, <2>4, <2>6, <2>7, <3>1, <4>1 DEF SecretsKnown
      <3>3. CASE w = "bundle"
        <4>1. o \in CABundles
          BY <3>3 DEF Watched
        <4>2. \A x \in SecretNames(Config(l)) : contents'[x] = contents[x]
          BY <2>4, <2>7, <4>1, ConstantsAssumption
        <4> QED BY <2>3, <2>6, <3>1, <4>2 DEF SecretsKnown
      <3> QED BY <3>2, <3>3
    <2>10. /\ RestInv(l) => RestInv(l)'
           /\ WorkInv(l) => WorkInv(l)'
      BY <2>3, <2>6, <2>8, <2>9 DEF RestInv, WorkInv
    <2> QED BY <1>1, <2>3, <2>10 DEF Known, Settled
  <1>4. CASE EditServiceProvider
    <2>1. l \in missed'
      BY <1>4 DEF EditServiceProvider, Misses
    <2> QED BY <1>1, <1>4, <2>1 DEF EditServiceProvider, Known, Settled
  <1>5. CASE RequestDeletion
    <2>1. PICK k \in Landscapers :
             OtherWrite(k, [landscapers[k] EXCEPT !.deleting = TRUE])
      BY <1>5 DEF RequestDeletion
    <2>2. CASE k = l
      <3>1. queue'[l] = "now"
        BY <2>1, <2>2 DEF OtherWrite, Write, Types, LandscaperTypes
      <3> QED BY <3>1, KnownQueued
    <2>3. CASE k # l
      <3>1. landscapers'[l] = landscapers[l] /\ queue'[l] = queue[l]
        BY <2>1, <2>3 DEF OtherWrite, Write, Types, LandscaperTypes
      <3>2. UNCHANGED <<worker.key, worker.at, worker.cfg, worker.annotated>>
        BY <2>1 DEF OtherWrite, Types, WorkerTypes, WorkerRecords
      <3>3. UNCHANGED <<sources, events, handlers, installed, missed>>
        BY <1>5 DEF RequestDeletion
      <3>4. AnnotationInv(l)'
        BY <3>1, <3>2 DEF AnnotationInv
      <3>5. /\ RestInv(l) => RestInv(l)'
            /\ WorkInv(l) => WorkInv(l)'
        BY <3>1, <3>2, <3>3, NothingDelivered, KnownKept
      <3> QED BY <3>1, <3>2, <3>3, <3>4, <3>5 DEF Known, Settled
    <2> QED BY <2>2, <2>3
  <1>6. ASSUME NEW w \in Watches, LookupFails(w)
        PROVE  AnnotationInv(l)' /\ Known(l)'
    <2>1. l \in missed'
      BY <1>6 DEF LookupFails, Misses
    <2> QED BY <1>1, <1>6, <2>1 DEF LookupFails, Known, Settled
  <1>7. ASSUME NEW w \in Watches, AnnotationRefused(w)
        PROVE  AnnotationInv(l)' /\ Known(l)'
    <2>1. PICK m \in handlers[w].todo : AnnotationFails(w, m)
      BY <1>7 DEF AnnotationRefused
    <2>2. UNCHANGED <<landscapers, queue, sources, events, worker, installed>>
      BY <1>7 DEF AnnotationRefused
    <2>3. CASE l \in missed'
      BY <1>1, <2>2, <2>3 DEF Known, Settled
    <2>4. CASE l \notin missed'
      <3>1. m # l /\ l \notin missed
        BY <2>1, <2>4 DEF AnnotationFails, Misses, AfterError
      <3>2. ComingKept(l)
        BY <2>1, <2>2, <2>4, <3>1, TurnKeepsComing
      <3>3. /\ RestInv(l) => RestInv(l)'
            /\ WorkInv(l) => WorkInv(l)'
        BY <2>2, <3>2, KnownKept
      <3> QED BY <1>1, <2>2, <3>1, <3>3 DEF Known, Settled
    <2> QED BY <2>3, <2>4
  <1>8. CASE WorkerFails
    <2>1. worker.key \in Landscapers
      BY <1>8, TypeWork DEF WorkerFails
    <2>2. CASE worker.key = l
      <3>1. queue'[l] = "now"
        BY <1>8, <2>2 DEF WorkerFails, Fails, Types, LandscaperTypes
      <3> QED BY <3>1, KnownQueued
    <2>3. CASE worker.key # l
      <3>1. queue'[l] = queue[l] /\ worker'.key # l
        BY <1>8, <2>1, <2>3, Constants
           DEF WorkerFails, Fails, IdleWorker, Types, LandscaperTypes
      <3>2. UNCHANGED <<sources, events, handlers, installed, missed, landscapers>>
        BY <1>8 DEF WorkerFails, Fails
      <3> QED BY <2>3, <3>1, <3>2, KnownElsewhere
    <2> QED BY <2>2, <2>3
  <1>9. CASE Restart
    <2>1. UNCHANGED landscapers /\ (landscapers[l].exists => queue'[l] = "now")
      BY <1>9 DEF Restart
    <2> QED BY <2>1 DEF AnnotationInv, Known, Settled
  <1> QED
    BY <1>2, <1>3, <1>4, <1>5, <1>6, <1>7, <1>8, <1>9 DEF Environment

\* What is known is enough when all events have been handled.
LEMMA KnownSuffices == Types /\ KnownInv => ChangesReachEverybody
  <1> SUFFICES ASSUME Types, KnownInv, WatchesQuiet,
                      NEW l \in Landscapers \ missed, Resting(l)
               PROVE  installed[l] = Wanted(l)
    BY DEF ChangesReachEverybody
  <1>1. \A w \in Watches : \A o : ~Coming(w, o, l)
    BY DEF WatchesQuiet, Coming
  <1>2. BundleKnown(l) /\ SecretsKnown(l)
    BY <1>1
       DEF KnownInv, Known, Settled, Resting, RestInv, ConfigComing, Watches
  <1>3. PICK S \in SUBSET Secrets : installed[l].secrets \in [S -> Nat]
    BY DEF Types, Installations
  <1>4. S = SecretNames(Config(l))
    BY <1>2, <1>3 DEF SecretsKnown
  <1>5. \A s \in S : installed[l].secrets[s] = contents[s]
    BY <1>1, <1>2, <1>4 DEF SecretsKnown, Watches
  <1>6. installed[l].secrets = [s \in S |-> contents[s]]
    BY <1>3, <1>5
  <1>7. /\ installed[l].ca = Config(l).ca
        /\ installed[l].bundle =
               IF Config(l).ca = NoCA THEN 0 ELSE contents[Config(l).ca]
    BY <1>1, <1>2 DEF BundleKnown, Watches
  <1>8. installed[l] = [secrets |-> installed[l].secrets, ca |-> installed[l].ca,
                        bundle |-> installed[l].bundle]
    BY DEF Types, Installations
  <1> QED BY <1>4, <1>6, <1>7, <1>8 DEF Wanted, Config

(***************************************************************************)
(* ChangesReachEverybody: when all events have been handled, a Landscaper  *)
(* that is left to its timer has the present provider config, pull secrets *)
(* and CA bundle, unless it is counted as missed, for any number of        *)
(* Landscapers, objects and configs and every interleaving of the watches, *)
(* the worker, the operators and the failures.                             *)
(***************************************************************************)
THEOREM ChangesReachEverybodyCorrect == Spec => []ChangesReachEverybody
  <1>1. Init => KnownInv
    <2> SUFFICES ASSUME Init, NEW l \in Landscapers
                 PROVE  AnnotationInv(l) /\ Known(l)
      BY DEF KnownInv
    <2>1. PICK scenario \in Scenarios :
             landscapers = [k \in Landscapers |->
                 [NoLandscaper EXCEPT !.exists = k \in scenario[1]]]
      BY DEF Init
    <2>2. ~landscapers[l].annotated
      BY <2>1 DEF NoLandscaper
    <2>3. landscapers[l].exists => queue[l] = "now"
      BY DEF Init
    <2> QED BY <2>2, <2>3 DEF AnnotationInv, Known, Settled
  <1>2. Types /\ KnownInv /\ [Next]_vars => KnownInv'
    <2> SUFFICES ASSUME Types, KnownInv, [Next]_vars, NEW l \in Landscapers
                 PROVE  AnnotationInv(l)' /\ Known(l)'
      BY DEF KnownInv
    <2>1. AnnotationInv(l) /\ Known(l)
      BY DEF KnownInv
    <2>2. CASE UNCHANGED vars
      <3>1. UNCHANGED <<landscapers, queue, sources, events, handlers, worker,
                        installed, missed>>
        BY <2>2 DEF vars
      <3>2. AnnotationInv(l)'
        BY <2>1, <3>1 DEF AnnotationInv
      <3>3. /\ RestInv(l) => RestInv(l)'
            /\ WorkInv(l) => WorkInv(l)'
        BY <3>1, NothingDelivered, KnownKept
      <3> QED BY <2>1, <3>1, <3>2, <3>3 DEF Known, Settled
    <2> QED
      BY <2>1, <2>2, KnownWorker, KnownHandler, KnownEnvironment DEF Next
  <1>3. Types /\ [Next]_vars => Types'
    BY TypeStep
  <1> QED BY <1>1, <1>2, <1>3, TypeInit, KnownSuffices, PTL DEF Spec
=============================================================================
