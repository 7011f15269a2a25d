--------------------------- MODULE HostNamesProofs ---------------------------
(***************************************************************************)
(* The host name of the webhooks server, for any base domains and any      *)
(* number of edits and failing calls: a route always has a server behind   *)
(* it, and both have the same host name as soon as the gateway keeps still *)
(* during one reconciliation.  That Ready means accepted does not hold in  *)
(* general (run stale_acceptance); here it is proved for a gateway that    *)
(* never goes from one base domain to another, so the change is the only   *)
(* cause.                                                                  *)
(***************************************************************************)
EXTENDS HostNames, TLAPS

USE ConstantsAssumption

Creating == {"reconcileGateway", "install", "reconcileTLSRoute", "getRoute",
             "writeRoute", "isTLSRouteReady"}

Installed == {"reconcileTLSRoute", "getRoute", "writeRoute", "isTLSRouteReady"}

-----------------------------------------------------------------------------
(* Types.                                                                  *)

LEMMA InitTypes == Init => TypeOK
  BY DEF Init, TypeOK, Gateways, Hosts, Routes, NoRoute, IdleWorker

\* What the two readings of the gateway leave behind: no host name and an
\* idle worker, or the base domain of this moment.
LEMMA Readings ==
    ASSUME TypeOK, NEW to \in {"install", "getRoute"},
           \/ to = "install" /\ ReconcileGateway
           \/ to = "getRoute" /\ ReconcileTLSRoute
    PROVE  /\ UNCHANGED <<gateway, server, route, resource, edits, failures>>
           /\ queue' \in {"no", "timer", "now"}
           /\ worker.at \in {"reconcileGateway", "reconcileTLSRoute"}
           /\ to = "getRoute" => worker.at = "reconcileTLSRoute"
           /\ \/ worker' = IdleWorker
              \/ /\ gateway.domain \in Domains
                 /\ worker' = [at |-> to, host |-> gateway.domain,
                               fresh |-> worker.fresh]
  <1>1. \/ /\ worker.at = "reconcileGateway" /\ to = "install"
           /\ UNCHANGED <<gateway, server, route, resource, edits, failures>>
        \/ /\ worker.at = "reconcileTLSRoute" /\ to = "getRoute"
           /\ UNCHANGED <<gateway, server, route, resource, edits, failures>>
    BY DEF ReconcileGateway, ReconcileTLSRoute
  <1>2. \/ Requeue \/ Error
        \/ /\ gateway.domain # NoHost
           /\ worker' = [worker EXCEPT !.at = to, !.host = gateway.domain]
           /\ UNCHANGED queue
    BY DEF ReconcileGateway, ReconcileTLSRoute, hasBaseDomain
  <1>3. CASE Requeue \/ Error
    BY <1>1, <1>3 DEF Requeue, Error, Return, TypeOK
  <1>4. CASE /\ gateway.domain # NoHost
             /\ worker' = [worker EXCEPT !.at = to, !.host = gateway.domain]
             /\ UNCHANGED queue
    <2>1. gateway.domain \in Domains
      BY <1>4 DEF TypeOK, Gateways, Hosts
    <2>2. worker' = [at |-> to, host |-> gateway.domain, fresh |-> worker.fresh]
      BY <1>4 DEF TypeOK
    <2> QED
      BY <1>1, <1>4, <2>1, <2>2 DEF TypeOK
  <1> QED
    BY <1>2, <1>3, <1>4

\* What a write of the route leaves behind, if it is not refused.
LEMMA Writing ==
    ASSUME TypeOK, WriteRoute
    PROVE  /\ UNCHANGED <<gateway, server, resource, edits, failures>>
           /\ queue' \in {"no", "timer", "now"}
           /\ worker.at = "writeRoute" /\ worker.host \in Domains
           /\ \/ worker' = IdleWorker /\ route' = route
              \/ /\ worker' = [at |-> "isTLSRouteReady", host |-> worker.host,
                               fresh |-> worker.fresh]
                 /\ route' = [exists |-> TRUE, host |-> worker.host,
                              accepted |-> route.accepted,
                              observed |-> route.observed]
  <1>1. /\ UNCHANGED <<gateway, server, resource, edits, failures>>
        /\ worker.at = "writeRoute" /\ worker.host \in Domains
    BY DEF WriteRoute, TypeOK, Hosts
  <1>2. \/ route' = Written(worker.host) /\ Goto("isTLSRouteReady")
        \/ Error /\ UNCHANGED route
    BY DEF WriteRoute
  <1>3. CASE route' = Written(worker.host) /\ Goto("isTLSRouteReady")
    <2>1. route' = [exists |-> TRUE, host |-> worker.host,
                    accepted |-> route.accepted, observed |-> route.observed]
      BY <1>3 DEF Written, TypeOK, Routes
    <2>2. /\ worker' = [at |-> "isTLSRouteReady", host |-> worker.host,
                        fresh |-> worker.fresh]
          /\ queue' \in {"no", "timer", "now"}
      BY <1>3 DEF Goto, TypeOK
    <2> QED
      BY <1>1, <2>1, <2>2
  <1>4. CASE Error /\ UNCHANGED route
    BY <1>1, <1>4 DEF Error, Return, TypeOK
  <1> QED
    BY <1>2, <1>3, <1>4

LEMMA NextTypes == TypeOK /\ [Next]_vars => TypeOK'
  <1> SUFFICES ASSUME TypeOK, [Next]_vars PROVE TypeOK'
    OBVIOUS
  <1> USE DEF TypeOK, Gateways, Hosts, Routes, IdleWorker
  <1>1. CASE Take
    BY <1>1 DEF Take
  <1>2. CASE ReconcileGateway
    <2>1. /\ UNCHANGED <<gateway, server, route, resource, edits, failures>>
          /\ queue' \in {"no", "timer", "now"}
          /\ \/ worker' = IdleWorker
             \/ /\ gateway.domain \in Domains
                /\ worker' = [at |-> "install", host |-> gateway.domain,
                              fresh |-> worker.fresh]
      BY <1>2, Readings
    <2>2. CASE worker' = IdleWorker
      BY <2>1, <2>2
    <2>3. CASE /\ gateway.domain \in Domains
               /\ worker' = [at |-> "install", host |-> gateway.domain,
                             fresh |-> worker.fresh]
      BY <2>1, <2>3
    <2> QED
      BY <2>1, <2>2, <2>3
  <1>3. CASE Install
    BY <1>3 DEF Install, Goto
  <1>4. CASE ReconcileTLSRoute
    <2>1. /\ UNCHANGED <<gateway, server, route, resource, edits, failures>>
          /\ queue' \in {"no", "timer", "now"}
          /\ \/ worker' = IdleWorker
             \/ /\ gateway.domain \in Domains
                /\ worker' = [at |-> "getRoute", host |-> gateway.domain,
                              fresh |-> worker.fresh]
      BY <1>4, Readings
    <2>2. CASE worker' = IdleWorker
      BY <2>1, <2>2
    <2>3. CASE /\ gateway.domain \in Domains
               /\ worker' = [at |-> "getRoute", host |-> gateway.domain,
                             fresh |-> worker.fresh]
      BY <2>1, <2>3
    <2> QED
      BY <2>1, <2>2, <2>3
  <1>5. CASE GetRoute
    BY <1>5 DEF GetRoute
  <1>6. CASE WriteRoute
    <2>1. CASE worker' = IdleWorker /\ route' = route
      BY <1>6, <2>1, Writing
    <2>2. CASE /\ worker' = [at |-> "isTLSRouteReady", host |-> worker.host,
                             fresh |-> worker.fresh]
               /\ route' = [exists |-> TRUE, host |-> worker.host,
                            accepted |-> route.accepted,
                            observed |-> route.observed]
      <3>1. route' \in Routes /\ route'.exists /\ route'.host # NoHost
        BY <1>6, <2>2, Writing
      <3> QED
        BY <1>6, <2>2, <3>1, Writing
    <2> QED
      BY <1>6, <2>1, <2>2, Writing
  <1>7. CASE IsTLSRouteReady
    BY <1>7 DEF IsTLSRouteReady, Requeue, Return
  <1>8. CASE DeleteTLSRoute
    <2>1. /\ route' = NoRoute
          /\ Goto("uninstall")
          /\ UNCHANGED <<gateway, server, resource, edits, failures>>
      BY <1>8 DEF DeleteTLSRoute, MayDeleteRoute
    <2>2. NoRoute \in Routes /\ ~NoRoute.exists /\ NoRoute.host = NoHost
      BY DEF NoRoute
    <2> QED
      BY <2>1, <2>2 DEF Goto
  <1>9. CASE Uninstall
    BY <1>9 DEF Uninstall
  <1>10. CASE CallFails
    BY <1>10 DEF CallFails, Error, Return
  <1>11. CASE EditGateway
    BY <1>11 DEF EditGateway
  <1>12. CASE DecideOnRoute
    BY <1>12 DEF DecideOnRoute
  <1>13. CASE RequestDeletion
    BY <1>13 DEF RequestDeletion
  <1>14. CASE UNCHANGED vars
    BY <1>14 DEF vars
  <1> QED
    BY <1>1, <1>2, <1>3, <1>4, <1>5, <1>6, <1>7, <1>8, <1>9, <1>10, <1>11,
       <1>12, <1>13, <1>14 DEF Next, Worker

(***************************************************************************)
(* The gateway, the server's host name, the route, the resource and the    *)
(* worker keep their types, and the worker has a host name wherever one is *)
(* needed: a gateway without its annotation is refused at both readings.   *)
(***************************************************************************)
THEOREM HostNamesTypeCorrect == Spec => []TypeOK
  BY InitTypes, NextTypes, PTL DEF Spec

-----------------------------------------------------------------------------
(* What the worker relies on at its position: while it creates, the        *)
(* resource is not gone, since only the worker itself ends a deletion; and *)
(* the route is written after the server is installed, and removed before. *)

HasServer ==
    /\ worker.at \in Creating => resource # "gone"
    /\ worker.at \in {"deleteTLSRoute", "uninstall"} => resource = "deleting"
    /\ worker.at \in Installed => server # NoHost
    /\ worker.at = "uninstall" => ~route.exists
    /\ RouteHasServer

LEMMA InitHasServer == Init => HasServer
  BY DEF Init, HasServer, RouteHasServer, NoRoute, IdleWorker, Creating, Installed

LEMMA NextHasServer ==
    ASSUME TypeOK, HasServer, [Next]_vars
    PROVE  HasServer'
  <1>0. /\ worker.at \in {"idle", "deleteTLSRoute", "uninstall"} \cup Creating
        /\ worker = [at |-> worker.at, host |-> worker.host,
                     fresh |-> worker.fresh]
    BY DEF TypeOK, Creating
  <1> USE DEF HasServer, RouteHasServer, Creating, Installed, IdleWorker
  <1>1. CASE Take
    <2>1. worker'.at \in {"idle", "reconcileGateway", "deleteTLSRoute"}
      BY <1>0, <1>1 DEF Take, TypeOK
    <2>2. /\ worker'.at = "reconcileGateway" => resource = "live"
          /\ worker'.at = "deleteTLSRoute" => resource = "deleting"
      BY <1>0, <1>1 DEF Take, TypeOK
    <2> QED
      BY <1>1, <2>1, <2>2 DEF Take
  <1>2. CASE ReconcileGateway
    BY <1>2, Readings
  <1>3. CASE Install
    BY <1>0, <1>3 DEF Install, Goto, TypeOK
  <1>4. CASE ReconcileTLSRoute
    BY <1>4, Readings
  <1>5. CASE GetRoute
    BY <1>0, <1>5 DEF GetRoute
  <1>6. CASE WriteRoute
    BY <1>6, Writing
  <1>7. CASE IsTLSRouteReady
    BY <1>7 DEF IsTLSRouteReady, Requeue, Return
  <1>8. CASE DeleteTLSRoute
    BY <1>0, <1>8 DEF DeleteTLSRoute, MayDeleteRoute, NoRoute, Goto
  <1>9. CASE Uninstall
    BY <1>9 DEF Uninstall
  <1>10. CASE CallFails
    BY <1>10 DEF CallFails, Error, Return
  <1>11. CASE EditGateway
    BY <1>11 DEF EditGateway
  <1>12. CASE DecideOnRoute
    BY <1>0, <1>12 DEF DecideOnRoute, TypeOK, Routes
  <1>13. CASE RequestDeletion
    BY <1>13 DEF RequestDeletion
  <1>14. CASE UNCHANGED vars
    BY <1>14 DEF vars
  <1> QED
    BY <1>1, <1>2, <1>3, <1>4, <1>5, <1>6, <1>7, <1>8, <1>9, <1>10, <1>11,
       <1>12, <1>13, <1>14 DEF Next, Worker

(***************************************************************************)
(* A route always has a server behind it, and a Landscaper that is gone    *)
(* has left neither, for any base domains, edits of the gateway in between *)
(* any two calls, and failing calls.                                       *)
(***************************************************************************)
THEOREM RouteHasServerCorrect == Spec => []RouteHasServer
  <1>1. TypeOK /\ HasServer /\ [Next]_vars => HasServer'
    BY NextHasServer
  <1>2. HasServer => RouteHasServer
    BY DEF HasServer
  <1> QED
    BY InitHasServer, HostNamesTypeCorrect, <1>1, <1>2, PTL DEF Spec

-----------------------------------------------------------------------------
(* One reconciliation reads the gateway twice.  The server has the host    *)
(* name of the first reading, the route that of the second.                *)

GatewayKeepsStill == worker.at # "idle" => gateway' = gateway

BothReadings ==
    /\ worker.at \in {"install", "getRoute", "writeRoute"} =>
           worker.host = gateway.domain
    /\ worker.at \in Installed => server = gateway.domain
    /\ worker.at = "isTLSRouteReady" => route.host = gateway.domain

LEMMA InitBothReadings == Init => BothReadings
  BY DEF Init, BothReadings, IdleWorker, Installed

LEMMA NextBothReadings ==
    ASSUME TypeOK, BothReadings, [Next]_vars, [GatewayKeepsStill]_vars
    PROVE  BothReadings'
  <1>0. /\ worker = [at |-> worker.at, host |-> worker.host,
                     fresh |-> worker.fresh]
        /\ route = [exists |-> route.exists, host |-> route.host,
                    accepted |-> route.accepted, observed |-> route.observed]
    BY DEF TypeOK, Routes
  <1> USE DEF BothReadings, Installed, IdleWorker
  <1>1. CASE Take
    <2>1. worker'.at \in {"idle", "reconcileGateway", "deleteTLSRoute"}
      BY <1>0, <1>1 DEF Take, TypeOK
    <2> QED
      BY <2>1
  <1>2. CASE ReconcileGateway
    BY <1>2, Readings
  <1>3. CASE Install
    BY <1>0, <1>3 DEF Install, Goto
  <1>4. CASE ReconcileTLSRoute
    BY <1>4, Readings
  <1>5. CASE GetRoute
    BY <1>0, <1>5 DEF GetRoute
  <1>6. CASE WriteRoute
    BY <1>6, Writing
  <1>7. CASE IsTLSRouteReady
    BY <1>7 DEF IsTLSRouteReady, Requeue, Return
  <1>8. CASE DeleteTLSRoute
    BY <1>0, <1>8 DEF DeleteTLSRoute, MayDeleteRoute, Goto
  <1>9. CASE Uninstall
    BY <1>9 DEF Uninstall
  <1>10. CASE CallFails
    BY <1>10 DEF CallFails, Error, Return
  <1>11. CASE EditGateway
    <2>1. gateway' # gateway /\ UNCHANGED <<server, route, worker>>
      BY <1>11 DEF EditGateway
    <2>2. worker.at = "idle"
      BY <2>1 DEF GatewayKeepsStill, vars
    <2> QED
      BY <2>1, <2>2
  <1>12. CASE DecideOnRoute
    BY <1>0, <1>12 DEF DecideOnRoute
  <1>13. CASE RequestDeletion
    BY <1>13 DEF RequestDeletion
  <1>14. CASE UNCHANGED vars
    BY <1>14 DEF vars
  <1> QED
    BY <1>1, <1>2, <1>3, <1>4, <1>5, <1>6, <1>7, <1>8, <1>9, <1>10, <1>11,
       <1>12, <1>13, <1>14 DEF Next, Worker

(***************************************************************************)
(* The safety half of HostNamesSettle: if the gateway changes only while   *)
(* the worker is idle, then at the end of every reconciliation the server, *)
(* the route and the gateway have the same host name, whatever they had    *)
(* before it and however calls fail.                                       *)
(***************************************************************************)
THEOREM OneReconciliationSuffices ==
    Spec /\ [][GatewayKeepsStill]_vars =>
        [](worker.at = "isTLSRouteReady" =>
               server = gateway.domain /\ route.host = gateway.domain)
  <1>1. TypeOK /\ BothReadings /\ [Next]_vars /\ [GatewayKeepsStill]_vars =>
            BothReadings'
    BY NextBothReadings
  <1>2. BothReadings =>
            (worker.at = "isTLSRouteReady" =>
                 server = gateway.domain /\ route.host = gateway.domain)
    BY DEF BothReadings, Installed
  <1> QED
    BY InitBothReadings, HostNamesTypeCorrect, <1>1, <1>2, PTL DEF Spec

-----------------------------------------------------------------------------
(* Ready means accepted, where the domain never changes to another one.    *)

OneDomain(d) == gateway.domain \in {d, NoHost}

\* Nothing has a host name with another domain, and an acceptance has been
\* decided for this one.
Only(d) ==
    /\ worker.host \in {d, NoHost}
    /\ route.host \in {d, NoHost}
    /\ route.accepted => route.exists /\ route.observed = d

LEMMA InitOnly == ASSUME NEW d PROVE Init => Only(d)
  BY DEF Init, Only, NoRoute, IdleWorker

LEMMA NextOnly ==
    ASSUME NEW d, TypeOK, OneDomain(d), Only(d), [Next]_vars
    PROVE  Only(d)'
  <1>0. /\ worker = [at |-> worker.at, host |-> worker.host,
                     fresh |-> worker.fresh]
        /\ route = [exists |-> route.exists, host |-> route.host,
                    accepted |-> route.accepted, observed |-> route.observed]
        /\ route.exists \in BOOLEAN /\ route.accepted \in BOOLEAN
        /\ route.exists <=> route.host # NoHost
    BY DEF TypeOK, Routes
  <1> USE DEF Only, OneDomain, IdleWorker
  <1>1. CASE Take
    BY <1>0, <1>1 DEF Take
  <1>2. CASE ReconcileGateway
    BY <1>2, Readings
  <1>3. CASE Install
    BY <1>0, <1>3 DEF Install, Goto
  <1>4. CASE ReconcileTLSRoute
    BY <1>4, Readings
  <1>5. CASE GetRoute
    BY <1>0, <1>5 DEF GetRoute
  <1>6. CASE WriteRoute
    BY <1>6, Writing
  <1>7. CASE IsTLSRouteReady
    BY <1>7 DEF IsTLSRouteReady, Requeue, Return
  <1>8. CASE DeleteTLSRoute
    BY <1>0, <1>8 DEF DeleteTLSRoute, MayDeleteRoute, NoRoute, Goto
  <1>9. CASE Uninstall
    BY <1>9 DEF Uninstall
  <1>10. CASE CallFails
    BY <1>10 DEF CallFails, Error, Return
  <1>11. CASE EditGateway
    BY <1>11 DEF EditGateway
  <1>12. CASE DecideOnRoute
    <2>1. /\ route.exists
          /\ route' = [exists |-> route.exists, host |-> route.host,
                       accepted |-> (route.host = gateway.domain),
                       observed |-> route.host]
          /\ worker' = [at |-> worker.at, host |-> worker.host, fresh |-> FALSE]
      BY <1>0, <1>12 DEF DecideOnRoute
    <2>2. route.host = d
      BY <1>0, <2>1
    <2> QED
      BY <2>1, <2>2
  <1>13. CASE RequestDeletion
    BY <1>13 DEF RequestDeletion
  <1>14. CASE UNCHANGED vars
    BY <1>14 DEF vars
  <1> QED
    BY <1>1, <1>2, <1>3, <1>4, <1>5, <1>6, <1>7, <1>8, <1>9, <1>10, <1>11,
       <1>12, <1>13, <1>14 DEF Next, Worker

(***************************************************************************)
(* Ready means accepted, also when the gateway or its annotation comes and *)
(* goes, calls fail and writes are refused, as long as the annotation      *)
(* always names the same base domain.  So it takes a change from one base  *)
(* domain to another for what the run stale_acceptance shows.              *)
(***************************************************************************)
THEOREM ReadyMeansAcceptedInOneDomain ==
    ASSUME NEW d \in Domains
    PROVE  Spec /\ []OneDomain(d) => []ReadyMeansAccepted
  <1>1. Init => Only(d)
    BY InitOnly
  <1>2. TypeOK /\ OneDomain(d) /\ Only(d) /\ [Next]_vars => Only(d)'
    BY NextOnly
  <1>3. TypeOK /\ Only(d) => ReadyMeansAccepted
    BY DEF TypeOK, Only, ReadyMeansAccepted, SaysReady, Routes
  <1> QED
    BY HostNamesTypeCorrect, <1>1, <1>2, <1>3, PTL DEF Spec

=============================================================================
