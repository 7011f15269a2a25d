------------------------------ MODULE HostNames ------------------------------
(***************************************************************************)
(* The host name of the webhooks server (internal/dns/dns.go and its calls *)
(* in reconcile.go).  It is made of the instance and the base domain that  *)
(* the default gateway carries in an annotation, and is used twice: in the *)
(* arguments of the webhooks server, from the first reading of the gateway *)
(* in a reconciliation, and in the TLSRoute, from the second.  The gateway *)
(* belongs to the operator of the workload cluster, who may change the     *)
(* domain, drop the annotation or remove the gateway at any moment; the    *)
(* gateway's controller looks at a route whenever it gets to it.           *)
(*                                                                         *)
(* A host name is represented by its base domain.  The reconciliation is   *)
(* reduced to the calls of dns.go and to the installation of the server.   *)
(***************************************************************************)
EXTENDS Naturals

CONSTANTS
    Domains,     \* base domains
    NoHost,      \* no host name
    MaxEdits,    \* bound on edits of the gateway
    MaxFailures  \* bound on failing calls

ASSUME ConstantsAssumption ==
    /\ NoHost \notin Domains
    /\ MaxEdits \in Nat /\ MaxFailures \in Nat

VARIABLES
    gateway,   \* [exists, domain]: the default gateway and its annotation
    server,    \* the host name in the arguments of the webhooks server
    route,     \* the TLSRoute and its Accepted condition
    resource,  \* the Landscaper: "live", "deleting" or "gone"
    worker,    \* what the worker is doing
    queue,     \* its key: "now", after a "timer", or "no"
    edits, failures

vars == <<gateway, server, route, resource, worker, queue, edits, failures>>

-----------------------------------------------------------------------------

Hosts == Domains \cup {NoHost}

Gateways == [exists : BOOLEAN, domain : Hosts]

\* accepted: the condition; observed: the host it was decided for (in the
\* API its observedGeneration).
Routes == [exists : BOOLEAN, host : Hosts, accepted : BOOLEAN, observed : Hosts]

NoRoute ==
    [exists |-> FALSE, host |-> NoHost, accepted |-> FALSE, observed |-> NoHost]

\* host: the result of the last reading; fresh: the route has not been
\* written since the worker read it.
IdleWorker == [at |-> "idle", host |-> NoHost, fresh |-> FALSE]

TypeOK ==
    /\ gateway \in Gateways
    /\ gateway.domain # NoHost => gateway.exists
    /\ server \in Hosts
    /\ route \in Routes
    /\ route.exists <=> route.host # NoHost
    /\ resource \in {"live", "deleting", "gone"}
    /\ worker \in [at : {"idle", "reconcileGateway", "install",
                         "reconcileTLSRoute", "getRoute", "writeRoute",
                         "isTLSRouteReady", "deleteTLSRoute", "uninstall"},
                   host : Hosts, fresh : BOOLEAN]
    /\ worker.at \in {"install", "getRoute", "writeRoute"} =>
           worker.host # NoHost
    /\ queue \in {"no", "timer", "now"}
    /\ edits \in Nat /\ failures \in Nat

-----------------------------------------------------------------------------
(* How a step of the worker continues.                                     *)

Goto(at) == worker' = [worker EXCEPT !.at = at] /\ UNCHANGED queue

Return(when) ==
    /\ worker' = IdleWorker
    /\ queue' = IF queue = "now" THEN "now" ELSE when

Error == Return("now")

Requeue == Return("timer")

Take ==
    /\ worker.at = "idle" /\ queue # "no"
    /\ queue' = "no"
    /\ worker' = [worker EXCEPT !.at =
           CASE resource = "live" -> "reconcileGateway"
             [] resource = "deleting" -> "deleteTLSRoute"
             [] resource = "gone" -> "idle"]
    /\ UNCHANGED <<gateway, server, route, resource, edits, failures>>

\* Mutant: a gateway without the annotation counts, with an empty domain.
hasBaseDomain_Always == TRUE

hasBaseDomain == gateway.domain # NoHost

\* Without the gateway the handler waits, without its annotation it fails.
ReconcileGateway ==
    /\ worker.at = "reconcileGateway"
    /\ \/ ~gateway.exists /\ Requeue
       \/ gateway.exists /\ ~hasBaseDomain /\ Error
       \/ /\ gateway.exists /\ hasBaseDomain
          /\ worker' = [worker EXCEPT !.at = "install", !.host = gateway.domain]
          /\ UNCHANGED queue
    /\ UNCHANGED <<gateway, server, route, resource, edits, failures>>

Install ==
    /\ worker.at = "install"
    /\ server' = worker.host
    /\ Goto("reconcileTLSRoute")
    /\ UNCHANGED <<gateway, route, resource, edits, failures>>

\* The gateway is read again, and now it must be there.
ReconcileTLSRoute ==
    /\ worker.at = "reconcileTLSRoute"
    /\ \/ /\ gateway.exists /\ hasBaseDomain
          /\ worker' = [worker EXCEPT !.at = "getRoute", !.host = gateway.domain]
          /\ UNCHANGED queue
       \/ /\ ~gateway.exists \/ ~hasBaseDomain
          /\ Error
    /\ UNCHANGED <<gateway, server, route, resource, edits, failures>>

\* CreateOrUpdate: read, and write what differs, unless the route has been
\* written by somebody else in the meantime.
GetRoute ==
    /\ worker.at = "getRoute"
    /\ worker' = [worker EXCEPT !.at = "writeRoute", !.fresh = TRUE]
    /\ UNCHANGED <<gateway, server, route, resource, queue, edits, failures>>

\* Mutant: an existing route is left as it is.
Written_OnlyCreated(host) ==
    IF route.exists THEN route ELSE [NoRoute EXCEPT !.exists = TRUE, !.host = host]

\* The status of an existing route stays as it is.
Written(host) == [route EXCEPT !.exists = TRUE, !.host = host]

WriteRoute ==
    /\ worker.at = "writeRoute"
    /\ \/ /\ worker.fresh
          /\ route' = Written(worker.host)
          /\ Goto("isTLSRouteReady")
       \/ /\ ~worker.fresh
          /\ Error
          /\ UNCHANGED route
    /\ UNCHANGED <<gateway, server, resource, edits, failures>>

\* Both ways the worker comes back: after 20 seconds, or, ready, 10 minutes.
IsTLSRouteReady ==
    /\ worker.at = "isTLSRouteReady"
    /\ Requeue
    /\ UNCHANGED <<gateway, server, route, resource, edits, failures>>

\* The answer of IsTLSRouteReady: any Accepted condition of the gateway.
SaysReady == worker.at = "isTLSRouteReady" /\ route.accepted

\* Mutant: the route can only be deleted where the gateway is.
MayDeleteRoute_NeedsGateway == gateway.exists

MayDeleteRoute == TRUE

\* Mutant: where the gateway is gone, its routes are taken for gone as well.
DeleteTLSRoute_GatewayGone ==
    /\ worker.at = "deleteTLSRoute"
    /\ route' = IF gateway.exists THEN NoRoute ELSE route
    /\ Goto("uninstall")
    /\ UNCHANGED <<gateway, server, resource, edits, failures>>

\* The deletion does not ask for the gateway, and a missing route is fine.
DeleteTLSRoute ==
    /\ worker.at = "deleteTLSRoute"
    /\ \/ /\ MayDeleteRoute
          /\ route' = NoRoute
          /\ Goto("uninstall")
       \/ /\ ~MayDeleteRoute
          /\ Error
          /\ UNCHANGED route
    /\ UNCHANGED <<gateway, server, resource, edits, failures>>

\* The rest of the deletion, which ends with the finalizer.
Uninstall ==
    /\ worker.at = "uninstall"
    /\ server' = NoHost
    /\ resource' = "gone"
    /\ worker' = IdleWorker
    /\ queue' = "now"
    /\ UNCHANGED <<gateway, route, edits, failures>>

Worker ==
    \/ Take \/ ReconcileGateway \/ Install \/ ReconcileTLSRoute \/ GetRoute
    \/ WriteRoute \/ IsTLSRouteReady \/ DeleteTLSRoute \/ Uninstall

-----------------------------------------------------------------------------
(* Everybody else.                                                         *)

CallFails ==
    /\ failures > 0 /\ failures' = failures - 1
    /\ worker.at # "idle"
    /\ Error
    /\ UNCHANGED <<gateway, server, route, resource, edits>>

EditGateway ==
    /\ edits > 0 /\ edits' = edits - 1
    /\ gateway' \in Gateways \ {gateway}
    /\ gateway'.domain # NoHost => gateway'.exists
    /\ UNCHANGED <<server, route, resource, worker, queue, failures>>

\* The gateway's controller decides on the route as it is now; a gateway that
\* is gone decides nothing, and its last condition stays.
DecideOnRoute ==
    /\ route.exists /\ gateway.exists
    /\ LET decided == [route EXCEPT !.accepted = (route.host = gateway.domain),
                                    !.observed = route.host]
       IN  route # decided /\ route' = decided
    /\ worker' = [worker EXCEPT !.fresh = FALSE]
    /\ UNCHANGED <<gateway, server, resource, queue, edits, failures>>

RequestDeletion ==
    /\ resource = "live"
    /\ resource' = "deleting"
    /\ queue' = "now"
    /\ UNCHANGED <<gateway, server, route, worker, edits, failures>>

Init ==
    /\ gateway = [exists |-> FALSE, domain |-> NoHost]
    /\ server = NoHost
    /\ route = NoRoute
    /\ resource = "live"
    /\ worker = IdleWorker
    /\ queue = "now"
    /\ edits = MaxEdits /\ failures = MaxFailures

Next ==
    Worker \/ CallFails \/ EditGateway \/ DecideOnRoute \/ RequestDeletion

Spec == Init /\ [][Next]_vars

\* Nothing is assumed of the operator, who may leave the cluster without a
\* gateway.
FairSpec == Spec /\ WF_vars(Worker) /\ WF_vars(DecideOnRoute)

-----------------------------------------------------------------------------

(***************************************************************************)
(* No route to nowhere: the route, which makes the webhooks server public, *)
(* exists only while there is a server, at each step of the creation and   *)
(* of the deletion, and a Landscaper that is gone has left no server, so   *)
(* no route either, whatever has become of the gateway.                    *)
(***************************************************************************)
RouteHasServer ==
    /\ route.exists => server # NoHost
    /\ resource = "gone" => server = NoHost

(***************************************************************************)
(* Ready means accepted: when the check lets the instance pass, the host   *)
(* name that the route has now is the one the gateway accepted             *)
(* ("IsTLSRouteReady checks if the TLSRoute for the given instance is      *)
(* accepted by the default gateway", dns.go).  Does not hold: see the run  *)
(* stale_acceptance.                                                       *)
(***************************************************************************)
ReadyMeansAccepted == SaysReady => route.observed = route.host

(***************************************************************************)
(* Host names settle: if the gateway keeps its base domain, the server and *)
(* the route of a living Landscaper both end up with it, and the route is  *)
(* accepted for it, however the domain changed between the two readings of *)
(* one reconciliation before.                                              *)
(***************************************************************************)
HostNamesSettle ==
    \A d \in Domains :
        <>[](gateway.domain = d /\ resource = "live")
        => <>[](/\ server = d
                /\ route.host = d /\ route.accepted /\ route.observed = d)

(***************************************************************************)
(* The deletion needs no gateway: it completes, and leaves neither server  *)
(* nor route, also on a cluster whose gateway is gone for good.            *)
(***************************************************************************)
DeletionNeedsNoGateway ==
    resource = "deleting" ~>
        [](resource = "gone" /\ server = NoHost /\ ~route.exists)
=============================================================================
