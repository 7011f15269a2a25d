------------------------------ MODULE Installer ------------------------------
(***************************************************************************)
(* The installation and uninstallation of one Landscaper instance, one API *)
(* call at a time (internal/installer, internal/shared/imagepullsecrets).  *)
(* An operation is a list of calls, which the worker makes in this order   *)
(* and abandons at the first error; the next reconciliation starts again   *)
(* from the beginning, with the settings of that time.                     *)
(*                                                                         *)
(* Between two operations the settings and the image pull secrets on the   *)
(* platform cluster may change, the latter also during an operation.       *)
(***************************************************************************)
EXTENDS Integers, FiniteSets, InstanceObjects

CONSTANTS
    Versions,          \* versions of the Landscaper
    Secrets,           \* image pull secrets on the platform cluster
    Contents,          \* contents of an image pull secret
    SettingsValues,    \* settings (version and pull secrets) that can be asked for
    MaxChanges,        \* bound on changes of wishes, settings and secrets
    MaxFaults          \* bound on failing calls and crashes

ASSUME SettingsAssumption ==
    /\ Versions \cap {"absent", "present", "mixed"} = {}
    /\ "absent" \notin Contents
    /\ \A s \in SettingsValues :
          /\ s.version \in Versions
          /\ s.secrets \in [Parts -> Seq(Secrets)]
          /\ s.secrets["main"] = s.secrets["central"]
    /\ MaxChanges \in Nat /\ MaxFaults \in Nat

VARIABLES
    objects,     \* the version each object of the instance was written for
    refs,        \* the pull secret copies that a deployment refers to
    copies,      \* the copies of pull secrets on the workload cluster
    sources,     \* the pull secrets on the platform cluster
    wanted,      \* the operation the Landscaper resource asks for
    settings,    \* its present version and pull secrets
    op,          \* the operation that is running
    used,        \* ... the settings it was started with
    at,          \* ... the number of its next call
    done,        \* the last operation, if it has ended with success, or "none"
    changes, faults

clusters == <<objects, refs, copies>>
wishes   == <<sources, wanted, settings, changes>>
job      == <<op, used, at, done>>
vars     == <<clusters, wishes, job, faults>>

-----------------------------------------------------------------------------
CallsOf ==
    [install   |-> [s \in SettingsValues |-> InstallLandscaperInstance(s)],
     uninstall |-> [s \in SettingsValues |-> UninstallLandscaperInstance(s)]]

Calls == IF op = "none" THEN <<>> ELSE CallsOf[op][used]

\* Where the uninstallation continues after the Helm deployer.
AfterHelm == Len(UninstallLandscaper(used)) + Len(UninstallHelmDeployer(used)) + 1

-----------------------------------------------------------------------------
(* Running an operation.                                                   *)

Start ==
    /\ op = "none" /\ wanted # "none"
    /\ op' = wanted
    /\ used' = settings
    /\ at' = 1
    /\ done' = "none"
    /\ UNCHANGED <<clusters, wishes>>

\* After a successful uninstallation the access requests are deleted, and no
\* reconciliation uninstalls again ...
Begin ==
    /\ ~(wanted = "uninstall" /\ done = "uninstall")
    /\ Start
    /\ UNCHANGED faults

\* ... unless the process stopped, or a call failed, before the first of them
\* was deleted.
BeginAgain ==
    /\ faults > 0
    /\ faults' = faults - 1
    /\ wanted = "uninstall" /\ done = "uninstall"
    /\ Start

NextCallIs(call) == op # "none" /\ at <= Len(Calls) /\ Calls[at].call = call

Proceed == at' = at + 1 /\ UNCHANGED <<op, used, done, faults>>

\* Mutant: the calls are counted from zero.
Abandon_CallZero == op' = "none" /\ at' = 0 /\ UNCHANGED <<used, done>>

\* The operation ends here; the next reconciliation starts a new one.
Abandon == op' = "none" /\ at' = 1 /\ UNCHANGED <<used, done>>

\* Creates the object or brings it up to date.  A deployment is given the
\* names of the pull secret copies.
CreateOrUpdateResource ==
    /\ NextCallIs("put")
    /\ LET o == Calls[at].object
       IN  /\ objects' = [objects EXCEPT ![o] = Content(o, used.version)]
           /\ refs' = [part \in Parts |->
                  IF o = Deployment(part)
                  THEN {used.secrets[part][i] : i \in DOMAIN used.secrets[part]}
                  ELSE refs[part]]
    /\ Proceed
    /\ UNCHANGED <<copies, wishes>>

\* An object that does not exist is no error.
DeleteResource ==
    /\ NextCallIs("remove")
    /\ LET o == Calls[at].object
       IN  /\ objects' = [objects EXCEPT ![o] = "absent"]
           /\ refs' = [part \in Parts |->
                  IF o = Deployment(part) THEN {} ELSE refs[part]]
    /\ Proceed
    /\ UNCHANGED <<copies, wishes>>

\* Mutant: the source is looked up on the workload cluster.
SecretFound_WrongCluster(s) == \E part \in Parts : copies[part][s] # "absent"

SecretFound(s) == sources[s] # "absent"

\* Mutant: a copy that exists already is not updated.
CopyOf_OnlyOnce(part, s) ==
    IF copies[part][s] = "absent" THEN sources[s] ELSE copies[part][s]

CopyOf(part, s) == sources[s]

CopySecret ==
    /\ NextCallIs("copy")
    /\ LET part == Calls[at].object[1]
           s == Calls[at].object[2]
       IN  /\ SecretFound(s)
           /\ copies' = [copies EXCEPT ![part][s] = CopyOf(part, s)]
    /\ Proceed
    /\ UNCHANGED <<objects, refs, wishes>>

\* The code deletes a secret with the name of the source, which is not the
\* name of the copy: nothing of the instance is deleted.
UncopySecret ==
    /\ NextCallIs("uncopy")
    /\ SecretFound(Calls[at].object[2])
    /\ Proceed
    /\ UNCHANGED <<clusters, wishes>>

SourceMissing ==
    /\ NextCallIs("copy") \/ NextCallIs("uncopy")
    /\ ~SecretFound(Calls[at].object[2])

\* UninstallHelmDeployer drops the error of its pull secrets.
ErrorIsDropped == NextCallIs("uncopy") /\ Calls[at].object[1] = "helm"

\* Without its source, a pull secret is neither copied nor deleted.
SecretFails ==
    /\ SourceMissing
    /\ \/ ~ErrorIsDropped /\ Abandon
       \/ ErrorIsDropped /\ at' = AfterHelm /\ UNCHANGED <<op, used, done>>
    /\ UNCHANGED <<clusters, wishes, faults>>

CallFails ==
    /\ faults > 0
    /\ faults' = faults - 1
    /\ op # "none" /\ at <= Len(Calls)
    /\ \/ ~ErrorIsDropped /\ Abandon
       \/ ErrorIsDropped /\ at' = AfterHelm /\ UNCHANGED <<op, used, done>>
    /\ UNCHANGED <<clusters, wishes>>

Crash ==
    /\ faults > 0
    /\ faults' = faults - 1
    /\ op # "none"
    /\ Abandon
    /\ UNCHANGED <<clusters, wishes>>

Succeed ==
    /\ op # "none" /\ at > Len(Calls)
    /\ op' = "none"
    /\ at' = 1
    /\ done' = op
    /\ UNCHANGED <<used, clusters, wishes, faults>>

\* What the worker does without faults.
Work ==
    \/ Begin
    \/ CreateOrUpdateResource \/ DeleteResource
    \/ CopySecret \/ UncopySecret \/ SecretFails
    \/ Succeed

-----------------------------------------------------------------------------
(* The Landscaper resource, its provider config, and the pull secrets.     *)

Change == changes > 0 /\ changes' = changes - 1

ChangeSettings ==
    /\ Change
    /\ wanted # "none"
    /\ settings' \in SettingsValues \ {settings}
    /\ UNCHANGED <<clusters, job, sources, wanted, faults>>

RequestUninstall ==
    /\ Change
    /\ wanted = "install"
    /\ wanted' = "uninstall"
    /\ UNCHANGED <<clusters, job, sources, settings, faults>>

\* Once the uninstallation has succeeded, the resource is let go, and a new
\* one with the same name and namespace has the same instance id.
Release ==
    /\ wanted = "uninstall" /\ op = "none" /\ done = "uninstall"
    /\ wanted' = "none"
    /\ UNCHANGED <<clusters, job, sources, settings, changes, faults>>

Create ==
    /\ Change
    /\ wanted = "none"
    /\ wanted' = "install"
    /\ settings' \in SettingsValues
    /\ UNCHANGED <<clusters, job, sources, faults>>

\* A pull secret is created, rotated or deleted.
ChangeSecret ==
    /\ Change
    /\ \E s \in Secrets, c \in Contents \cup {"absent"} :
          /\ c # sources[s]
          /\ sources' = [sources EXCEPT ![s] = c]
    /\ UNCHANGED <<clusters, job, wanted, settings, faults>>

Environment ==
    ChangeSettings \/ RequestUninstall \/ Release \/ Create \/ ChangeSecret

-----------------------------------------------------------------------------

Init ==
    /\ objects = [o \in Objects |-> "absent"]
    /\ refs = [part \in Parts |-> {}]
    /\ copies = [part \in Parts |-> [s \in Secrets |-> "absent"]]
    /\ sources \in [Secrets -> Contents]
    /\ wanted = "install"
    /\ settings \in SettingsValues
    /\ op = "none"
    /\ used = settings
    /\ at = 1
    /\ done = "none"
    /\ changes = MaxChanges
    /\ faults = MaxFaults

Next == Work \/ BeginAgain \/ CallFails \/ Crash \/ Environment

Spec == Init /\ [][Next]_vars

\* The worker is called again, and makes its calls.  A complete deletion
\* ends the resource.
FairSpec == Spec /\ WF_vars(Work) /\ WF_vars(Release)

-----------------------------------------------------------------------------
(* Properties.                                                             *)

TypeOK ==
    /\ objects \in [Objects -> Versions \cup {"absent", "present"}]
    /\ refs \in [Parts -> SUBSET Secrets]
    /\ copies \in [Parts -> [Secrets -> Contents \cup {"absent"}]]
    /\ sources \in [Secrets -> Contents \cup {"absent"}]
    /\ wanted \in {"none", "install", "uninstall"}
    /\ settings \in SettingsValues
    /\ op \in {"none", "install", "uninstall"}
    /\ used \in SettingsValues
    /\ at \in Nat \ {0}
    /\ done \in {"none", "install", "uninstall"}
    /\ changes \in Nat /\ faults \in Nat

(***************************************************************************)
(* A deployment has its inputs: whenever a deployment exists, so do the    *)
(* secrets that its pods mount and the pull secret copies they refer to,   *)
(* also while an operation is under way and after one that was abandoned.  *)
(* It is what the order of the calls in the installers is for.             *)
(***************************************************************************)
DeploymentsHaveTheirInputs ==
    \A part \in Parts : objects[Deployment(part)] # "absent" =>
        /\ \A o \in Inputs[part] : objects[o] # "absent"
        /\ \A s \in refs[part] : copies[part][s] # "absent"

Component(c) ==
    IF \A o \in Own[c] : objects[o] = "absent" THEN "absent"
    ELSE IF \A o \in Own[c] : objects[o] = "present" THEN "present"
    ELSE IF \E v \in Versions : \A o \in Own[c] : objects[o] = v
         THEN CHOOSE v \in Versions : \A o \in Own[c] : objects[o] = v
    ELSE "mixed"

Components == INSTANCE Installation WITH
    components <- [c \in DOMAIN Own |-> Component(c)],
    version    <- IF op = "install" THEN used.version ELSE "none"

(***************************************************************************)
(* The calls implement the installation that the reconciler relies on:     *)
(* component by component, in order, and with success reported only when   *)
(* every object of every component has been written or deleted.            *)
(***************************************************************************)
ImplementsInstallation == Components!Spec

(***************************************************************************)
(* After a successful uninstallation no copy of a pull secret is left      *)
(* ("Delete removes the image pull secrets from the workload cluster that  *)
(* were copied from the platform cluster", secrets_sync.go): they are      *)
(* deleted one by one, or go with the namespace of the instance, which     *)
(* landscaper_controller_test.go expects to be gone.  Does not hold,       *)
(* because neither is done: see the run pull_secrets.                      *)
(***************************************************************************)
PullSecretsRemoved ==
    done = "uninstall" =>
        \/ \A part \in Parts, s \in Secrets : copies[part][s] = "absent"
        \/ objects[WorkloadNamespace] = "absent"

Available(s) ==
    \A part \in Parts : \A i \in DOMAIN s.secrets[part] :
        sources[s.secrets[part][i]] # "absent"

(***************************************************************************)
(* Pull secrets are propagated: if from some time on the Landscaper stays  *)
(* wanted and its pull secrets exist, every deployment refers to exactly   *)
(* these secrets and the copies have the contents of the sources.          *)
(***************************************************************************)
SecretsArePropagated ==
    <>[](wanted = "install" /\ Available(settings))
    => <>[](\A part \in Parts :
              /\ refs[part] = {settings.secrets[part][i] :
                                   i \in DOMAIN settings.secrets[part]}
              /\ \A s \in refs[part] : copies[part][s] = sources[s])

(***************************************************************************)
(* An uninstallation completes, if from some time on the pull secrets in   *)
(* the settings exist on the platform cluster.  Without one of them it is  *)
(* blocked, although nothing has to be read from it.                       *)
(***************************************************************************)
UninstallCompletes ==
    <>[](wanted = "uninstall" => Available(settings))
    => (wanted = "uninstall" ~> wanted # "uninstall")
=============================================================================
