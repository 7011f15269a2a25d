--------------------------- MODULE ReconcileStatus ---------------------------
(***************************************************************************)
(* The status record that one reconciliation builds up in memory           *)
(* (internal/controller/status.go) and its conversion into the status of   *)
(* the Landscaper resource.                                                *)
(*                                                                         *)
(* A condition is reduced to its status and its reason.  Its               *)
(* observedGeneration always equals the one of the record that carries it, *)
(* and messages and transition times are left out.  A condition that is    *)
(* nil in the code is NoCondition.                                         *)
(***************************************************************************)
EXTENDS Naturals

Phases == {"", "Progressing", "Ready", "Terminating"}

ConditionReasons ==
    {"InstallationPending", "UninstallationPending", "LandscaperInstalled",
     "InstallFailed", "ProviderConfigError", "ClusterAccessError",
     "ConfigurationError", "DNSConfigFailed", "WaitForDNSReady",
     "ReadinessCheckPending", "WaitForLandscaperReady", "LandscaperReady"}

NoCondition == [status |-> "nil", reason |-> "nil"]

Conditions ==
    [status : {"True", "False", "Unknown"}, reason : ConditionReasons]
        \cup {NoCondition}

ReconcileStatuses ==
    [installed : Conditions, ready : Conditions, uninstalled : Conditions,
     observedGeneration : Nat, phase : Phases]

Condition(status, reason) == [status |-> status, reason |-> reason]

-----------------------------------------------------------------------------
(* The record a reconciliation starts from.                                *)

newCreateOrUpdateStatus(generation) ==
    [installed          |-> Condition("Unknown", "InstallationPending"),
     ready              |-> Condition("Unknown", "ReadinessCheckPending"),
     uninstalled        |-> NoCondition,
     observedGeneration |-> generation,
     phase              |-> "Progressing"]

newDeleteStatus(generation) ==
    [installed          |-> NoCondition,
     ready              |-> NoCondition,
     uninstalled        |-> Condition("False", "UninstallationPending"),
     observedGeneration |-> generation,
     phase              |-> "Terminating"]

-----------------------------------------------------------------------------
(* The setters.                                                            *)

setInstallWaitForClusterAccessReady(s) ==
    [s EXCEPT !.installed = Condition("False", "InstallationPending")]

setUninstallWaitForClusterAccessReady(s) ==
    [s EXCEPT !.uninstalled = Condition("False", "InstallationPending")]

setInstalled(s) ==
    [s EXCEPT !.installed = Condition("True", "LandscaperInstalled")]

\* The code reuses the reason LandscaperInstalled here.
setUninstalled(s) ==
    [s EXCEPT !.uninstalled = Condition("True", "LandscaperInstalled")]

setWaitForReadinessCheck(s) ==
    [s EXCEPT !.ready = Condition("False", "WaitForLandscaperReady")]

\* Mutant: the condition type is written where the phase belongs.
setReady_WrongPhase(s) ==
    [s EXCEPT !.ready = Condition("True", "LandscaperReady"),
              !.phase = "Installed"]

setReady(s) ==
    [s EXCEPT !.ready = Condition("True", "LandscaperReady"),
              !.phase = "Ready"]

setInstallFailed(s) ==
    [s EXCEPT !.installed = Condition("False", "InstallFailed")]

setUninstallFailed(s) ==
    [s EXCEPT !.uninstalled = Condition("False", "InstallFailed")]

setInstallClusterAccessError(s) ==
    [s EXCEPT !.installed = Condition("False", "ClusterAccessError")]

setUninstallClusterAccessError(s) ==
    [s EXCEPT !.uninstalled = Condition("False", "ClusterAccessError")]

setInstallProviderConfigError(s) ==
    [s EXCEPT !.installed = Condition("False", "ProviderConfigError")]

setUninstallProviderConfigError(s) ==
    [s EXCEPT !.uninstalled = Condition("False", "ProviderConfigError")]

setInstallConfigurationError(s) ==
    [s EXCEPT !.installed = Condition("False", "ConfigurationError")]

setUninstallConfigurationError(s) ==
    [s EXCEPT !.uninstalled = Condition("False", "ConfigurationError")]

setInstallDNSConfigFailed(s) ==
    [s EXCEPT !.installed = Condition("False", "DNSConfigFailed")]

setInstallWaitForDNSReady(s) ==
    [s EXCEPT !.installed = Condition("False", "WaitForDNSReady")]

SetUninstallDNSConfigFailed(s) ==
    [s EXCEPT !.uninstalled = Condition("False", "DNSConfigFailed")]

-----------------------------------------------------------------------------
(***************************************************************************)
(* Writes the record into a Landscaper status.  Every condition type is    *)
(* either set or removed, so nothing of the old conditions survives; the   *)
(* provider config reference is not touched.                               *)
(***************************************************************************)
convertToLandscaperStatus(s, status) ==
    [status EXCEPT !.installed          = s.installed,
                   !.ready              = s.ready,
                   !.uninstalled        = s.uninstalled,
                   !.observedGeneration = s.observedGeneration,
                   !.phase              = s.phase]
=============================================================================
