--------------------------- MODULE InstanceObjects ---------------------------
(***************************************************************************)
(* The objects that make up one Landscaper instance, and the calls that    *)
(* write and delete them, in their order (internal/installer).  The        *)
(* settings s of an operation are its version and image pull secrets.      *)
(***************************************************************************)
EXTENDS Sequences

(***************************************************************************)
(* The parts of the instance with a deployment of their own.  Each has a   *)
(* list of image pull secrets, of which it gets copies of its own; the two *)
(* controllers share an image, and so have the same list.                  *)
(***************************************************************************)
Parts == {"manifest", "helm", "main", "central", "webhooks"}

-----------------------------------------------------------------------------
(* The objects of an instance.                                             *)

Deployment(part) == <<"Deployment", part>>
HPA(part)        == <<"HPA", part>>
Service(part)    == <<"Service", part>>
Config(part)     == <<"config", part>>
Kubeconfig(name) == <<"kubeconfig", name>>

MCPNamespace      == <<"Namespace", "mcp">>
WorkloadNamespace == <<"Namespace", "workload">>

Namespaces == {MCPNamespace, WorkloadNamespace}

RBACObjects == {MCPNamespace}

ManifestObjects ==
    {Config("manifest"), Kubeconfig("manifest"), HPA("manifest"),
     Deployment("manifest")}

HelmObjects ==
    {Config("helm"), Kubeconfig("helm"), HPA("helm"), Deployment("helm")}

LandscaperObjects ==
    {Kubeconfig("controller mcp"), Kubeconfig("controller workload"),
     Kubeconfig("webhooks"), Config("landscaper"), Service("central"),
     Service("webhooks"), Deployment("central"), Deployment("main"),
     Deployment("webhooks"), HPA("central"), HPA("main"), HPA("webhooks")}

\* Everything but the workload namespace belongs to one component.
Own ==
    [rbac |-> RBACObjects, manifest |-> ManifestObjects, helm |-> HelmObjects,
     landscaper |-> LandscaperObjects]

Objects == {WorkloadNamespace} \cup UNION {Own[c] : c \in DOMAIN Own}

\* All objects but the namespaces carry the version in a label.
Content(o, version) == IF o \in Namespaces THEN "present" ELSE version

\* The objects that the volumes of a deployment mount.  The webhooks server
\* uses the kubeconfig of the controller.
ManifestInputs == {Config("manifest"), Kubeconfig("manifest")}

HelmInputs == {Config("helm"), Kubeconfig("helm")}

ControllerInputs ==
    {Config("landscaper"), Kubeconfig("controller mcp"),
     Kubeconfig("controller workload")}

WebhooksInputs == {Kubeconfig("controller mcp")}

Inputs ==
    [manifest |-> ManifestInputs, helm |-> HelmInputs, main |-> ControllerInputs,
     central |-> ControllerInputs, webhooks |-> WebhooksInputs]

-----------------------------------------------------------------------------
(* The calls of each operation.  A call writes or deletes one object, or   *)
(* copies one pull secret or deletes that copy.                            *)

Put(o)     == [call |-> "put", object |-> o]
Remove(o)  == [call |-> "remove", object |-> o]
Copy(part, s)   == [call |-> "copy", object |-> <<part, s>>]
Uncopy(part, s) == [call |-> "uncopy", object |-> <<part, s>>]

CopySecrets(part, s) ==
    [i \in DOMAIN s.secrets[part] |-> Copy(part, s.secrets[part][i])]

UncopySecrets(part, s) ==
    [i \in DOMAIN s.secrets[part] |-> Uncopy(part, s.secrets[part][i])]

InstallLandscaperRBACResources == <<Put(MCPNamespace)>>

InstallManifestDeployer(s) ==
    <<Put(WorkloadNamespace)>> \o CopySecrets("manifest", s) \o
    <<Put(Config("manifest")), Put(Kubeconfig("manifest")),
      Put(HPA("manifest")), Put(Deployment("manifest"))>>

\* No OCI values are passed on, so there is no registry secret.
InstallHelmDeployer(s) ==
    <<Put(WorkloadNamespace)>> \o CopySecrets("helm", s) \o
    <<Put(Config("helm")), Put(Kubeconfig("helm")),
      Put(HPA("helm")), Put(Deployment("helm"))>>

\* The webhooks are never disabled.
InstallLandscaper(s) ==
    <<Put(WorkloadNamespace)>> \o CopySecrets("main", s) \o
    CopySecrets("central", s) \o CopySecrets("webhooks", s) \o
    <<Put(Kubeconfig("controller mcp")), Put(Kubeconfig("controller workload")),
      Put(Kubeconfig("webhooks")), Put(Config("landscaper")),
      Put(Service("central")), Put(Service("webhooks")),
      Put(Deployment("central")), Put(Deployment("main")),
      Put(Deployment("webhooks")), Put(HPA("main")), Put(HPA("central")),
      Put(HPA("webhooks"))>>

InstallLandscaperInstance(s) ==
    InstallLandscaperRBACResources \o InstallManifestDeployer(s) \o
    InstallHelmDeployer(s) \o InstallLandscaper(s)

\* Mutant: an HPA is forgotten.
UninstallLandscaper_NoHPA(s) ==
    <<Remove(HPA("webhooks")), Remove(HPA("central")),
      Remove(Deployment("webhooks")), Remove(Deployment("main")),
      Remove(Deployment("central")), Remove(Service("webhooks")),
      Remove(Service("central")), Remove(Config("landscaper")),
      Remove(Kubeconfig("webhooks")), Remove(Kubeconfig("controller mcp")),
      Remove(Kubeconfig("controller workload"))>> \o
    UncopySecrets("main", s) \o UncopySecrets("central", s) \o
    UncopySecrets("webhooks", s)

UninstallLandscaper(s) ==
    <<Remove(HPA("webhooks")), Remove(HPA("central")), Remove(HPA("main")),
      Remove(Deployment("webhooks")), Remove(Deployment("main")),
      Remove(Deployment("central")), Remove(Service("webhooks")),
      Remove(Service("central")), Remove(Config("landscaper")),
      Remove(Kubeconfig("webhooks")), Remove(Kubeconfig("controller mcp")),
      Remove(Kubeconfig("controller workload"))>> \o
    UncopySecrets("main", s) \o UncopySecrets("central", s) \o
    UncopySecrets("webhooks", s)

\* Mutant: the inputs are deleted before the deployment.
RemoveHelmDeployer_InputsFirst ==
    <<Remove(Kubeconfig("helm")), Remove(Config("helm")),
      Remove(Deployment("helm")), Remove(HPA("helm"))>>

RemoveHelmDeployer ==
    <<Remove(Deployment("helm")), Remove(HPA("helm")),
      Remove(Kubeconfig("helm")), Remove(Config("helm"))>>

UninstallHelmDeployer(s) == RemoveHelmDeployer \o UncopySecrets("helm", s)

UninstallManifestDeployer(s) ==
    <<Remove(Deployment("manifest")), Remove(HPA("manifest")),
      Remove(Kubeconfig("manifest")), Remove(Config("manifest"))>> \o
    UncopySecrets("manifest", s)

UninstallLandscaperRBACResources == <<Remove(MCPNamespace)>>

UninstallLandscaperInstance(s) ==
    UninstallLandscaper(s) \o UninstallHelmDeployer(s) \o
    UninstallManifestDeployer(s) \o UninstallLandscaperRBACResources
=============================================================================
