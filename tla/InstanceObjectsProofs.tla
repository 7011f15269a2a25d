------------------------ MODULE InstanceObjectsProofs ------------------------
(***************************************************************************)
(* The order of the calls that install and uninstall an instance, for      *)
(* every list of image pull secrets: what a deployment needs is written    *)
(* before it and deleted after it, and one component is complete before    *)
(* the next one is touched.                                                *)
(***************************************************************************)
EXTENDS InstanceObjects, Integers, TLAPS

Has(q, a) == \E i \in DOMAIN q : q[i] = a

\* Whenever b comes, a has been there.
Before(q, a, b) ==
    \A i \in DOMAIN q : q[i] = b => \E j \in DOMAIN q : j < i /\ q[j] = a

LEMMA Joined ==
    ASSUME NEW S, NEW q \in Seq(S), NEW r \in Seq(S)
    PROVE  /\ q \o r \in Seq(S)
           /\ Len(q \o r) = Len(q) + Len(r)
           /\ DOMAIN (q \o r) = 1 .. Len(q) + Len(r)
           /\ \A i \in 1 .. Len(q) : (q \o r)[i] = q[i]
           /\ \A i \in 1 .. Len(r) : (q \o r)[Len(q) + i] = r[i]
           /\ \A i \in DOMAIN (q \o r) :
                  i \in DOMAIN q \/ (i > Len(q) /\ i - Len(q) \in DOMAIN r)
  OBVIOUS

LEMMA JoinedAt ==
    ASSUME NEW S, NEW q \in Seq(S), NEW r \in Seq(S), NEW i \in DOMAIN (q \o r)
    PROVE  \/ i \in DOMAIN q /\ (q \o r)[i] = q[i]
           \/ /\ i > Len(q) /\ i - Len(q) \in DOMAIN r
              /\ (q \o r)[i] = r[i - Len(q)]
  <1>1. CASE i \in DOMAIN q
    BY <1>1, Joined
  <1>2. CASE i > Len(q) /\ i - Len(q) \in DOMAIN r
    <2>1. i - Len(q) \in 1 .. Len(r) /\ Len(q) + (i - Len(q)) = i
      BY <1>2, Joined
    <2>2. (q \o r)[Len(q) + (i - Len(q))] = r[i - Len(q)]
      BY <2>1, Joined
    <2> QED BY <1>2, <2>1, <2>2
  <1> QED BY <1>1, <1>2, Joined

LEMMA JoinedHas ==
    ASSUME NEW S, NEW q \in Seq(S), NEW r \in Seq(S), NEW a
    PROVE  Has(q \o r, a) <=> Has(q, a) \/ Has(r, a)
  <1>1. Has(q, a) => Has(q \o r, a)
    BY Joined DEF Has
  <1>2. ASSUME Has(r, a) PROVE Has(q \o r, a)
    <2>1. PICK i \in 1 .. Len(r) : r[i] = a
      BY <1>2 DEF Has
    <2>2. (q \o r)[Len(q) + i] = a /\ Len(q) + i \in DOMAIN (q \o r)
      BY <2>1, Joined
    <2> QED BY <2>2 DEF Has
  <1>3. Has(q \o r, a) => Has(q, a) \/ Has(r, a)
    BY Joined DEF Has
  <1> QED BY <1>1, <1>2, <1>3

LEMMA JoinedBefore ==
    ASSUME NEW S, NEW q \in Seq(S), NEW r \in Seq(S), NEW a, NEW b,
           Before(q, a, b), Has(q, a) \/ Before(r, a, b)
    PROVE  Before(q \o r, a, b)
  <1> SUFFICES ASSUME NEW i \in DOMAIN (q \o r), (q \o r)[i] = b
               PROVE  \E j \in DOMAIN (q \o r) : j < i /\ (q \o r)[j] = a
    BY DEF Before
  <1>1. CASE i \in DOMAIN q
    <2>1. PICK j \in DOMAIN q : j < i /\ q[j] = a
      BY <1>1, Joined DEF Before
    <2> QED BY <2>1, Joined
  <1>2. CASE i > Len(q) /\ i - Len(q) \in DOMAIN r
    <2>1. CASE Has(q, a)
      <3>1. PICK j \in DOMAIN q : q[j] = a
        BY <2>1 DEF Has
      <3>2. j \in 1 .. Len(q) /\ j < i /\ j \in DOMAIN (q \o r)
        BY <1>2, <3>1, Joined
      <3>3. (q \o r)[j] = a
        BY <3>1, <3>2, Joined
      <3> QED BY <3>2, <3>3
    <2>2. CASE Before(r, a, b)
      <3>1. r[i - Len(q)] = b
        BY <1>2, Joined
      <3>2. PICK j \in DOMAIN r : j < i - Len(q) /\ r[j] = a
        BY <1>2, <2>2, <3>1 DEF Before
      <3>3. Len(q) + j < i /\ Len(q) + j \in DOMAIN (q \o r)
        BY <1>2, <3>2, Joined
      <3> QED BY <3>2, <3>3, Joined
    <2> QED BY <2>1, <2>2
  <1> QED BY <1>1, <1>2, Joined

LEMMA AbsentBefore ==
    ASSUME NEW q, NEW a, NEW b, ~Has(q, b) PROVE Before(q, a, b)
  BY DEF Before, Has

-----------------------------------------------------------------------------

\* The calls of an installation and of an uninstallation, with these secrets.
Writes(secrets) ==
    [call : {"put"}, object : Objects] \cup
    [call : {"copy"}, object : Parts \X secrets]

Deletes(secrets) ==
    [call : {"remove"}, object : Objects] \cup
    [call : {"uncopy"}, object : Parts \X secrets]

LEMMA ObjectsKnown ==
    /\ MCPNamespace \in Objects /\ WorkloadNamespace \in Objects
    /\ RBACObjects \subseteq Objects
    /\ ManifestObjects \subseteq Objects
    /\ HelmObjects \subseteq Objects
    /\ LandscaperObjects \subseteq Objects
  <1>1. /\ RBACObjects = Own["rbac"]
        /\ ManifestObjects = Own["manifest"]
        /\ HelmObjects = Own["helm"]
        /\ LandscaperObjects = Own["landscaper"]
        /\ DOMAIN Own = {"rbac", "manifest", "helm", "landscaper"}
    BY DEF Own
  <1>2. \A c \in DOMAIN Own : Own[c] \subseteq Objects
    BY DEF Objects
  <1> QED BY <1>1, <1>2 DEF Objects, RBACObjects

LEMMA SecretCalls ==
    ASSUME NEW secrets, NEW s, s.secrets \in [Parts -> Seq(secrets)],
           NEW part \in Parts
    PROVE  /\ CopySecrets(part, s) \in Seq(Writes(secrets))
           /\ UncopySecrets(part, s) \in Seq(Deletes(secrets))
           /\ Len(UncopySecrets(part, s)) = Len(s.secrets[part])
  <1>1. PICK n \in Nat : s.secrets[part] \in [1 .. n -> secrets]
    BY DEF Seq
  <1>2. DOMAIN s.secrets[part] = 1 .. n
    BY <1>1
  <1>3. CopySecrets(part, s) \in [1 .. n -> Writes(secrets)]
    BY <1>1, <1>2 DEF CopySecrets, Copy, Writes
  <1>4. UncopySecrets(part, s) \in [1 .. n -> Deletes(secrets)]
    BY <1>1, <1>2 DEF UncopySecrets, Uncopy, Deletes
  <1>5. /\ CopySecrets(part, s) \in Seq(Writes(secrets))
        /\ UncopySecrets(part, s) \in Seq(Deletes(secrets))
    BY <1>3, <1>4
  <1>6. Len(UncopySecrets(part, s)) = Len(s.secrets[part])
    BY <1>1, <1>4
  <1> QED
    BY <1>5, <1>6

LEMMA CopyCalls ==
    ASSUME NEW s, NEW part
    PROVE  /\ \A o : ~Has(CopySecrets(part, s), Put(o))
           /\ \A n \in DOMAIN s.secrets[part] :
                  Has(CopySecrets(part, s), Copy(part, s.secrets[part][n]))
  <1>1. \A i \in DOMAIN CopySecrets(part, s) :
            CopySecrets(part, s)[i].call = "copy"
    BY DEF CopySecrets, Copy
  <1>2. \A o : Put(o).call = "put"
    BY DEF Put
  <1>3. ASSUME NEW i \in DOMAIN s.secrets[part]
        PROVE  Has(CopySecrets(part, s), Copy(part, s.secrets[part][i]))
    <2>1. /\ i \in DOMAIN CopySecrets(part, s)
          /\ CopySecrets(part, s)[i] = Copy(part, s.secrets[part][i])
      BY <1>3 DEF CopySecrets
    <2> QED BY <2>1 DEF Has
  <1> QED
    BY <1>1, <1>2, <1>3 DEF Has

LEMMA UncopyCalls ==
    ASSUME NEW s, NEW part
    PROVE  /\ \A o : ~Has(UncopySecrets(part, s), Remove(o))
           /\ \A i \in DOMAIN UncopySecrets(part, s) :
                  /\ UncopySecrets(part, s)[i].call = "uncopy"
                  /\ UncopySecrets(part, s)[i].object[1] = part
  <1>1. \A i \in DOMAIN UncopySecrets(part, s) :
            /\ UncopySecrets(part, s)[i].call = "uncopy"
            /\ UncopySecrets(part, s)[i].object[1] = part
    BY DEF UncopySecrets, Uncopy
  <1>2. \A o : Remove(o).call = "remove"
    BY DEF Remove
  <1> QED
    BY <1>1, <1>2 DEF Has

-----------------------------------------------------------------------------
(* The installation of the parts.                                          *)

LEMMA Distinct ==
    /\ \A o, p : Put(o) = Put(p) <=> o = p
    /\ \A o, p : Remove(o) = Remove(p) <=> o = p
    /\ \A p, q : Deployment(p) = Deployment(q) <=> p = q
    /\ \A p, q : Deployment(p) # HPA(q) /\ Deployment(p) # Service(q)
    /\ \A p, q : Deployment(p) # Config(q) /\ Deployment(p) # Kubeconfig(q)
    /\ \A p : Deployment(p) # MCPNamespace /\ Deployment(p) # WorkloadNamespace
    /\ \A o : Put(o).call = "put" /\ Remove(o).call = "remove"
    /\ \A o : Put(o).object = o /\ Remove(o).object = o
  BY DEF Put, Remove, Deployment, HPA, Service, Config, Kubeconfig,
         MCPNamespace, WorkloadNamespace

\* What the deployment of a part needs, in the calls q of an installation:
\* its inputs, and the copies of its pull secrets.
InputsFirst(q, part) ==
    \A o \in Inputs[part] : Before(q, Put(o), Put(Deployment(part)))

CopiesFirst(q, s, part) ==
    \A n \in DOMAIN s.secrets[part] :
        Before(q, Copy(part, s.secrets[part][n]), Put(Deployment(part)))

LEMMA PutKnown ==
    ASSUME NEW secrets, NEW o \in Objects
    PROVE  /\ Put(o) \in Writes(secrets)
           /\ Remove(o) \in Deletes(secrets)
  BY DEF Put, Remove, Writes, Deletes

LEMMA FirstThenRest ==
    ASSUME NEW S, NEW q \in Seq(S), NEW r \in Seq(S), NEW s, NEW part,
           InputsFirst(q, part), CopiesFirst(q, s, part),
           ~Has(r, Put(Deployment(part)))
    PROVE  InputsFirst(q \o r, part) /\ CopiesFirst(q \o r, s, part)
  BY AbsentBefore, JoinedBefore DEF InputsFirst, CopiesFirst

LEMMA RestThenLast ==
    ASSUME NEW S, NEW q \in Seq(S), NEW r \in Seq(S), NEW s, NEW part,
           ~Has(q, Put(Deployment(part))),
           InputsFirst(r, part), CopiesFirst(r, s, part)
    PROVE  InputsFirst(q \o r, part) /\ CopiesFirst(q \o r, s, part)
  BY AbsentBefore, JoinedBefore DEF InputsFirst, CopiesFirst

\* The copies come first, then the objects with the deployment among them.
LEMMA CopiesThenObjects ==
    ASSUME NEW S, NEW q \in Seq(S), NEW r \in Seq(S), NEW s, NEW part,
           ~Has(q, Put(Deployment(part))),
           InputsFirst(r, part),
           \A n \in DOMAIN s.secrets[part] : Has(q, Copy(part, s.secrets[part][n]))
    PROVE  InputsFirst(q \o r, part) /\ CopiesFirst(q \o r, s, part)
  BY AbsentBefore, JoinedBefore DEF InputsFirst, CopiesFirst

\* The two deployers are installed alike.
InstallDeployer(p, s) ==
    <<Put(WorkloadNamespace)>> \o CopySecrets(p, s) \o
    <<Put(Config(p)), Put(Kubeconfig(p)), Put(HPA(p)), Put(Deployment(p))>>

LEMMA DeployerInstalled ==
    ASSUME NEW secrets, NEW s, s.secrets \in [Parts -> Seq(secrets)],
           NEW p \in {"manifest", "helm"}
    PROVE  /\ InstallDeployer(p, s) \in Seq(Writes(secrets))
           /\ InputsFirst(InstallDeployer(p, s), p)
           /\ CopiesFirst(InstallDeployer(p, s), s, p)
           /\ Has(InstallDeployer(p, s), Put(Deployment(p)))
           /\ \A part \in Parts \ {p} :
                  ~Has(InstallDeployer(p, s), Put(Deployment(part)))
  <1> DEFINE S == Writes(secrets)
             N == <<Put(WorkloadNamespace)>>
             C == CopySecrets(p, s)
             T == <<Put(Config(p)), Put(Kubeconfig(p)),
                    Put(HPA(p)), Put(Deployment(p))>>
  <1>1. N \in Seq(S) /\ T \in Seq(S)
    BY ObjectsKnown, PutKnown DEF ManifestObjects, HelmObjects
  <1>2. p \in Parts
    BY DEF Parts
  <1>3. C \in Seq(S)
    BY <1>2, SecretCalls
  <1>4. \A part : ~Has(N, Put(Deployment(part))) /\ ~Has(C, Put(Deployment(part)))
    <2>1. \A part : ~Has(N, Put(Deployment(part)))
      BY Distinct DEF Has
    <2>2. \A part : ~Has(C, Put(Deployment(part)))
      BY CopyCalls
    <2> QED BY <2>1, <2>2
  <1>5. N \o C \in Seq(S) /\ \A part : ~Has(N \o C, Put(Deployment(part)))
    BY <1>1, <1>3, <1>4, Joined, JoinedHas
  <1>6. \A n \in DOMAIN s.secrets[p] :
            Has(N \o C, Copy(p, s.secrets[p][n]))
    <2>1. \A n \in DOMAIN s.secrets[p] :
              Has(C, Copy(p, s.secrets[p][n]))
      BY CopyCalls
    <2> QED BY <1>1, <1>3, <2>1, JoinedHas
  <1>7. \A part \in Parts \ {p} : ~Has(T, Put(Deployment(part)))
    BY Distinct DEF Has
  <1>8. InputsFirst(T, p)
    <2>1. \A i \in DOMAIN T : T[i] = Put(Deployment(p)) => i = 4
      BY Distinct
    <2>2. /\ T[1] = Put(Config(p)) /\ T[2] = Put(Kubeconfig(p))
          /\ DOMAIN T = 1 .. 4
      OBVIOUS
    <2> HIDE DEF T
    <2>3. Inputs[p] = {Config(p), Kubeconfig(p)}
      BY DEF Inputs, ManifestInputs, HelmInputs
    <2> QED BY <2>1, <2>2, <2>3 DEF InputsFirst, Before
  <1>9. InstallDeployer(p, s) = (N \o C) \o T
    BY DEF InstallDeployer
  <1> HIDE DEF N, C, T, S
  <1>10. (N \o C) \o T \in Seq(S)
    BY <1>1, <1>5, Joined
  <1>11. InputsFirst((N \o C) \o T, p) /\ CopiesFirst((N \o C) \o T, s, p)
    BY <1>1, <1>5, <1>6, <1>8, CopiesThenObjects
  <1>12. \A part \in Parts \ {p} : ~Has((N \o C) \o T, Put(Deployment(part)))
    BY <1>1, <1>5, <1>7, JoinedHas
  <1>13. Has((N \o C) \o T, Put(Deployment(p)))
    <2>1. 4 \in DOMAIN T /\ T[4] = Put(Deployment(p))
      BY DEF T
    <2>2. Has(T, Put(Deployment(p)))
      BY <2>1 DEF Has
    <2> QED BY <1>1, <1>5, <2>2, JoinedHas
  <1> QED BY <1>9, <1>10, <1>11, <1>12, <1>13 DEF S

LEMMA DeployersInstalled ==
    ASSUME NEW s
    PROVE  /\ InstallManifestDeployer(s) = InstallDeployer("manifest", s)
           /\ InstallHelmDeployer(s) = InstallDeployer("helm", s)
  BY DEF InstallManifestDeployer, InstallHelmDeployer, InstallDeployer

\* The objects of the Landscaper are written in this order.
LandscaperWrites ==
    <<Put(Kubeconfig("controller mcp")), Put(Kubeconfig("controller workload")),
      Put(Kubeconfig("webhooks")), Put(Config("landscaper")),
      Put(Service("central")), Put(Service("webhooks")),
      Put(Deployment("central")), Put(Deployment("main")),
      Put(Deployment("webhooks")), Put(HPA("main")), Put(HPA("central")),
      Put(HPA("webhooks"))>>

LEMMA ListOf ==
    ASSUME NEW S, NEW n \in Nat, NEW f \in [1 .. n -> S]
    PROVE  f \in Seq(S)
  OBVIOUS

LEMMA LandscaperWritten ==
    /\ \A secrets : LandscaperWrites \in Seq(Writes(secrets))
    /\ \A part : part \notin {"main", "central", "webhooks"} =>
           ~Has(LandscaperWrites, Put(Deployment(part)))
    /\ \A part \in {"main", "central", "webhooks"} : InputsFirst(LandscaperWrites, part)
    /\ \A part \in {"main", "central", "webhooks"} :
           Has(LandscaperWrites, Put(Deployment(part)))
  <1> DEFINE T == LandscaperWrites
  <1>1. /\ DOMAIN T = 1 .. 12
        /\ T[1] = Put(Kubeconfig("controller mcp"))
        /\ T[2] = Put(Kubeconfig("controller workload"))
        /\ T[3] = Put(Kubeconfig("webhooks"))
        /\ T[4] = Put(Config("landscaper"))
        /\ T[5] = Put(Service("central")) /\ T[6] = Put(Service("webhooks"))
        /\ T[7] = Put(Deployment("central")) /\ T[8] = Put(Deployment("main"))
        /\ T[9] = Put(Deployment("webhooks")) /\ T[10] = Put(HPA("main"))
        /\ T[11] = Put(HPA("central")) /\ T[12] = Put(HPA("webhooks"))
    BY DEF LandscaperWrites
  <1>7. T = [i \in 1 .. 12 |-> T[i]]
    BY DEF LandscaperWrites
  <1> HIDE DEF T
  <1>2. \A i \in 1 .. 12 : i = 1 \/ i = 2 \/ i = 3 \/ i = 4 \/ i = 5 \/ i = 6
            \/ i = 7 \/ i = 8 \/ i = 9 \/ i = 10 \/ i = 11 \/ i = 12
    OBVIOUS
  <1>3. ASSUME NEW secrets PROVE T \in Seq(Writes(secrets))
    <2>1. \A o \in LandscaperObjects : Put(o) \in Writes(secrets)
      BY ObjectsKnown, PutKnown
    <2>2. \A i \in 1 .. 12 : \E o \in LandscaperObjects : T[i] = Put(o)
      BY <1>1, <1>2 DEF LandscaperObjects
    <2>3. \A i \in 1 .. 12 : T[i] \in Writes(secrets)
      BY <2>1, <2>2
    <2>4. T \in [1 .. 12 -> Writes(secrets)]
      BY <1>7, <2>3
    <2> QED BY <2>4, ListOf
  <1>4. ASSUME NEW part, NEW i \in DOMAIN T, T[i] = Put(Deployment(part))
        PROVE  i = 7 \/ i = 8 \/ i = 9
    <2>1. /\ \A q : Put(Deployment(part)) # Put(Kubeconfig(q))
          /\ \A q : Put(Deployment(part)) # Put(Config(q))
          /\ \A q : Put(Deployment(part)) # Put(Service(q))
          /\ \A q : Put(Deployment(part)) # Put(HPA(q))
      BY Distinct
    <2> QED BY <1>1, <1>2, <1>4, <2>1
  <1>5. ASSUME NEW part, Has(T, Put(Deployment(part)))
        PROVE  part \in {"main", "central", "webhooks"}
    <2>1. PICK i \in DOMAIN T : T[i] = Put(Deployment(part))
      BY <1>5 DEF Has
    <2>2. Put(Deployment(part)) \in
              {Put(Deployment("central")), Put(Deployment("main")),
               Put(Deployment("webhooks"))}
      BY <1>1, <1>4, <2>1
    <2> QED BY <2>2, Distinct
  <1>6. ASSUME NEW part \in {"main", "central", "webhooks"}
        PROVE  InputsFirst(T, part)
    <2>1. Inputs[part] \in {ControllerInputs, WebhooksInputs}
      BY <1>6 DEF Inputs
    <2>2. \A o \in Inputs[part] : \E j \in {1, 2, 4} : T[j] = Put(o)
      BY <1>1, <2>1 DEF ControllerInputs, WebhooksInputs
    <2> SUFFICES ASSUME NEW o \in Inputs[part],
                        NEW i \in DOMAIN T, T[i] = Put(Deployment(part))
                 PROVE  \E j \in DOMAIN T : j < i /\ T[j] = Put(o)
      BY DEF InputsFirst, Before
    <2>3. PICK j \in {1, 2, 4} : T[j] = Put(o)
      BY <2>2
    <2>4. j \in DOMAIN T /\ j < i
      <3>1. i = 7 \/ i = 8 \/ i = 9
        BY <1>4
      <3>2. DOMAIN T = 1 .. 12
        BY <1>1
      <3>3. j \in 1 .. 12 /\ j < i
        BY <3>1
      <3> QED BY <3>2, <3>3
    <2> QED BY <2>3, <2>4
  <1>8. \A part \in {"main", "central", "webhooks"} : Has(T, Put(Deployment(part)))
    <2>1. 7 \in DOMAIN T /\ 8 \in DOMAIN T /\ 9 \in DOMAIN T
      <3>1. DOMAIN T = 1 .. 12
        BY <1>1
      <3>2. 7 \in 1 .. 12 /\ 8 \in 1 .. 12 /\ 9 \in 1 .. 12
        OBVIOUS
      <3> QED BY <3>1, <3>2
    <2> QED BY <1>1, <2>1 DEF Has
  <1> QED BY <1>3, <1>5, <1>6, <1>8 DEF T

LEMMA LandscaperInstalled ==
    ASSUME NEW secrets, NEW s, s.secrets \in [Parts -> Seq(secrets)]
    PROVE  /\ InstallLandscaper(s) \in Seq(Writes(secrets))
           /\ \A part \in {"main", "central", "webhooks"} :
                  /\ InputsFirst(InstallLandscaper(s), part)
                  /\ CopiesFirst(InstallLandscaper(s), s, part)
                  /\ Has(InstallLandscaper(s), Put(Deployment(part)))
           /\ \A part \in {"manifest", "helm"} :
                  ~Has(InstallLandscaper(s), Put(Deployment(part)))
  <1> DEFINE S == Writes(secrets)
             Own3 == {"main", "central", "webhooks"}
             N == <<Put(WorkloadNamespace)>>
             A == CopySecrets("main", s)
             B == CopySecrets("central", s)
             C == CopySecrets("webhooks", s)
             T == LandscaperWrites
             NA == N \o A
             NAB == NA \o B
             Q == NAB \o C
  <1>1. N \in Seq(S)
    BY ObjectsKnown, PutKnown
  <1>2. T \in Seq(S)
    BY LandscaperWritten
  <1>3. A \in Seq(S) /\ B \in Seq(S) /\ C \in Seq(S)
    BY SecretCalls DEF Parts
  <1>4. /\ \A part : ~Has(N, Put(Deployment(part)))
        /\ \A part : ~Has(A, Put(Deployment(part)))
        /\ \A part : ~Has(B, Put(Deployment(part)))
        /\ \A part : ~Has(C, Put(Deployment(part)))
    <2>1. \A part : ~Has(N, Put(Deployment(part)))
      BY Distinct DEF Has
    <2> QED BY <2>1, CopyCalls
  <1>5. /\ \A n \in DOMAIN s.secrets["main"] : Has(A, Copy("main", s.secrets["main"][n]))
        /\ \A n \in DOMAIN s.secrets["central"] :
               Has(B, Copy("central", s.secrets["central"][n]))
        /\ \A n \in DOMAIN s.secrets["webhooks"] :
               Has(C, Copy("webhooks", s.secrets["webhooks"][n]))
    BY CopyCalls
  <1>6. \A part : part \notin {"main", "central", "webhooks"} =>
            ~Has(T, Put(Deployment(part)))
    BY LandscaperWritten
  <1>7. \A part \in Own3 : InputsFirst(T, part)
    BY LandscaperWritten
  <1>8. InstallLandscaper(s) = Q \o T
    BY DEF InstallLandscaper, LandscaperWrites
  <1> HIDE DEF N, A, B, C, T, S
  <1>9. NA \in Seq(S) /\ NAB \in Seq(S) /\ Q \in Seq(S) /\ Q \o T \in Seq(S)
    BY <1>1, <1>2, <1>3, Joined
  <1>10. \A part : ~Has(Q, Put(Deployment(part)))
    <2>1. \A part : ~Has(NA, Put(Deployment(part)))
      BY <1>1, <1>3, <1>4, JoinedHas
    <2> HIDE DEF NA
    <2>2. \A part : ~Has(NAB, Put(Deployment(part)))
      BY <1>3, <1>4, <1>9, <2>1, JoinedHas
    <2> HIDE DEF NAB
    <2> QED BY <1>3, <1>4, <1>9, <2>2, JoinedHas
  <1>11. ASSUME NEW part \in Own3
         PROVE  \A n \in DOMAIN s.secrets[part] :
                    Has(Q, Copy(part, s.secrets[part][n]))
    <2>1. \A a : Has(A, a) => Has(NA, a)
      BY <1>1, <1>3, JoinedHas
    <2> HIDE DEF NA
    <2>2. \A a : Has(NA, a) \/ Has(B, a) => Has(NAB, a)
      BY <1>3, <1>9, JoinedHas
    <2> HIDE DEF NAB
    <2>3. \A a : Has(NAB, a) \/ Has(C, a) => Has(Q, a)
      BY <1>3, <1>9, JoinedHas
    <2> HIDE DEF Q
    <2> QED BY <1>5, <1>11, <2>1, <2>2, <2>3
  <1>12. ASSUME NEW part \in Own3
         PROVE  InputsFirst(Q \o T, part) /\ CopiesFirst(Q \o T, s, part)
    <2> HIDE DEF Q
    <2> QED BY <1>2, <1>7, <1>9, <1>10, <1>11, <1>12, CopiesThenObjects
  <1>13. \A part \in {"manifest", "helm"} : ~Has(Q \o T, Put(Deployment(part)))
    <2>1. \A part \in {"manifest", "helm"} :
              ~Has(T, Put(Deployment(part))) /\ ~Has(Q, Put(Deployment(part)))
      BY <1>6, <1>10
    <2> HIDE DEF Q
    <2> QED BY <1>2, <1>9, <2>1, JoinedHas
  <1>14. \A part \in Own3 : Has(Q \o T, Put(Deployment(part)))
    <2>1. \A part \in Own3 : Has(T, Put(Deployment(part)))
      BY LandscaperWritten DEF T
    <2> HIDE DEF Q
    <2> QED BY <1>2, <1>9, <2>1, JoinedHas
  <1> QED BY <1>8, <1>9, <1>12, <1>13, <1>14 DEF S

\* In an installation, every part has its inputs written and its pull secrets
\* copied before its deployment is written.
LEMMA InstalledInOrder ==
    ASSUME NEW secrets, NEW s, s.secrets \in [Parts -> Seq(secrets)]
    PROVE  /\ InstallLandscaperInstance(s) \in Seq(Writes(secrets))
           /\ \A part \in Parts : InputsFirst(InstallLandscaperInstance(s), part)
           /\ \A part \in Parts : CopiesFirst(InstallLandscaperInstance(s), s, part)
           /\ \A part \in Parts :
                  Has(InstallLandscaperInstance(s), Put(Deployment(part)))
  <1> DEFINE S == Writes(secrets)
             R == InstallLandscaperRBACResources
             M == InstallDeployer("manifest", s)
             H == InstallDeployer("helm", s)
             L == InstallLandscaper(s)
  <1>1. R \in Seq(S) /\ \A part : ~Has(R, Put(Deployment(part)))
    <2>1. R \in Seq(S)
      BY ObjectsKnown, PutKnown DEF InstallLandscaperRBACResources
    <2>2. \A part : ~Has(R, Put(Deployment(part)))
      BY Distinct DEF Has, InstallLandscaperRBACResources
    <2> QED BY <2>1, <2>2
  <1>2. M \in Seq(S) /\ H \in Seq(S) /\ L \in Seq(S)
    BY DeployerInstalled, LandscaperInstalled
  <1>3. /\ InputsFirst(M, "manifest") /\ CopiesFirst(M, s, "manifest")
        /\ Has(M, Put(Deployment("manifest")))
        /\ \A part \in Parts \ {"manifest"} : ~Has(M, Put(Deployment(part)))
    BY DeployerInstalled
  <1>4. /\ InputsFirst(H, "helm") /\ CopiesFirst(H, s, "helm")
        /\ Has(H, Put(Deployment("helm")))
        /\ \A part \in Parts \ {"helm"} : ~Has(H, Put(Deployment(part)))
    BY DeployerInstalled
  <1>5. /\ \A part \in {"main", "central", "webhooks"} :
               /\ InputsFirst(L, part) /\ CopiesFirst(L, s, part)
               /\ Has(L, Put(Deployment(part)))
        /\ \A part \in {"manifest", "helm"} : ~Has(L, Put(Deployment(part)))
    BY LandscaperInstalled
  <1>6. InstallLandscaperInstance(s) = ((R \o M) \o H) \o L
    BY DeployersInstalled DEF InstallLandscaperInstance
  <1> HIDE DEF R, M, H, L, S
  <1>7. /\ R \o M \in Seq(S) /\ (R \o M) \o H \in Seq(S)
        /\ ((R \o M) \o H) \o L \in Seq(S)
    BY <1>1, <1>2, Joined
  <1>8. ASSUME NEW part \in Parts
        PROVE  /\ InputsFirst(((R \o M) \o H) \o L, part)
               /\ CopiesFirst(((R \o M) \o H) \o L, s, part)
    <2>1. CASE part = "manifest"
      <3>1. InputsFirst(R \o M, part) /\ CopiesFirst(R \o M, s, part)
        BY <1>1, <1>2, <1>3, <2>1, RestThenLast
      <3>2. InputsFirst((R \o M) \o H, part) /\ CopiesFirst((R \o M) \o H, s, part)
        BY <1>2, <1>4, <1>7, <1>8, <2>1, <3>1, FirstThenRest
      <3> QED BY <1>2, <1>5, <1>7, <2>1, <3>2, FirstThenRest
    <2>2. CASE part = "helm"
      <3>1. ~Has(R \o M, Put(Deployment(part)))
        BY <1>1, <1>2, <1>3, <1>8, <2>2, JoinedHas
      <3>2. InputsFirst((R \o M) \o H, part) /\ CopiesFirst((R \o M) \o H, s, part)
        BY <1>2, <1>4, <1>7, <2>2, <3>1, RestThenLast
      <3> QED BY <1>2, <1>5, <1>7, <2>2, <3>2, FirstThenRest
    <2>3. CASE part \in {"main", "central", "webhooks"}
      <3>1. ~Has(R \o M, Put(Deployment(part)))
        BY <1>1, <1>2, <1>3, <1>8, <2>3, JoinedHas
      <3>2. ~Has((R \o M) \o H, Put(Deployment(part)))
        BY <1>2, <1>4, <1>7, <1>8, <2>3, <3>1, JoinedHas
      <3> QED BY <1>2, <1>5, <1>7, <2>3, <3>2, RestThenLast
    <2> QED BY <1>8, <2>1, <2>2, <2>3 DEF Parts
  <1>9. ASSUME NEW part \in Parts
        PROVE  Has(((R \o M) \o H) \o L, Put(Deployment(part)))
    <2> DEFINE a == Put(Deployment(part))
    <2>1. Has(M, a) \/ Has(H, a) \/ Has(L, a)
      BY <1>3, <1>4, <1>5, <1>9 DEF Parts
    <2> HIDE DEF a
    <2>2. Has(M, a) => Has(R \o M, a)
      BY <1>1, <1>2, JoinedHas
    <2>3. Has(R \o M, a) \/ Has(H, a) => Has((R \o M) \o H, a)
      BY <1>2, <1>7, JoinedHas
    <2>4. Has((R \o M) \o H, a) \/ Has(L, a) => Has(((R \o M) \o H) \o L, a)
      BY <1>2, <1>7, JoinedHas
    <2> QED BY <2>1, <2>2, <2>3, <2>4 DEF a
  <1> QED BY <1>6, <1>7, <1>8, <1>9 DEF S

-----------------------------------------------------------------------------
(* The uninstallation of the parts.                                        *)

DeploymentFirst(q, part) ==
    \A o \in Inputs[part] : Before(q, Remove(Deployment(part)), Remove(o))

NoInputs(q, part) == \A o \in Inputs[part] : ~Has(q, Remove(o))

LEMMA DeploymentStaysFirst ==
    ASSUME NEW S, NEW q \in Seq(S), NEW r \in Seq(S), NEW part
    PROVE  /\ DeploymentFirst(q, part) /\ NoInputs(r, part)
                  => DeploymentFirst(q \o r, part)
           /\ NoInputs(q, part) /\ DeploymentFirst(r, part)
                  => DeploymentFirst(q \o r, part)
           /\ NoInputs(q, part) /\ NoInputs(r, part) => NoInputs(q \o r, part)
  BY AbsentBefore, JoinedBefore, JoinedHas DEF DeploymentFirst, NoInputs

LEMMA UncopiesRemoveNothing ==
    ASSUME NEW s, NEW p, NEW part PROVE NoInputs(UncopySecrets(p, s), part)
  BY UncopyCalls DEF NoInputs

\* The inputs of the deployments, apart from the deployments' own names.
LEMMA InputsOf ==
    /\ Inputs["manifest"] = {Config("manifest"), Kubeconfig("manifest")}
    /\ Inputs["helm"] = {Config("helm"), Kubeconfig("helm")}
    /\ \A part \in {"main", "central", "webhooks"} :
           Inputs[part] \subseteq
               {Config("landscaper"), Kubeconfig("controller mcp"),
                Kubeconfig("controller workload")}
  <1>1. /\ Inputs["manifest"] = ManifestInputs /\ Inputs["helm"] = HelmInputs
        /\ Inputs["main"] = ControllerInputs /\ Inputs["central"] = ControllerInputs
        /\ Inputs["webhooks"] = WebhooksInputs
    BY DEF Inputs
  <1> QED
    BY <1>1 DEF ManifestInputs, HelmInputs, ControllerInputs, WebhooksInputs

LEMMA DistinctInputs ==
    /\ \A p, q : Config(p) = Config(q) <=> p = q
    /\ \A p, q : Kubeconfig(p) = Kubeconfig(q) <=> p = q
    /\ \A p, q : Config(p) # HPA(q) /\ Config(p) # Service(q)
    /\ \A p, q : Config(p) # Kubeconfig(q) /\ Config(p) # Deployment(q)
    /\ \A p, q : Kubeconfig(p) # HPA(q) /\ Kubeconfig(p) # Service(q)
    /\ \A p, q : Kubeconfig(p) # Deployment(q)
    /\ \A p : Config(p) # MCPNamespace /\ Kubeconfig(p) # MCPNamespace
  BY DEF Deployment, HPA, Service, Config, Kubeconfig, MCPNamespace

RemoveDeployer(p) ==
    <<Remove(Deployment(p)), Remove(HPA(p)), Remove(Kubeconfig(p)), Remove(Config(p))>>

LEMMA DeployerRemoved ==
    ASSUME NEW p \in {"manifest", "helm"}
    PROVE  /\ \A secrets : RemoveDeployer(p) \in Seq(Deletes(secrets))
           /\ Len(RemoveDeployer(p)) = 4
           /\ \A i \in 1 .. 4 : RemoveDeployer(p)[i].call = "remove"
           /\ DeploymentFirst(RemoveDeployer(p), p)
           /\ \A part \in Parts \ {p} : NoInputs(RemoveDeployer(p), part)
  <1> DEFINE T == RemoveDeployer(p)
  <1>1. /\ DOMAIN T = 1 .. 4 /\ Len(T) = 4
        /\ T[1] = Remove(Deployment(p)) /\ T[2] = Remove(HPA(p))
        /\ T[3] = Remove(Kubeconfig(p)) /\ T[4] = Remove(Config(p))
    BY DEF RemoveDeployer
  <1>2. T = [i \in 1 .. 4 |-> T[i]]
    BY DEF RemoveDeployer
  <1> HIDE DEF T
  <1>3. \A i \in 1 .. 4 : i = 1 \/ i = 2 \/ i = 3 \/ i = 4
    OBVIOUS
  <1>4. ASSUME NEW secrets PROVE T \in Seq(Deletes(secrets))
    <2>1. \A i \in 1 .. 4 : \E o \in ManifestObjects \cup HelmObjects : T[i] = Remove(o)
      BY <1>1, <1>3 DEF ManifestObjects, HelmObjects
    <2>2. \A o \in ManifestObjects \cup HelmObjects : Remove(o) \in Deletes(secrets)
      BY ObjectsKnown, PutKnown
    <2>3. \A i \in 1 .. 4 : T[i] \in Deletes(secrets)
      BY <2>1, <2>2
    <2>4. T \in [1 .. 4 -> Deletes(secrets)]
      BY <1>2, <2>3
    <2> QED BY <2>4, ListOf
  <1>5. \A i \in 1 .. 4 : T[i].call = "remove"
    BY <1>1, <1>3, Distinct
  <1>6. DeploymentFirst(T, p)
    <2> SUFFICES ASSUME NEW o \in Inputs[p], NEW i \in DOMAIN T, T[i] = Remove(o)
                 PROVE  \E j \in DOMAIN T : j < i /\ T[j] = Remove(Deployment(p))
      BY DEF DeploymentFirst, Before
    <2>1. o = Config(p) \/ o = Kubeconfig(p)
      BY InputsOf
    <2>2. Remove(o) # Remove(Deployment(p))
      BY <2>1, Distinct
    <2>3. i # 1 /\ i \in 1 .. 4
      BY <1>1, <2>2
    <2>4. 1 \in DOMAIN T /\ 1 < i
      BY <1>1, <2>3
    <2> QED BY <1>1, <2>4
  <1>7. ASSUME NEW part \in Parts \ {p}, NEW o \in Inputs[part], NEW i \in DOMAIN T,
               T[i] = Remove(o)
        PROVE  FALSE
    <2>1. PICK q \in {"manifest", "helm", "landscaper", "controller mcp",
                      "controller workload"} \ {p} :
              o = Config(q) \/ o = Kubeconfig(q)
      <3>1. part \in {"manifest", "helm"} \ {p} \/ part \in {"main", "central", "webhooks"}
        BY DEF Parts
      <3>2. CASE part \in {"manifest", "helm"} \ {p}
        BY <3>2, InputsOf
      <3>3. CASE part \in {"main", "central", "webhooks"}
        <4>1. o = Config("landscaper") \/ o = Kubeconfig("controller mcp")
                  \/ o = Kubeconfig("controller workload")
          BY <3>3, InputsOf
        <4> QED BY <4>1
      <3> QED BY <3>1, <3>2, <3>3
    <2>2. /\ o # Deployment(p) /\ o # HPA(p)
          /\ o # Kubeconfig(p) /\ o # Config(p)
      BY <2>1, DistinctInputs
    <2>3. /\ Remove(o) # Remove(Deployment(p)) /\ Remove(o) # Remove(HPA(p))
          /\ Remove(o) # Remove(Kubeconfig(p)) /\ Remove(o) # Remove(Config(p))
      BY <2>2, Distinct
    <2> QED BY <1>1, <1>3, <1>7, <2>3
  <1> QED BY <1>1, <1>4, <1>5, <1>6, <1>7 DEF T, NoInputs, Has

LandscaperRemoves ==
    <<Remove(HPA("webhooks")), Remove(HPA("central")), Remove(HPA("main")),
      Remove(Deployment("webhooks")), Remove(Deployment("main")),
      Remove(Deployment("central")), Remove(Service("webhooks")),
      Remove(Service("central")), Remove(Config("landscaper")),
      Remove(Kubeconfig("webhooks")), Remove(Kubeconfig("controller mcp")),
      Remove(Kubeconfig("controller workload"))>>

LEMMA LandscaperRemoved ==
    /\ \A secrets : LandscaperRemoves \in Seq(Deletes(secrets))
    /\ \A i \in DOMAIN LandscaperRemoves : LandscaperRemoves[i].call = "remove"
    /\ \A part \in {"main", "central", "webhooks"} :
           DeploymentFirst(LandscaperRemoves, part)
    /\ \A part \in {"manifest", "helm"} : NoInputs(LandscaperRemoves, part)
  <1> DEFINE T == LandscaperRemoves
  <1>1. /\ DOMAIN T = 1 .. 12
        /\ T[1] = Remove(HPA("webhooks")) /\ T[2] = Remove(HPA("central"))
        /\ T[3] = Remove(HPA("main")) /\ T[4] = Remove(Deployment("webhooks"))
        /\ T[5] = Remove(Deployment("main")) /\ T[6] = Remove(Deployment("central"))
        /\ T[7] = Remove(Service("webhooks")) /\ T[8] = Remove(Service("central"))
        /\ T[9] = Remove(Config("landscaper"))
        /\ T[10] = Remove(Kubeconfig("webhooks"))
        /\ T[11] = Remove(Kubeconfig("controller mcp"))
        /\ T[12] = Remove(Kubeconfig("controller workload"))
    BY DEF LandscaperRemoves
  <1>2. T = [i \in 1 .. 12 |-> T[i]]
    BY DEF LandscaperRemoves
  <1> HIDE DEF T
  <1>3. \A i \in 1 .. 12 : i = 1 \/ i = 2 \/ i = 3 \/ i = 4 \/ i = 5 \/ i = 6
            \/ i = 7 \/ i = 8 \/ i = 9 \/ i = 10 \/ i = 11 \/ i = 12
    OBVIOUS
  <1>4. \A i \in 1 .. 12 : \E o \in LandscaperObjects : T[i] = Remove(o)
    BY <1>1, <1>3 DEF LandscaperObjects
  <1>5. ASSUME NEW secrets PROVE T \in Seq(Deletes(secrets))
    <2>1. \A o \in LandscaperObjects : Remove(o) \in Deletes(secrets)
      BY ObjectsKnown, PutKnown
    <2>2. \A i \in 1 .. 12 : T[i] \in Deletes(secrets)
      BY <1>4, <2>1
    <2>3. T \in [1 .. 12 -> Deletes(secrets)]
      BY <1>2, <2>2
    <2> QED BY <2>3, ListOf
  <1>6. \A i \in DOMAIN T : T[i].call = "remove"
    <2> SUFFICES ASSUME NEW i \in 1 .. 12 PROVE T[i].call = "remove"
      BY <1>1
    <2>1. PICK o \in LandscaperObjects : T[i] = Remove(o)
      BY <1>4
    <2> QED BY <2>1, Distinct
  <1>7. ASSUME NEW part \in {"main", "central", "webhooks"}
        PROVE  DeploymentFirst(T, part)
    <2> SUFFICES ASSUME NEW o \in Inputs[part], NEW i \in DOMAIN T, T[i] = Remove(o)
                 PROVE  \E j \in DOMAIN T : j < i /\ T[j] = Remove(Deployment(part))
      BY DEF DeploymentFirst, Before
    <2>1. o = Config("landscaper") \/ o = Kubeconfig("controller mcp")
              \/ o = Kubeconfig("controller workload")
      BY InputsOf
    <2>2. \A q : o # Deployment(q) /\ o # HPA(q)
      BY <2>1, DistinctInputs
    <2>3. i > 6
      <3>1. \A q : Remove(o) # Remove(Deployment(q)) /\ Remove(o) # Remove(HPA(q))
        BY <2>2, Distinct
      <3>2. i # 1 /\ i # 2 /\ i # 3 /\ i # 4 /\ i # 5 /\ i # 6
        BY <1>1, <3>1
      <3>3. i \in 1 .. 12
        BY <1>1
      <3> QED BY <3>2, <3>3
    <2>4. \E j \in {4, 5, 6} : T[j] = Remove(Deployment(part))
      BY <1>1, <1>7
    <2>5. DOMAIN T = 1 .. 12
      BY <1>1
    <2>6. \A j \in {4, 5, 6} : j \in 1 .. 12 /\ j < i
      BY <2>3, <2>5
    <2> QED BY <2>4, <2>5, <2>6
  <1>8. ASSUME NEW part \in {"manifest", "helm"}, NEW o \in Inputs[part],
               NEW i \in DOMAIN T, T[i] = Remove(o)
        PROVE  FALSE
    <2>1. o = Config(part) \/ o = Kubeconfig(part)
      BY <1>8, InputsOf
    <2>2. /\ \A q : o # Deployment(q) /\ o # HPA(q) /\ o # Service(q)
          /\ o # Config("landscaper") /\ o # Kubeconfig("webhooks")
          /\ o # Kubeconfig("controller mcp") /\ o # Kubeconfig("controller workload")
      BY <1>8, <2>1, DistinctInputs
    <2>3. /\ \A q : Remove(o) # Remove(Deployment(q)) /\ Remove(o) # Remove(HPA(q))
          /\ \A q : Remove(o) # Remove(Service(q))
          /\ Remove(o) # Remove(Config("landscaper"))
          /\ Remove(o) # Remove(Kubeconfig("webhooks"))
          /\ Remove(o) # Remove(Kubeconfig("controller mcp"))
          /\ Remove(o) # Remove(Kubeconfig("controller workload"))
      <3>1. \A r : Remove(o) = Remove(r) => o = r
        BY Distinct
      <3> QED BY <2>2, <3>1
    <2> QED BY <1>1, <1>3, <1>8, <2>3
  <1> QED BY <1>5, <1>6, <1>7, <1>8 DEF T, NoInputs, Has

LEMMA LandscaperUninstalled ==
    ASSUME NEW secrets, NEW s, s.secrets \in [Parts -> Seq(secrets)]
    PROVE  /\ UninstallLandscaper(s) \in Seq(Deletes(secrets))
           /\ \A part \in {"main", "central", "webhooks"} :
                  DeploymentFirst(UninstallLandscaper(s), part)
           /\ \A part \in {"manifest", "helm"} : NoInputs(UninstallLandscaper(s), part)
           /\ \A i \in DOMAIN UninstallLandscaper(s) :
                  UninstallLandscaper(s)[i].call = "uncopy"
                  => UninstallLandscaper(s)[i].object[1] # "helm"
  <1> DEFINE S == Deletes(secrets)
             W == LandscaperRemoves
             A == UncopySecrets("main", s)
             B == UncopySecrets("central", s)
             C == UncopySecrets("webhooks", s)
             WA == W \o A
             WAB == WA \o B
             Q == WAB \o C
             NotHelm(q) ==
                 \A i \in DOMAIN q : q[i].call = "uncopy" => q[i].object[1] # "helm"
  <1>1. W \in Seq(S)
    BY LandscaperRemoved
  <1>2. A \in Seq(S) /\ B \in Seq(S) /\ C \in Seq(S)
    BY SecretCalls DEF Parts
  <1>3. \A part : NoInputs(A, part) /\ NoInputs(B, part) /\ NoInputs(C, part)
    BY UncopiesRemoveNothing
  <1>4. NotHelm(W) /\ NotHelm(A) /\ NotHelm(B) /\ NotHelm(C)
    BY LandscaperRemoved, UncopyCalls
  <1>5. UninstallLandscaper(s) = Q
    BY DEF UninstallLandscaper, LandscaperRemoves
  <1>6. /\ \A part \in {"main", "central", "webhooks"} : DeploymentFirst(W, part)
        /\ \A part \in {"manifest", "helm"} : NoInputs(W, part)
    BY LandscaperRemoved
  <1> HIDE DEF S, W, A, B, C
  <1>7. WA \in Seq(S) /\ WAB \in Seq(S) /\ Q \in Seq(S)
    BY <1>1, <1>2, Joined
  <1>8. ASSUME NEW part \in {"main", "central", "webhooks"}
        PROVE  DeploymentFirst(Q, part)
    <2>1. DeploymentFirst(WA, part)
      BY <1>1, <1>2, <1>3, <1>6, <1>8, DeploymentStaysFirst
    <2> HIDE DEF WA
    <2>2. DeploymentFirst(WAB, part)
      BY <1>2, <1>3, <1>7, <2>1, DeploymentStaysFirst
    <2> HIDE DEF WAB
    <2> QED BY <1>2, <1>3, <1>7, <2>2, DeploymentStaysFirst
  <1>9. ASSUME NEW part \in {"manifest", "helm"}
        PROVE  NoInputs(Q, part)
    <2>1. NoInputs(WA, part)
      BY <1>1, <1>2, <1>3, <1>6, <1>9, DeploymentStaysFirst
    <2> HIDE DEF WA
    <2>2. NoInputs(WAB, part)
      BY <1>2, <1>3, <1>7, <2>1, DeploymentStaysFirst
    <2> HIDE DEF WAB
    <2> QED BY <1>2, <1>3, <1>7, <2>2, DeploymentStaysFirst
  <1>10. ASSUME NEW q \in Seq(S), NEW r \in Seq(S), NotHelm(q), NotHelm(r)
         PROVE  NotHelm(q \o r)
    <2> SUFFICES ASSUME NEW i \in DOMAIN (q \o r), (q \o r)[i].call = "uncopy"
                 PROVE  (q \o r)[i].object[1] # "helm"
      OBVIOUS
    <2>1. CASE i \in DOMAIN q
      <3>1. (q \o r)[i] = q[i]
        BY <2>1, Joined
      <3> QED BY <1>10, <2>1, <3>1
    <2>2. CASE i > Len(q) /\ i - Len(q) \in DOMAIN r
      <3>1. (q \o r)[i] = r[i - Len(q)]
        BY <2>2, Joined
      <3> QED BY <1>10, <2>2, <3>1
    <2> QED BY <2>1, <2>2, Joined
  <1>11. NotHelm(Q)
    <2> HIDE DEF NotHelm
    <2>1. NotHelm(WA)
      BY <1>1, <1>2, <1>4, <1>10
    <2> HIDE DEF WA
    <2>2. NotHelm(WAB)
      BY <1>2, <1>4, <1>7, <1>10, <2>1
    <2> HIDE DEF WAB
    <2> QED BY <1>2, <1>4, <1>7, <1>10, <2>2
  <1> QED BY <1>5, <1>7, <1>8, <1>9, <1>11 DEF S

UninstallDeployer(p, s) == RemoveDeployer(p) \o UncopySecrets(p, s)

LEMMA DeployerUninstalled ==
    ASSUME NEW secrets, NEW s, s.secrets \in [Parts -> Seq(secrets)],
           NEW p \in {"manifest", "helm"}
    PROVE  /\ UninstallDeployer(p, s) \in Seq(Deletes(secrets))
           /\ DeploymentFirst(UninstallDeployer(p, s), p)
           /\ \A part \in Parts \ {p} :
                  NoInputs(UninstallDeployer(p, s), part)
           /\ \A i \in DOMAIN UninstallDeployer(p, s) :
                  /\ UninstallDeployer(p, s)[i].call = "uncopy" <=> i > 4
                  /\ UninstallDeployer(p, s)[i].call = "uncopy"
                         => UninstallDeployer(p, s)[i].object[1] = p
  <1> DEFINE S == Deletes(secrets)
             W == RemoveDeployer(p)
             C == UncopySecrets(p, s)
  <1>1. W \in Seq(S) /\ Len(W) = 4
    BY DeployerRemoved
  <1>2. C \in Seq(S)
    BY SecretCalls DEF Parts
  <1>3. \A part : NoInputs(C, part)
    BY UncopiesRemoveNothing
  <1>4. DeploymentFirst(W, p) /\ \A part \in Parts \ {p} : NoInputs(W, part)
    BY DeployerRemoved
  <1>5. \A i \in 1 .. 4 : W[i].call = "remove"
    BY DeployerRemoved
  <1>6. \A i \in DOMAIN C : C[i].call = "uncopy" /\ C[i].object[1] = p
    BY UncopyCalls
  <1> HIDE DEF S, W, C
  <1>7. W \o C \in Seq(S)
    BY <1>1, <1>2, Joined
  <1>8. DeploymentFirst(W \o C, p) /\ \A part \in Parts \ {p} : NoInputs(W \o C, part)
    BY <1>1, <1>2, <1>3, <1>4, DeploymentStaysFirst
  <1>9. ASSUME NEW i \in DOMAIN (W \o C)
        PROVE  /\ (W \o C)[i].call = "uncopy" <=> i > 4
               /\ (W \o C)[i].call = "uncopy" => (W \o C)[i].object[1] = p
    <2>1. CASE i \in DOMAIN W /\ (W \o C)[i] = W[i]
      <3>1. i \in 1 .. 4
        BY <1>1, <2>1
      <3>2. W[i].call = "remove"
        BY <1>5, <3>1
      <3> QED BY <2>1, <3>1, <3>2
    <2>2. CASE i > Len(W) /\ i - Len(W) \in DOMAIN C /\ (W \o C)[i] = C[i - Len(W)]
      <3>1. i > 4
        BY <1>1, <2>2
      <3> QED BY <1>6, <2>2, <3>1
    <2> QED BY <1>1, <1>2, <2>1, <2>2, JoinedAt
  <1>10. UninstallDeployer(p, s) = W \o C
    BY DEF UninstallDeployer, W, C
  <1> QED BY <1>7, <1>8, <1>9, <1>10 DEF S

\* In an uninstallation, every deployment is deleted before its inputs; and
\* behind a call that deletes a pull secret of the Helm deployer, there are
\* only such calls until the manifest deployer is uninstalled.
LEMMA UninstalledInOrder ==
    ASSUME NEW secrets, NEW s, s.secrets \in [Parts -> Seq(secrets)]
    PROVE  LET calls == UninstallLandscaperInstance(s)
               next  == Len(UninstallLandscaper(s)) + Len(UninstallHelmDeployer(s)) + 1
           IN  /\ calls \in Seq(Deletes(secrets))
               /\ next \in Nat \ {0}
               /\ \A part \in Parts : DeploymentFirst(calls, part)
               /\ \A i \in DOMAIN calls :
                      calls[i].call = "uncopy" /\ calls[i].object[1] = "helm" =>
                      /\ i < next /\ next \in DOMAIN calls
                      /\ \A j \in i .. next - 1 : calls[j].call = "uncopy"
  <1> DEFINE S == Deletes(secrets)
             U == UninstallLandscaper(s)
             H == UninstallHelmDeployer(s)
             M == UninstallManifestDeployer(s)
             R == UninstallLandscaperRBACResources
             UH == U \o H
             UHM == UH \o M
             Q == UHM \o R
  <1>1. UninstallLandscaperInstance(s) = Q
    BY DEF UninstallLandscaperInstance
  <1>2. H = UninstallDeployer("helm", s)
    BY DEF UninstallDeployer, UninstallHelmDeployer, RemoveHelmDeployer, RemoveDeployer
  <1>3. M = UninstallDeployer("manifest", s)
    BY DEF UninstallDeployer, UninstallManifestDeployer, RemoveDeployer
  <1>4. /\ U \in Seq(S)
        /\ \A part \in {"main", "central", "webhooks"} : DeploymentFirst(U, part)
        /\ \A part \in {"manifest", "helm"} : NoInputs(U, part)
        /\ \A i \in DOMAIN U : U[i].call = "uncopy" => U[i].object[1] # "helm"
    BY LandscaperUninstalled
  <1>5. /\ H \in Seq(S) /\ DeploymentFirst(H, "helm")
        /\ \A part \in Parts \ {"helm"} : NoInputs(H, part)
        /\ \A i \in DOMAIN H : H[i].call = "uncopy" <=> i > 4
    <2> DEFINE D == UninstallDeployer("helm", s)
    <2>1. /\ D \in Seq(S) /\ DeploymentFirst(D, "helm")
          /\ \A part \in Parts \ {"helm"} : NoInputs(D, part)
      BY DeployerUninstalled
    <2>2. D \in Seq(S) /\ \A i \in DOMAIN D : D[i].call = "uncopy" <=> i > 4
      BY DeployerUninstalled
    <2> QED BY <1>2, <2>1, <2>2
  <1>6. /\ M \in Seq(S) /\ DeploymentFirst(M, "manifest")
        /\ \A part \in Parts \ {"manifest"} : NoInputs(M, part)
        /\ \A i \in DOMAIN M : M[i].call = "uncopy" => M[i].object[1] = "manifest"
    BY <1>3, DeployerUninstalled
  <1>7. R \in Seq(S) /\ Len(R) = 1 /\ R[1] = Remove(MCPNamespace)
    BY ObjectsKnown, PutKnown DEF UninstallLandscaperRBACResources
  <1>8. R[1].call = "remove"
    BY <1>7, Distinct
  <1>9. \A part \in Parts : NoInputs(R, part)
    <2> SUFFICES ASSUME NEW part \in Parts, NEW o \in Inputs[part]
                 PROVE  o # MCPNamespace
      BY <1>7, Distinct DEF NoInputs, Has
    <2>1. \E q : o = Config(q) \/ o = Kubeconfig(q)
      <3>1. part \in {"manifest", "helm"} \/ part \in {"main", "central", "webhooks"}
        BY DEF Parts
      <3>2. CASE part \in {"manifest", "helm"}
        BY <3>2, InputsOf
      <3>3. CASE part \in {"main", "central", "webhooks"}
        <4>1. o = Config("landscaper") \/ o = Kubeconfig("controller mcp")
                  \/ o = Kubeconfig("controller workload")
          BY <3>3, InputsOf
        <4> QED BY <4>1
      <3> QED BY <3>1, <3>2, <3>3
    <2> QED BY <2>1, DistinctInputs
  <1> HIDE DEF S, U, H, M, R
  <1>10. UH \in Seq(S) /\ UHM \in Seq(S) /\ Q \in Seq(S)
    BY <1>4, <1>5, <1>6, <1>7, Joined
  <1>11. ASSUME NEW part \in Parts PROVE DeploymentFirst(Q, part)
    <2>1. DeploymentFirst(UHM, part)
      <3>1. CASE part = "manifest"
        <4>1. NoInputs(UH, part)
          BY <1>4, <1>5, <1>11, <3>1, DeploymentStaysFirst
        <4> HIDE DEF UH
        <4> QED BY <1>6, <1>10, <3>1, <4>1, DeploymentStaysFirst
      <3>2. CASE part = "helm"
        <4>1. DeploymentFirst(UH, part)
          BY <1>4, <1>5, <3>2, DeploymentStaysFirst
        <4> HIDE DEF UH
        <4>2. NoInputs(M, part)
          BY <1>6, <1>11, <3>2
        <4> QED BY <1>6, <1>10, <4>1, <4>2, DeploymentStaysFirst
      <3>3. CASE part \in {"main", "central", "webhooks"}
        <4>1. NoInputs(H, part) /\ NoInputs(M, part)
          BY <1>5, <1>6, <1>11, <3>3
        <4>2. DeploymentFirst(UH, part)
          BY <1>4, <1>5, <3>3, <4>1, DeploymentStaysFirst
        <4> HIDE DEF UH
        <4> QED BY <1>6, <1>10, <4>1, <4>2, DeploymentStaysFirst
      <3> QED BY <1>11, <3>1, <3>2, <3>3 DEF Parts
    <2> HIDE DEF UHM
    <2> QED BY <1>7, <1>9, <1>10, <2>1, DeploymentStaysFirst
  <1> DEFINE next == Len(U) + Len(H) + 1
  <1>12. /\ Len(U) \in Nat /\ Len(H) \in Nat /\ Len(M) \in Nat
         /\ Len(UH) = Len(U) + Len(H) /\ Len(UHM) = Len(UH) + Len(M)
         /\ Len(Q) = Len(UHM) + 1
         /\ DOMAIN Q = 1 .. Len(Q) /\ DOMAIN U = 1 .. Len(U) /\ DOMAIN H = 1 .. Len(H)
         /\ DOMAIN M = 1 .. Len(M)
    <2>1. Len(UH) = Len(U) + Len(H)
      BY <1>4, <1>5, Joined
    <2> HIDE DEF UH
    <2>2. Len(UHM) = Len(UH) + Len(M)
      BY <1>6, <1>10, Joined
    <2> HIDE DEF UHM
    <2>3. Len(Q) = Len(UHM) + 1
      <3>1. Len(Q) = Len(UHM) + Len(R)
        BY <1>7, <1>10, Joined
      <3> QED BY <1>7, <3>1
    <2> HIDE DEF Q
    <2> QED BY <1>4, <1>5, <1>6, <1>10, <2>1, <2>2, <2>3
  <1>13. /\ \A i \in 1 .. Len(U) : Q[i] = U[i]
         /\ \A i \in 1 .. Len(H) : Q[Len(U) + i] = H[i]
         /\ \A i \in 1 .. Len(M) : Q[Len(U) + Len(H) + i] = M[i]
         /\ Q[Len(U) + Len(H) + Len(M) + 1] = R[1]
    <2>1. /\ \A i \in 1 .. Len(U) : UH[i] = U[i]
          /\ \A i \in 1 .. Len(H) : UH[Len(U) + i] = H[i]
      BY <1>4, <1>5, Joined
    <2> HIDE DEF UH
    <2>2. /\ \A i \in 1 .. Len(UH) : UHM[i] = UH[i]
          /\ \A i \in 1 .. Len(M) : UHM[Len(UH) + i] = M[i]
      BY <1>6, <1>10, Joined
    <2> HIDE DEF UHM
    <2>3. /\ \A i \in 1 .. Len(UHM) : Q[i] = UHM[i]
          /\ Q[Len(UHM) + 1] = R[1]
      <3>1. R \in Seq(S)
        BY <1>7
      <3>2. \A i \in 1 .. Len(UHM) : Q[i] = UHM[i]
        BY <1>10, <3>1, Joined
      <3>3. \A i \in 1 .. Len(R) : Q[Len(UHM) + i] = R[i]
        BY <1>10, <3>1, Joined
      <3>4. 1 \in 1 .. Len(R)
        BY <1>7
      <3> QED BY <3>2, <3>3, <3>4
    <2> HIDE DEF Q
    <2>4. \A i \in 1 .. Len(U) : Q[i] = U[i]
      BY <1>12, <2>1, <2>2, <2>3
    <2>5. ASSUME NEW i \in 1 .. Len(H) PROVE Q[Len(U) + i] = H[i]
      <3>1. Len(U) + i \in 1 .. Len(UH) /\ Len(U) + i \in 1 .. Len(UHM)
        BY <1>12
      <3> QED BY <2>1, <2>2, <2>3, <3>1
    <2>6. ASSUME NEW i \in 1 .. Len(M) PROVE Q[Len(U) + Len(H) + i] = M[i]
      <3>1. Len(UH) + i = Len(U) + Len(H) + i /\ Len(UH) + i \in 1 .. Len(UHM)
        BY <1>12
      <3> QED BY <2>2, <2>3, <3>1
    <2>7. Q[Len(U) + Len(H) + Len(M) + 1] = R[1]
      BY <1>12, <2>3
    <2> QED BY <2>4, <2>5, <2>6, <2>7
  <1> HIDE DEF Q, UH, UHM
  <1>14. ASSUME NEW i \in DOMAIN Q, Q[i].call = "uncopy", Q[i].object[1] = "helm"
         PROVE  /\ i < next /\ next \in DOMAIN Q
                /\ \A j \in i .. next - 1 : Q[j].call = "uncopy"
    <2>1. i \in Nat /\ i > 0
      BY <1>12
    <2>2. i > Len(U)
      BY <1>4, <1>12, <1>13, <1>14
    <2>3. i < next
      <3>1. CASE i = Len(Q)
        BY <1>8, <1>12, <1>13, <1>14, <3>1
      <3>2. CASE i >= next /\ i < Len(Q)
        <4>1. i - (Len(U) + Len(H)) \in 1 .. Len(M)
          BY <1>12, <2>1, <3>2
        <4>2. Q[i] = M[i - (Len(U) + Len(H))]
          BY <1>12, <1>13, <2>1, <4>1
        <4> QED BY <1>6, <1>12, <1>14, <4>1, <4>2
      <3> QED BY <1>12, <3>1, <3>2
    <2>4. i - Len(U) > 4
      <3>1. i - Len(U) \in 1 .. Len(H)
        BY <1>12, <2>1, <2>2, <2>3
      <3>2. Q[i] = H[i - Len(U)]
        BY <1>12, <1>13, <2>1, <3>1
      <3> QED BY <1>5, <1>12, <1>14, <3>1, <3>2
    <2>5. ASSUME NEW j \in i .. next - 1 PROVE Q[j].call = "uncopy"
      <3>1. j - Len(U) \in 1 .. Len(H) /\ j - Len(U) > 4
        BY <1>12, <2>1, <2>4
      <3>2. Q[j] = H[j - Len(U)]
        BY <1>12, <1>13, <2>1, <3>1
      <3> QED BY <1>5, <1>12, <3>1, <3>2
    <2>6. next \in DOMAIN Q
      BY <1>12
    <2> QED BY <2>3, <2>5, <2>6
  <1>15. next \in Nat \ {0}
    BY <1>12
  <1> QED BY <1>1, <1>10, <1>11, <1>14, <1>15 DEF S, U, H

-----------------------------------------------------------------------------
(* Component after component.                                              *)

InOrder == <<"rbac", "manifest", "helm", "landscaper">>

PutsOf(c)    == {Put(o) : o \in Own[c]}
RemovesOf(c) == {Remove(o) : o \in Own[c]}

Covers(q, A) == \A a \in A : Has(q, a)
Free(q, A)   == \A a \in A : ~Has(q, a)

AllBefore(q, A, B) == \A a \in A, b \in B : Before(q, a, b)

LEMMA JoinedBlocks ==
    ASSUME NEW S, NEW q \in Seq(S), NEW r \in Seq(S), NEW A, NEW B
    PROVE  /\ Covers(q, A) \/ Covers(r, A) => Covers(q \o r, A)
           /\ Free(q, A) /\ Free(r, A) => Free(q \o r, A)
           /\ Covers(q, A) /\ Free(q, B) => AllBefore(q \o r, A, B)
           /\ Covers(q, A) /\ AllBefore(q, A, B) => AllBefore(q \o r, A, B)
  <1>1. /\ Covers(q, A) \/ Covers(r, A) => Covers(q \o r, A)
        /\ Free(q, A) /\ Free(r, A) => Free(q \o r, A)
    BY JoinedHas DEF Covers, Free
  <1>2. Free(q, B) => AllBefore(q, A, B)
    BY AbsentBefore DEF Free, AllBefore
  <1>3. Covers(q, A) /\ AllBefore(q, A, B) => AllBefore(q \o r, A, B)
    BY JoinedBefore DEF Covers, AllBefore
  <1> QED BY <1>1, <1>2, <1>3

\* Four blocks, each of which does all of its own calls and none of a later one.
LEMMA FourBlocks ==
    ASSUME NEW S, NEW q1 \in Seq(S), NEW q2 \in Seq(S), NEW q3 \in Seq(S),
           NEW q4 \in Seq(S), NEW A1, NEW A2, NEW A3, NEW A4,
           Covers(q1, A1), Covers(q2, A2), Covers(q3, A3), Covers(q4, A4),
           Free(q1, A2), Free(q1, A3), Free(q1, A4), Free(q2, A3), Free(q2, A4),
           Free(q3, A4)
    PROVE  /\ Covers(((q1 \o q2) \o q3) \o q4, A1)
           /\ Covers(((q1 \o q2) \o q3) \o q4, A2)
           /\ Covers(((q1 \o q2) \o q3) \o q4, A3)
           /\ Covers(((q1 \o q2) \o q3) \o q4, A4)
           /\ AllBefore(((q1 \o q2) \o q3) \o q4, A1, A2)
           /\ AllBefore(((q1 \o q2) \o q3) \o q4, A1, A3)
           /\ AllBefore(((q1 \o q2) \o q3) \o q4, A1, A4)
           /\ AllBefore(((q1 \o q2) \o q3) \o q4, A2, A3)
           /\ AllBefore(((q1 \o q2) \o q3) \o q4, A2, A4)
           /\ AllBefore(((q1 \o q2) \o q3) \o q4, A3, A4)
  <1> DEFINE r2 == q1 \o q2
             r3 == r2 \o q3
             r4 == r3 \o q4
  <1>1. r2 \in Seq(S) /\ r3 \in Seq(S)
    BY Joined
  <1>2. /\ Covers(r2, A1) /\ Covers(r2, A2) /\ Free(r2, A3) /\ Free(r2, A4)
        /\ AllBefore(r2, A1, A2) /\ AllBefore(r2, A1, A3) /\ AllBefore(r2, A1, A4)
    BY JoinedBlocks
  <1> HIDE DEF r2
  <1>3. /\ Covers(r3, A1) /\ Covers(r3, A2) /\ Covers(r3, A3) /\ Free(r3, A4)
        /\ AllBefore(r3, A1, A2) /\ AllBefore(r3, A1, A3) /\ AllBefore(r3, A1, A4)
        /\ AllBefore(r3, A2, A3) /\ AllBefore(r3, A2, A4)
    BY <1>1, <1>2, JoinedBlocks
  <1> HIDE DEF r3
  <1>4. /\ Covers(r4, A1) /\ Covers(r4, A2) /\ Covers(r4, A3) /\ Covers(r4, A4)
        /\ AllBefore(r4, A1, A2) /\ AllBefore(r4, A1, A3) /\ AllBefore(r4, A1, A4)
        /\ AllBefore(r4, A2, A3) /\ AllBefore(r4, A2, A4) /\ AllBefore(r4, A3, A4)
    BY <1>1, <1>3, JoinedBlocks
  <1> QED BY <1>4 DEF r2, r3

DeployerObjects(p) == {Config(p), Kubeconfig(p), HPA(p), Deployment(p)}

LEMMA OwnObjects ==
    /\ DOMAIN Own = {"rbac", "manifest", "helm", "landscaper"}
    /\ Own["rbac"] = {MCPNamespace}
    /\ Own["manifest"] = DeployerObjects("manifest")
    /\ Own["helm"] = DeployerObjects("helm")
    /\ Own["landscaper"] = LandscaperObjects
  BY DEF Own, RBACObjects, ManifestObjects, HelmObjects, DeployerObjects

LEMMA NamePairs ==
    \A x : /\ Config(x)[2] = x /\ Kubeconfig(x)[2] = x /\ HPA(x)[2] = x
           /\ Deployment(x)[2] = x /\ Service(x)[2] = x
           /\ Config(x)[1] # "Namespace" /\ Kubeconfig(x)[1] # "Namespace"
           /\ HPA(x)[1] # "Namespace" /\ Deployment(x)[1] # "Namespace"
           /\ Service(x)[1] # "Namespace"
  BY DEF Config, Kubeconfig, HPA, Deployment, Service

\* No object belongs to two components, or is the workload namespace.
LEMMA OwnDisjoint ==
    ASSUME NEW c \in DOMAIN Own, NEW o \in Own[c]
    PROVE  /\ o # WorkloadNamespace
           /\ o \in Namespaces <=> c = "rbac"
           /\ \A d \in DOMAIN Own : o \in Own[d] => d = c
  <1>1. ASSUME NEW d \in DOMAIN Own, NEW p \in Own[d]
        PROVE  /\ d = "rbac" => p = MCPNamespace
               /\ d = "manifest" => p[2] = "manifest"
               /\ d = "helm" => p[2] = "helm"
               /\ d = "landscaper" =>
                      p[2] \in {"controller mcp", "controller workload", "webhooks",
                                "landscaper", "central", "main"}
               /\ d # "rbac" => p[1] # "Namespace"
    <2>1. CASE d = "rbac"
      BY <2>1, OwnObjects
    <2>2. CASE d \in {"manifest", "helm"}
      <3>1. p = Config(d) \/ p = Kubeconfig(d) \/ p = HPA(d) \/ p = Deployment(d)
        BY <2>2, OwnObjects DEF DeployerObjects
      <3>2. p[2] = d /\ p[1] # "Namespace"
        BY <3>1, NamePairs
      <3> QED BY <2>2, <3>2
    <2>3. CASE d = "landscaper"
      <3>1. PICK x \in {"controller mcp", "controller workload", "webhooks",
                        "landscaper", "central", "main"} :
               p = Config(x) \/ p = Kubeconfig(x) \/ p = HPA(x)
                   \/ p = Deployment(x) \/ p = Service(x)
        BY <2>3, OwnObjects DEF LandscaperObjects
      <3>2. p[2] = x /\ p[1] # "Namespace"
        BY <3>1, NamePairs
      <3> QED BY <2>3, <3>2
    <2> QED BY <2>1, <2>2, <2>3, OwnObjects
  <1>2. /\ MCPNamespace[1] = "Namespace" /\ MCPNamespace[2] = "mcp"
        /\ WorkloadNamespace[1] = "Namespace" /\ WorkloadNamespace[2] = "workload"
    BY DEF MCPNamespace, WorkloadNamespace
  <1>3. c = "rbac" => o = MCPNamespace
    BY <1>1
  <1>4. c # "rbac" => o[1] # "Namespace"
    BY <1>1
  <1>5. o # WorkloadNamespace /\ (o \in Namespaces <=> c = "rbac")
    BY <1>2, <1>3, <1>4 DEF Namespaces
  <1>6. ASSUME NEW d \in DOMAIN Own, o \in Own[d] PROVE d = c
    BY <1>1, <1>2, <1>6, OwnObjects
  <1> QED BY <1>5, <1>6

\* A list that writes exactly the objects in P, and maybe the namespace.
LEMMA BlockOf ==
    ASSUME NEW q, NEW c \in DOMAIN Own,
           \/ \A o : Has(q, Put(o)) <=> o \in Own[c]
           \/ \A o : Has(q, Put(o)) <=> o \in Own[c] \cup {WorkloadNamespace}
    PROVE  /\ Covers(q, PutsOf(c))
           /\ \A d \in DOMAIN Own \ {c} : Free(q, PutsOf(d))
  BY OwnDisjoint DEF Covers, Free, PutsOf

LEMMA BlockOfRemoves ==
    ASSUME NEW q, NEW c \in DOMAIN Own,
           \A o : Has(q, Remove(o)) <=> o \in Own[c]
    PROVE  /\ Covers(q, RemovesOf(c))
           /\ \A d \in DOMAIN Own \ {c} : Free(q, RemovesOf(d))
  BY OwnDisjoint DEF Covers, Free, RemovesOf

LEMMA DeployerWrites ==
    ASSUME NEW secrets, NEW s, s.secrets \in [Parts -> Seq(secrets)],
           NEW p \in {"manifest", "helm"}
    PROVE  \A o : Has(InstallDeployer(p, s), Put(o)) <=>
                      o \in Own[p] \cup {WorkloadNamespace}
  <1> DEFINE S == Writes(secrets)
             N == <<Put(WorkloadNamespace)>>
             C == CopySecrets(p, s)
             T == <<Put(Config(p)), Put(Kubeconfig(p)),
                    Put(HPA(p)), Put(Deployment(p))>>
  <1>1. N \in Seq(S) /\ T \in Seq(S)
    BY ObjectsKnown, PutKnown DEF ManifestObjects, HelmObjects
  <1>2. C \in Seq(S)
    BY SecretCalls DEF Parts
  <1>3. \A o : Has(N, Put(o)) <=> o = WorkloadNamespace
    <2>1. DOMAIN N = {1} /\ N[1] = Put(WorkloadNamespace)
      OBVIOUS
    <2> HIDE DEF N
    <2> QED BY <2>1, Distinct DEF Has
  <1>4. \A o : ~Has(C, Put(o))
    BY CopyCalls
  <1>5. \A o : Has(T, Put(o)) <=> o \in Own[p]
    <2>1. /\ DOMAIN T = {1, 2, 3, 4}
          /\ T[1] = Put(Config(p)) /\ T[2] = Put(Kubeconfig(p))
          /\ T[3] = Put(HPA(p)) /\ T[4] = Put(Deployment(p))
      OBVIOUS
    <2> HIDE DEF T
    <2>2. Own[p] = DeployerObjects(p)
      BY OwnObjects
    <2> QED BY <2>1, <2>2, Distinct DEF Has, DeployerObjects
  <1>6. InstallDeployer(p, s) = (N \o C) \o T
    BY DEF InstallDeployer
  <1> HIDE DEF N, C, T, S
  <1>7. N \o C \in Seq(S) /\ \A o : Has(N \o C, Put(o)) <=> o = WorkloadNamespace
    BY <1>1, <1>2, <1>3, <1>4, Joined, JoinedHas
  <1>8. \A o : Has((N \o C) \o T, Put(o)) <=> Has(N \o C, Put(o)) \/ Has(T, Put(o))
    BY <1>1, <1>7, JoinedHas
  <1> QED BY <1>5, <1>6, <1>7, <1>8

LEMMA LandscaperWritesAll ==
    \A o : Has(LandscaperWrites, Put(o)) <=> o \in LandscaperObjects
  <1> DEFINE T == LandscaperWrites
  <1>1. /\ DOMAIN T = 1 .. 12
        /\ T[1] = Put(Kubeconfig("controller mcp"))
        /\ T[2] = Put(Kubeconfig("controller workload"))
        /\ T[3] = Put(Kubeconfig("webhooks"))
        /\ T[4] = Put(Config("landscaper"))
        /\ T[5] = Put(Service("central")) /\ T[6] = Put(Service("webhooks"))
        /\ T[7] = Put(Deployment("central")) /\ T[8] = Put(Deployment("main"))
        /\ T[9] = Put(Deployment("webhooks")) /\ T[10] = Put(HPA("main"))
        /\ T[11] = Put(HPA("central")) /\ T[12] = Put(HPA("webhooks"))
    BY DEF LandscaperWrites
  <1>2. 1 .. 12 = {1, 2, 3, 4, 5, 6, 7, 8, 9, 10, 11, 12}
    OBVIOUS
  <1> HIDE DEF T
  <1>3. \A a : Has(T, a) <=> a \in {T[1], T[2], T[3], T[4], T[5], T[6], T[7], T[8],
                                    T[9], T[10], T[11], T[12]}
    BY <1>1, <1>2 DEF Has
  <1>4. {T[1], T[2], T[3], T[4], T[5], T[6], T[7], T[8], T[9], T[10], T[11], T[12]}
            = {Put(o) : o \in LandscaperObjects}
    BY <1>1 DEF LandscaperObjects
  <1>5. \A o : Put(o) \in {Put(x) : x \in LandscaperObjects} <=> o \in LandscaperObjects
    BY Distinct
  <1> QED BY <1>3, <1>4, <1>5 DEF T

LEMMA LandscaperRemovesAll ==
    \A o : Has(LandscaperRemoves, Remove(o)) <=> o \in LandscaperObjects
  <1> DEFINE T == LandscaperRemoves
  <1>1. /\ DOMAIN T = 1 .. 12
        /\ T[1] = Remove(HPA("webhooks")) /\ T[2] = Remove(HPA("central"))
        /\ T[3] = Remove(HPA("main")) /\ T[4] = Remove(Deployment("webhooks"))
        /\ T[5] = Remove(Deployment("main")) /\ T[6] = Remove(Deployment("central"))
        /\ T[7] = Remove(Service("webhooks")) /\ T[8] = Remove(Service("central"))
        /\ T[9] = Remove(Config("landscaper"))
        /\ T[10] = Remove(Kubeconfig("webhooks"))
        /\ T[11] = Remove(Kubeconfig("controller mcp"))
        /\ T[12] = Remove(Kubeconfig("controller workload"))
    BY DEF LandscaperRemoves
  <1>2. 1 .. 12 = {1, 2, 3, 4, 5, 6, 7, 8, 9, 10, 11, 12}
    OBVIOUS
  <1> HIDE DEF T
  <1>3. \A a : Has(T, a) <=> a \in {T[1], T[2], T[3], T[4], T[5], T[6], T[7], T[8],
                                    T[9], T[10], T[11], T[12]}
    BY <1>1, <1>2 DEF Has
  <1>4. {T[1], T[2], T[3], T[4], T[5], T[6], T[7], T[8], T[9], T[10], T[11], T[12]}
            = {Remove(o) : o \in LandscaperObjects}
    BY <1>1 DEF LandscaperObjects
  <1>5. \A o : Remove(o) \in {Remove(x) : x \in LandscaperObjects}
                   <=> o \in LandscaperObjects
    BY Distinct
  <1> QED BY <1>3, <1>4, <1>5 DEF T

\* An installation writes all objects of a component before any of the next.
LEMMA InstalledByComponent ==
    ASSUME NEW secrets, NEW s, s.secrets \in [Parts -> Seq(secrets)]
    PROVE  /\ \A c \in DOMAIN Own : Covers(InstallLandscaperInstance(s), PutsOf(c))
           /\ \A i, j \in DOMAIN InOrder : i < j =>
                  AllBefore(InstallLandscaperInstance(s),
                            PutsOf(InOrder[i]), PutsOf(InOrder[j]))
  <1> DEFINE S == Writes(secrets)
             R == InstallLandscaperRBACResources
             M == InstallDeployer("manifest", s)
             H == InstallDeployer("helm", s)
             L == InstallLandscaper(s)
             Q == ((R \o M) \o H) \o L
  <1>1. R \in Seq(S)
    BY ObjectsKnown, PutKnown DEF InstallLandscaperRBACResources
  <1>2. M \in Seq(S) /\ H \in Seq(S) /\ L \in Seq(S)
    BY DeployerInstalled, LandscaperInstalled
  <1>3. \A o : Has(R, Put(o)) <=> o \in Own["rbac"]
    <2>1. DOMAIN R = {1} /\ R[1] = Put(MCPNamespace)
      BY DEF InstallLandscaperRBACResources
    <2> HIDE DEF R
    <2> QED BY <2>1, OwnObjects, Distinct DEF Has
  <1>4. /\ \A o : Has(M, Put(o)) <=> o \in Own["manifest"] \cup {WorkloadNamespace}
        /\ \A o : Has(H, Put(o)) <=> o \in Own["helm"] \cup {WorkloadNamespace}
    BY DeployerWrites
  <1>5. \A o : Has(L, Put(o)) <=> o \in Own["landscaper"] \cup {WorkloadNamespace}
    <2> DEFINE N == <<Put(WorkloadNamespace)>>
               A == CopySecrets("main", s)
               B == CopySecrets("central", s)
               C == CopySecrets("webhooks", s)
               T == LandscaperWrites
               NA == N \o A
               NAB == NA \o B
               NABC == NAB \o C
    <2>1. N \in Seq(S) /\ T \in Seq(S)
      BY ObjectsKnown, PutKnown, LandscaperWritten
    <2>2. A \in Seq(S) /\ B \in Seq(S) /\ C \in Seq(S)
      BY SecretCalls DEF Parts
    <2>3. \A o : ~Has(A, Put(o)) /\ ~Has(B, Put(o)) /\ ~Has(C, Put(o))
      BY CopyCalls
    <2>4. \A o : Has(N, Put(o)) <=> o = WorkloadNamespace
      <3>1. DOMAIN N = {1} /\ N[1] = Put(WorkloadNamespace)
        OBVIOUS
      <3> HIDE DEF N
      <3> QED BY <3>1, Distinct DEF Has
    <2>5. L = NABC \o T
      BY DEF InstallLandscaper, LandscaperWrites
    <2>6. \A o : Has(T, Put(o)) <=> o \in Own["landscaper"]
      BY LandscaperWritesAll, OwnObjects
    <2> HIDE DEF N, A, B, C, T, S, L
    <2>7. NA \in Seq(S) /\ NAB \in Seq(S) /\ NABC \in Seq(S)
      BY <2>1, <2>2, Joined
    <2>8. \A o : Has(NA, Put(o)) <=> o = WorkloadNamespace
      BY <2>1, <2>2, <2>3, <2>4, JoinedHas
    <2> HIDE DEF NA
    <2>9. \A o : Has(NAB, Put(o)) <=> o = WorkloadNamespace
      BY <2>2, <2>3, <2>7, <2>8, JoinedHas
    <2> HIDE DEF NAB
    <2>10. \A o : Has(NABC, Put(o)) <=> o = WorkloadNamespace
      BY <2>2, <2>3, <2>7, <2>9, JoinedHas
    <2> HIDE DEF NABC
    <2>11. \A o : Has(NABC \o T, Put(o)) <=> Has(NABC, Put(o)) \/ Has(T, Put(o))
      BY <2>1, <2>7, JoinedHas
    <2> QED BY <2>5, <2>6, <2>10, <2>11
  <1>6. InstallLandscaperInstance(s) = Q
    BY DeployersInstalled DEF InstallLandscaperInstance
  <1> HIDE DEF R, M, H, L, S
  <1>7. /\ Covers(R, PutsOf("rbac"))
        /\ \A d \in DOMAIN Own \ {"rbac"} : Free(R, PutsOf(d))
    BY <1>3, OwnObjects, BlockOf
  <1>8. /\ Covers(M, PutsOf("manifest"))
        /\ \A d \in DOMAIN Own \ {"manifest"} : Free(M, PutsOf(d))
    BY <1>4, OwnObjects, BlockOf
  <1>9. /\ Covers(H, PutsOf("helm"))
        /\ \A d \in DOMAIN Own \ {"helm"} : Free(H, PutsOf(d))
    BY <1>4, OwnObjects, BlockOf
  <1>10. Covers(L, PutsOf("landscaper"))
    BY <1>5, OwnObjects, BlockOf
  <1>11. /\ Covers(Q, PutsOf("rbac")) /\ Covers(Q, PutsOf("manifest"))
         /\ Covers(Q, PutsOf("helm")) /\ Covers(Q, PutsOf("landscaper"))
         /\ AllBefore(Q, PutsOf("rbac"), PutsOf("manifest"))
         /\ AllBefore(Q, PutsOf("rbac"), PutsOf("helm"))
         /\ AllBefore(Q, PutsOf("rbac"), PutsOf("landscaper"))
         /\ AllBefore(Q, PutsOf("manifest"), PutsOf("helm"))
         /\ AllBefore(Q, PutsOf("manifest"), PutsOf("landscaper"))
         /\ AllBefore(Q, PutsOf("helm"), PutsOf("landscaper"))
    BY <1>1, <1>2, <1>7, <1>8, <1>9, <1>10, OwnObjects, FourBlocks
  <1> HIDE DEF Q
  <1> QED BY <1>6, <1>11, OwnObjects DEF InOrder

LEMMA DeployerRemoves ==
    ASSUME NEW secrets, NEW s, s.secrets \in [Parts -> Seq(secrets)],
           NEW p \in {"manifest", "helm"}
    PROVE  \A o : Has(UninstallDeployer(p, s), Remove(o)) <=> o \in Own[p]
  <1> DEFINE S == Deletes(secrets)
             W == RemoveDeployer(p)
             C == UncopySecrets(p, s)
  <1>1. W \in Seq(S) /\ C \in Seq(S)
    BY DeployerRemoved, SecretCalls DEF Parts
  <1>2. \A o : Has(W, Remove(o)) <=> o \in Own[p]
    <2>1. /\ DOMAIN W = {1, 2, 3, 4}
          /\ W[1] = Remove(Deployment(p)) /\ W[2] = Remove(HPA(p))
          /\ W[3] = Remove(Kubeconfig(p)) /\ W[4] = Remove(Config(p))
      BY DEF RemoveDeployer
    <2> HIDE DEF W
    <2>2. Own[p] = DeployerObjects(p)
      BY OwnObjects
    <2> QED BY <2>1, <2>2, Distinct DEF Has, DeployerObjects
  <1>3. \A o : ~Has(C, Remove(o))
    BY UncopyCalls
  <1>4. UninstallDeployer(p, s) = W \o C
    BY DEF UninstallDeployer
  <1> HIDE DEF W, C, S
  <1>5. \A o : Has(W \o C, Remove(o)) <=> Has(W, Remove(o)) \/ Has(C, Remove(o))
    BY <1>1, JoinedHas
  <1> QED BY <1>2, <1>3, <1>4, <1>5

\* An uninstallation deletes all objects of a component before any of the one
\* that was installed before it.
LEMMA UninstalledByComponent ==
    ASSUME NEW secrets, NEW s, s.secrets \in [Parts -> Seq(secrets)]
    PROVE  /\ \A c \in DOMAIN Own : Covers(UninstallLandscaperInstance(s), RemovesOf(c))
           /\ \A i, j \in DOMAIN InOrder : i < j =>
                  AllBefore(UninstallLandscaperInstance(s),
                            RemovesOf(InOrder[j]), RemovesOf(InOrder[i]))
  <1> DEFINE S == Deletes(secrets)
             U == UninstallLandscaper(s)
             H == UninstallDeployer("helm", s)
             M == UninstallDeployer("manifest", s)
             R == UninstallLandscaperRBACResources
             Q == ((U \o H) \o M) \o R
  <1>1. R \in Seq(S)
    BY ObjectsKnown, PutKnown DEF UninstallLandscaperRBACResources
  <1>2. M \in Seq(S) /\ H \in Seq(S) /\ U \in Seq(S)
    BY DeployerUninstalled, LandscaperUninstalled
  <1>3. \A o : Has(R, Remove(o)) <=> o \in Own["rbac"]
    <2>1. DOMAIN R = {1} /\ R[1] = Remove(MCPNamespace)
      BY DEF UninstallLandscaperRBACResources
    <2> HIDE DEF R
    <2> QED BY <2>1, OwnObjects, Distinct DEF Has
  <1>4. /\ \A o : Has(M, Remove(o)) <=> o \in Own["manifest"]
        /\ \A o : Has(H, Remove(o)) <=> o \in Own["helm"]
    BY DeployerRemoves
  <1>5. \A o : Has(U, Remove(o)) <=> o \in Own["landscaper"]
    <2> DEFINE W == LandscaperRemoves
               A == UncopySecrets("main", s)
               B == UncopySecrets("central", s)
               C == UncopySecrets("webhooks", s)
               WA == W \o A
               WAB == WA \o B
               WABC == WAB \o C
    <2>1. W \in Seq(S)
      BY LandscaperRemoved
    <2>2. A \in Seq(S) /\ B \in Seq(S) /\ C \in Seq(S)
      BY SecretCalls DEF Parts
    <2>3. \A o : ~Has(A, Remove(o)) /\ ~Has(B, Remove(o)) /\ ~Has(C, Remove(o))
      BY UncopyCalls
    <2>4. \A o : Has(W, Remove(o)) <=> o \in Own["landscaper"]
      BY LandscaperRemovesAll, OwnObjects
    <2>5. U = WABC
      BY DEF UninstallLandscaper, LandscaperRemoves
    <2> HIDE DEF W, A, B, C, S, U
    <2>6. WA \in Seq(S) /\ WAB \in Seq(S)
      BY <2>1, <2>2, Joined
    <2>7. \A o : Has(WA, Remove(o)) <=> o \in Own["landscaper"]
      BY <2>1, <2>2, <2>3, <2>4, JoinedHas
    <2> HIDE DEF WA
    <2>8. \A o : Has(WAB, Remove(o)) <=> o \in Own["landscaper"]
      BY <2>2, <2>3, <2>6, <2>7, JoinedHas
    <2> HIDE DEF WAB
    <2>9. \A o : Has(WABC, Remove(o)) <=> o \in Own["landscaper"]
      BY <2>2, <2>3, <2>6, <2>8, JoinedHas
    <2> QED BY <2>5, <2>9
  <1>6. UninstallLandscaperInstance(s) = Q
    BY DEF UninstallLandscaperInstance, UninstallHelmDeployer, RemoveHelmDeployer,
           UninstallManifestDeployer, UninstallDeployer, RemoveDeployer
  <1> HIDE DEF R, M, H, U, S
  <1>7. /\ Covers(U, RemovesOf("landscaper"))
        /\ \A d \in DOMAIN Own \ {"landscaper"} : Free(U, RemovesOf(d))
    BY <1>5, OwnObjects, BlockOfRemoves
  <1>8. /\ Covers(H, RemovesOf("helm"))
        /\ \A d \in DOMAIN Own \ {"helm"} : Free(H, RemovesOf(d))
    BY <1>4, OwnObjects, BlockOfRemoves
  <1>9. /\ Covers(M, RemovesOf("manifest"))
        /\ \A d \in DOMAIN Own \ {"manifest"} : Free(M, RemovesOf(d))
    BY <1>4, OwnObjects, BlockOfRemoves
  <1>10. Covers(R, RemovesOf("rbac"))
    BY <1>3, OwnObjects, BlockOfRemoves
  <1>11. /\ Covers(Q, RemovesOf("landscaper")) /\ Covers(Q, RemovesOf("helm"))
         /\ Covers(Q, RemovesOf("manifest")) /\ Covers(Q, RemovesOf("rbac"))
         /\ AllBefore(Q, RemovesOf("landscaper"), RemovesOf("helm"))
         /\ AllBefore(Q, RemovesOf("landscaper"), RemovesOf("manifest"))
         /\ AllBefore(Q, RemovesOf("landscaper"), RemovesOf("rbac"))
         /\ AllBefore(Q, RemovesOf("helm"), RemovesOf("manifest"))
         /\ AllBefore(Q, RemovesOf("helm"), RemovesOf("rbac"))
         /\ AllBefore(Q, RemovesOf("manifest"), RemovesOf("rbac"))
    BY <1>1, <1>2, <1>7, <1>8, <1>9, <1>10, OwnObjects, FourBlocks
  <1> HIDE DEF Q
  <1> QED BY <1>6, <1>11, OwnObjects DEF InOrder
=============================================================================
