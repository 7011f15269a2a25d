--------------------------- MODULE InstallerProofs ---------------------------
(***************************************************************************)
(* The installer never leaves a deployment without its inputs, and its     *)
(* calls implement the installation component by component, for all        *)
(* settings, pull secrets, failures and crashes.  Both follow from the     *)
(* order of the calls (InstanceObjectsProofs) and from what an operation   *)
(* has done when it is at its n-th call.                                   *)
(***************************************************************************)
EXTENDS Installer, InstanceObjectsProofs

LEMMA CallsKnown ==
    ASSUME op \in {"none", "install", "uninstall"}, used \in SettingsValues
    PROVE  /\ used.version \in Versions
           /\ used.secrets \in [Parts -> Seq(Secrets)]
           /\ op = "none" => Calls = <<>>
           /\ op = "install" => /\ Calls = InstallLandscaperInstance(used)
                                /\ Calls \in Seq(Writes(Secrets))
           /\ op = "uninstall" => /\ Calls = UninstallLandscaperInstance(used)
                                  /\ Calls \in Seq(Deletes(Secrets))
  <1>1. used.version \in Versions /\ used.secrets \in [Parts -> Seq(Secrets)]
    BY SettingsAssumption
  <1>2. op = "none" => Calls = <<>>
    BY DEF Calls
  <1>3. op = "install" => Calls = InstallLandscaperInstance(used)
    BY DEF Calls, CallsOf
  <1>4. op = "uninstall" => Calls = UninstallLandscaperInstance(used)
    BY DEF Calls, CallsOf
  <1>5. /\ InstallLandscaperInstance(used) \in Seq(Writes(Secrets))
        /\ UninstallLandscaperInstance(used) \in Seq(Deletes(Secrets))
    BY <1>1, InstalledInOrder, UninstalledInOrder
  <1> QED BY <1>1, <1>2, <1>3, <1>4, <1>5

\* What kind of call the next one is tells which operation is running.
LEMMA NextCall ==
    ASSUME op \in {"none", "install", "uninstall"}, used \in SettingsValues,
           at \in Nat \ {0}, op # "none", at <= Len(Calls)
    PROVE  /\ at \in DOMAIN Calls
           /\ op \in {"install", "uninstall"}
           /\ op = "install" =>
                 \/ \E o \in Objects : Calls[at] = Put(o)
                 \/ \E part \in Parts, s \in Secrets : Calls[at] = Copy(part, s)
           /\ op = "uninstall" =>
                 \/ \E o \in Objects : Calls[at] = Remove(o)
                 \/ \E part \in Parts, s \in Secrets : Calls[at] = Uncopy(part, s)
  <1>1. op \in {"install", "uninstall"}
    OBVIOUS
  <1>2. CASE op = "install"
    <2>1. Calls \in Seq(Writes(Secrets))
      BY <1>2, CallsKnown
    <2>2. at \in DOMAIN Calls /\ Calls[at] \in Writes(Secrets)
      BY <2>1
    <2> QED BY <1>2, <2>2 DEF Writes, Put, Copy
  <1>3. CASE op = "uninstall"
    <2>1. Calls \in Seq(Deletes(Secrets))
      BY <1>3, CallsKnown
    <2>2. at \in DOMAIN Calls /\ Calls[at] \in Deletes(Secrets)
      BY <2>1
    <2> QED BY <1>3, <2>2 DEF Deletes, Remove, Uncopy
  <1> QED BY <1>1, <1>2, <1>3

-----------------------------------------------------------------------------
(* The invariant: the calls that are behind the operation have had their   *)
(* effect, and nothing has undone it.                                      *)

Written ==
    op = "install" =>
        \A i \in DOMAIN Calls : i < at =>
            /\ \A o \in Objects :
                   Calls[i] = Put(o) => objects[o] = Content(o, used.version)
            /\ \A part \in Parts, s \in Secrets :
                   Calls[i] = Copy(part, s) => copies[part][s] # "absent"

Removed ==
    op = "uninstall" =>
        \A i \in DOMAIN Calls : i < at =>
            \A o \in Objects : Calls[i] = Remove(o) => objects[o] = "absent"

InstallerInv == TypeOK /\ Written /\ Removed /\ DeploymentsHaveTheirInputs

LEMMA InputsAreObjects ==
    /\ \A part \in Parts : Deployment(part) \in Objects
    /\ \A part \in Parts : Inputs[part] \subseteq Objects
    /\ \A part \in Parts : \A o \in Inputs[part], p \in Parts : o # Deployment(p)
  <1>1. \A part \in Parts : Deployment(part) \in Objects
    BY ObjectsKnown DEF Parts, ManifestObjects, HelmObjects, LandscaperObjects
  <1>2. ASSUME NEW part \in Parts
        PROVE  /\ Inputs[part] \subseteq Objects
               /\ \A o \in Inputs[part], p \in Parts : o # Deployment(p)
    <2>1. CASE part = "manifest"
      BY <2>1, InputsOf, DistinctInputs, ObjectsKnown DEF ManifestObjects
    <2>2. CASE part = "helm"
      BY <2>2, InputsOf, DistinctInputs, ObjectsKnown DEF HelmObjects
    <2>3. CASE part \in {"main", "central", "webhooks"}
      <3>1. /\ Config("landscaper") \in Objects
            /\ Kubeconfig("controller mcp") \in Objects
            /\ Kubeconfig("controller workload") \in Objects
        BY ObjectsKnown DEF LandscaperObjects
      <3>2. Inputs[part] \subseteq
                {Config("landscaper"), Kubeconfig("controller mcp"),
                 Kubeconfig("controller workload")}
        BY <2>3, InputsOf
      <3>3. Inputs[part] \subseteq Objects
        BY <3>1, <3>2
      <3>4. ASSUME NEW o \in Inputs[part], NEW p \in Parts PROVE o # Deployment(p)
        <4>1. o = Config("landscaper") \/ o = Kubeconfig("controller mcp")
                  \/ o = Kubeconfig("controller workload")
          BY <3>2
        <4> QED BY <4>1, DistinctInputs
      <3> QED BY <3>3, <3>4
    <2> QED BY <2>1, <2>2, <2>3 DEF Parts
  <1> QED BY <1>1, <1>2

LEMMA InitInstaller == Init => InstallerInv
  <1> SUFFICES ASSUME Init PROVE InstallerInv
    OBVIOUS
  <1>1. TypeOK
    <2>1. /\ objects \in [Objects -> Versions \cup {"absent", "present"}]
          /\ refs \in [Parts -> SUBSET Secrets]
          /\ sources \in [Secrets -> Contents \cup {"absent"}]
      BY DEF Init
    <2>2. copies \in [Parts -> [Secrets -> Contents \cup {"absent"}]]
      BY DEF Init
    <2>3. /\ wanted = "install" /\ settings \in SettingsValues /\ op = "none"
          /\ used \in SettingsValues /\ at \in Nat \ {0}
          /\ done \in {"none", "install", "uninstall"}
      <3>1. /\ wanted = "install" /\ settings \in SettingsValues /\ op = "none"
            /\ used = settings /\ at = 1 /\ done = "none"
        BY Zenon DEF Init
      <3>2. at \in Nat \ {0}
        BY <3>1
      <3>3. done \in {"none", "install", "uninstall"}
        BY <3>1
      <3> QED BY <3>1, <3>2, <3>3, Zenon
    <2>4. changes = MaxChanges /\ faults = MaxFaults
      BY DEF Init
    <2>5. MaxChanges \in Nat /\ MaxFaults \in Nat
      BY SettingsAssumption
    <2>6. op \in {"none", "install", "uninstall"} /\ wanted \in {"none", "install", "uninstall"}
      BY <2>3
    <2> QED BY <2>1, <2>2, <2>3, <2>4, <2>5, <2>6, Zenon DEF TypeOK
  <1>2. Written /\ Removed
    BY DEF Init, Written, Removed
  <1>3. DeploymentsHaveTheirInputs
    BY InputsAreObjects DEF Init, DeploymentsHaveTheirInputs
  <1> QED BY <1>1, <1>2, <1>3 DEF InstallerInv

\* A step that ends the operation, or starts one, and leaves the clusters alone.
LEMMA NothingBehind ==
    ASSUME InstallerInv, TypeOK', UNCHANGED clusters, op' = "none" \/ at' = 1
    PROVE  InstallerInv'
  <1>1. DeploymentsHaveTheirInputs'
    BY DEF InstallerInv, DeploymentsHaveTheirInputs, clusters
  <1>2. CASE op' = "none"
    BY <1>1, <1>2 DEF InstallerInv, Written, Removed
  <1>3. CASE at' = 1 /\ op' # "none"
    <2>1. op' = "install" => Calls' \in Seq(Writes(Secrets))
      BY CallsKnown, SettingsAssumption, InstalledInOrder DEF Calls, CallsOf, TypeOK
    <2>2. op' = "uninstall" => Calls' \in Seq(Deletes(Secrets))
      BY CallsKnown, SettingsAssumption, UninstalledInOrder DEF Calls, CallsOf, TypeOK
    <2>3. Written'
      BY <1>3, <2>1 DEF Written
    <2>4. Removed'
      BY <1>3, <2>2 DEF Removed
    <2> QED BY <1>1, <2>3, <2>4 DEF InstallerInv
  <1> QED BY <1>2, <1>3

\* What the calls that write and delete an object find.
LEMMA PutCall ==
    ASSUME InstallerInv, CreateOrUpdateResource
    PROVE  /\ op = "install" /\ used \in SettingsValues
           /\ at \in Nat \ {0} /\ at \in DOMAIN Calls
           /\ Calls[at].object \in Objects /\ Calls[at] = Put(Calls[at].object)
  <1>1. /\ op \in {"none", "install", "uninstall"} /\ used \in SettingsValues
        /\ at \in Nat \ {0} /\ op # "none" /\ at <= Len(Calls)
        /\ Calls[at].call = "put"
    BY DEF InstallerInv, TypeOK, CreateOrUpdateResource, NextCallIs
  <1>2. \A p, s : Copy(p, s).call = "copy" /\ Uncopy(p, s).call = "uncopy"
    BY DEF Copy, Uncopy
  <1>3. op # "uninstall"
    BY <1>1, <1>2, NextCall, Distinct
  <1>4. \E x \in Objects : Calls[at] = Put(x)
    BY <1>1, <1>2, <1>3, NextCall, Distinct
  <1> QED BY <1>1, <1>3, <1>4, NextCall, Distinct

LEMMA RemoveCall ==
    ASSUME InstallerInv, DeleteResource
    PROVE  /\ op = "uninstall" /\ used \in SettingsValues
           /\ at \in Nat \ {0} /\ at \in DOMAIN Calls
           /\ Calls[at].object \in Objects /\ Calls[at] = Remove(Calls[at].object)
  <1>1. /\ op \in {"none", "install", "uninstall"} /\ used \in SettingsValues
        /\ at \in Nat \ {0} /\ op # "none" /\ at <= Len(Calls)
        /\ Calls[at].call = "remove"
    BY DEF InstallerInv, TypeOK, DeleteResource, NextCallIs
  <1>2. \A p, s : Copy(p, s).call = "copy" /\ Uncopy(p, s).call = "uncopy"
    BY DEF Copy, Uncopy
  <1>3. op # "install"
    BY <1>1, <1>2, NextCall, Distinct
  <1>4. \E x \in Objects : Calls[at] = Remove(x)
    BY <1>1, <1>2, <1>3, NextCall, Distinct
  <1> QED BY <1>1, <1>3, <1>4, NextCall, Distinct

LEMMA PutStep ==
    ASSUME InstallerInv, CreateOrUpdateResource PROVE InstallerInv'
  <1> DEFINE o == Calls[at].object
  <1>1. op = "install" /\ used \in SettingsValues /\ at \in Nat \ {0}
    BY PutCall
  <1>2. /\ op = "install" /\ at \in DOMAIN Calls /\ o \in Objects /\ Calls[at] = Put(o)
        /\ Calls[at].call = "put"
    BY PutCall, Distinct
  <1>3. /\ Calls = InstallLandscaperInstance(used) /\ Calls \in Seq(Writes(Secrets))
        /\ used.version \in Versions /\ used.secrets \in [Parts -> Seq(Secrets)]
    BY <1>1, <1>2, CallsKnown
  <1>4. /\ objects' = [objects EXCEPT ![o] = Content(o, used.version)]
        /\ refs' = [part \in Parts |->
                      IF o = Deployment(part)
                      THEN {used.secrets[part][i] : i \in DOMAIN used.secrets[part]}
                      ELSE refs[part]]
        /\ at' = at + 1 /\ op' = op /\ used' = used /\ copies' = copies
    BY DEF CreateOrUpdateResource, Proceed
  <1>5. Content(o, used.version) \in (Versions \cup {"absent", "present"}) \ {"absent"}
    BY <1>3, SettingsAssumption DEF Content
  <1> DEFINE c == Content(o, used.version)
  <1> HIDE DEF c, o
  <1>6. TypeOK'
    <2>1. objects' \in [Objects -> Versions \cup {"absent", "present"}]
      BY <1>2, <1>4, <1>5 DEF InstallerInv, TypeOK, c
    <2>2. refs' \in [Parts -> SUBSET Secrets]
      BY <1>3, <1>4 DEF InstallerInv, TypeOK
    <2>3. UNCHANGED <<copies, sources, wanted, settings, op, used, done, changes, faults>>
      BY DEF CreateOrUpdateResource, Proceed, wishes
    <2> QED BY <1>4, <2>1, <2>2, <2>3 DEF InstallerInv, TypeOK
  <1>7. /\ objects'[o] = c /\ c # "absent"
        /\ \A x \in Objects : objects[x] # "absent" => objects'[x] # "absent"
        /\ \A x \in Objects : x # o => objects'[x] = objects[x]
    BY <1>2, <1>4, <1>5 DEF InstallerInv, TypeOK, c
  <1>8. Calls' = Calls
    BY <1>4 DEF Calls
  <1>9. Written'
    <2>1. ASSUME NEW i \in DOMAIN Calls, i < at + 1,
                 NEW x \in Objects, Calls[i] = Put(x)
          PROVE  objects'[x] = Content(x, used.version)
      <3>1. CASE x = o
        BY <1>7, <3>1 DEF c
      <3>2. CASE x # o
        <4>1. Calls[i] # Calls[at]
          BY <1>2, <2>1, <3>2, Distinct
        <4>2. i < at
          BY <1>1, <1>3, <2>1, <4>1
        <4>3. objects[x] = Content(x, used.version)
          BY <1>2, <2>1, <4>2 DEF InstallerInv, Written
        <4> QED BY <1>7, <3>2, <4>3
      <3> QED BY <3>1, <3>2
    <2>2. ASSUME NEW i \in DOMAIN Calls, i < at + 1,
                 NEW part \in Parts, NEW s \in Secrets, Calls[i] = Copy(part, s)
          PROVE  copies'[part][s] # "absent"
      <3>1. i # at
        BY <1>2, <2>2 DEF Copy
      <3>2. i < at
        BY <1>1, <1>3, <2>2, <3>1
      <3> QED BY <1>2, <1>4, <2>2, <3>2 DEF InstallerInv, Written
    <2> QED BY <1>4, <1>8, <2>1, <2>2 DEF Written
  <1>10. Removed'
    BY <1>2, <1>4 DEF Removed
  <1>11. DeploymentsHaveTheirInputs'
    <2> SUFFICES ASSUME NEW part \in Parts, objects'[Deployment(part)] # "absent"
                 PROVE  /\ \A x \in Inputs[part] : objects'[x] # "absent"
                        /\ \A s \in refs'[part] : copies'[part][s] # "absent"
      BY DEF DeploymentsHaveTheirInputs
    <2>1. CASE o = Deployment(part)
      <3>1. ASSUME NEW x \in Inputs[part] PROVE objects'[x] # "absent"
        <4>1. PICK j \in DOMAIN Calls : j < at /\ Calls[j] = Put(x)
          <5>1. Before(Calls, Put(x), Put(Deployment(part)))
            BY <1>3, InstalledInOrder DEF InputsFirst
          <5> QED BY <1>2, <2>1, <5>1 DEF Before
        <4>2. x \in Objects
          BY InputsAreObjects
        <4>3. objects[x] = Content(x, used.version)
          BY <1>2, <4>1, <4>2 DEF InstallerInv, Written
        <4>4. objects[x] # "absent"
          BY <1>3, <4>3, SettingsAssumption DEF Content
        <4> QED BY <1>7, <4>2, <4>4
      <3>2. ASSUME NEW s \in refs'[part] PROVE copies'[part][s] # "absent"
        <4>1. PICK n \in DOMAIN used.secrets[part] : s = used.secrets[part][n]
          BY <1>4, <2>1, <3>2
        <4>2. PICK j \in DOMAIN Calls : j < at /\ Calls[j] = Copy(part, s)
          <5>1. Before(Calls, Copy(part, s), Put(Deployment(part)))
            BY <1>3, <4>1, InstalledInOrder DEF CopiesFirst
          <5> QED BY <1>2, <2>1, <5>1 DEF Before
        <4>3. s \in Secrets
          BY <1>3, <4>1
        <4> QED BY <1>2, <1>4, <4>2, <4>3 DEF InstallerInv, Written
      <3> QED BY <3>1, <3>2
    <2>2. CASE o # Deployment(part)
      <3>1. objects[Deployment(part)] # "absent" /\ refs'[part] = refs[part]
        BY <1>4, <1>7, <2>2, InputsAreObjects
      <3>2. /\ \A x \in Inputs[part] : objects[x] # "absent"
            /\ \A s \in refs[part] : copies[part][s] # "absent"
        BY <3>1 DEF InstallerInv, DeploymentsHaveTheirInputs
      <3> QED BY <1>4, <1>7, <3>1, <3>2, InputsAreObjects
    <2> QED BY <2>1, <2>2
  <1> QED BY <1>6, <1>9, <1>10, <1>11 DEF InstallerInv

LEMMA RemoveStep ==
    ASSUME InstallerInv, DeleteResource PROVE InstallerInv'
  <1> DEFINE o == Calls[at].object
  <1>1. op = "uninstall" /\ used \in SettingsValues /\ at \in Nat \ {0}
    BY RemoveCall
  <1>2. /\ op = "uninstall" /\ at \in DOMAIN Calls /\ o \in Objects
        /\ Calls[at] = Remove(o)
    BY RemoveCall
  <1>3. /\ Calls = UninstallLandscaperInstance(used) /\ Calls \in Seq(Deletes(Secrets))
        /\ used.secrets \in [Parts -> Seq(Secrets)]
    BY <1>1, <1>2, CallsKnown
  <1>4. /\ objects' = [objects EXCEPT ![o] = "absent"]
        /\ refs' = [part \in Parts |->
                      IF o = Deployment(part) THEN {} ELSE refs[part]]
        /\ at' = at + 1 /\ op' = op /\ used' = used /\ copies' = copies
    BY DEF DeleteResource, Proceed
  <1> HIDE DEF o
  <1>5. TypeOK'
    <2>1. objects' \in [Objects -> Versions \cup {"absent", "present"}]
      BY <1>2, <1>4 DEF InstallerInv, TypeOK
    <2>2. refs' \in [Parts -> SUBSET Secrets]
      BY <1>4 DEF InstallerInv, TypeOK
    <2>3. UNCHANGED <<copies, sources, wanted, settings, op, used, done, changes, faults>>
      BY DEF DeleteResource, Proceed, wishes
    <2> QED BY <1>4, <2>1, <2>2, <2>3 DEF InstallerInv, TypeOK
  <1>6. /\ objects'[o] = "absent"
        /\ \A x \in Objects : x # o => objects'[x] = objects[x]
    BY <1>2, <1>4 DEF InstallerInv, TypeOK
  <1>7. Calls' = Calls
    BY <1>4 DEF Calls
  <1>8. Written'
    BY <1>2, <1>4 DEF Written
  <1>9. Removed'
    <2>1. ASSUME NEW i \in DOMAIN Calls, i < at + 1,
                 NEW x \in Objects, Calls[i] = Remove(x)
          PROVE  objects'[x] = "absent"
      <3>1. CASE i < at
        BY <1>2, <1>6, <2>1, <3>1 DEF InstallerInv, Removed
      <3>2. CASE i = at
        <4>1. Remove(o) = Remove(x)
          BY <1>2, <2>1, <3>2
        <4>2. o = x
          BY <4>1, Distinct
        <4> QED BY <1>6, <4>2
      <3> QED BY <1>1, <1>3, <2>1, <3>1, <3>2
    <2> QED BY <1>4, <1>7, <2>1 DEF Removed
  <1>10. DeploymentsHaveTheirInputs'
    <2> SUFFICES ASSUME NEW part \in Parts, objects'[Deployment(part)] # "absent"
                 PROVE  /\ \A x \in Inputs[part] : objects'[x] # "absent"
                        /\ \A s \in refs'[part] : copies'[part][s] # "absent"
      BY DEF DeploymentsHaveTheirInputs
    <2>1. o # Deployment(part) /\ objects[Deployment(part)] # "absent"
      BY <1>6, InputsAreObjects
    <2>2. /\ \A x \in Inputs[part] : objects[x] # "absent"
          /\ \A s \in refs[part] : copies[part][s] # "absent"
      BY <2>1 DEF InstallerInv, DeploymentsHaveTheirInputs
    <2>3. o \notin Inputs[part]
      <3> SUFFICES ASSUME o \in Inputs[part] PROVE FALSE
        OBVIOUS
      <3>1. Before(Calls, Remove(Deployment(part)), Remove(o))
        BY <1>3, UninstalledInOrder DEF DeploymentFirst
      <3>2. PICK j \in DOMAIN Calls : j < at /\ Calls[j] = Remove(Deployment(part))
        BY <1>2, <3>1 DEF Before
      <3>3. objects[Deployment(part)] = "absent"
        BY <1>2, <3>2, InputsAreObjects DEF InstallerInv, Removed
      <3> QED BY <2>1, <3>3
    <2> QED BY <1>4, <1>6, <2>1, <2>2, <2>3, InputsAreObjects
  <1> QED BY <1>5, <1>8, <1>9, <1>10 DEF InstallerInv

LEMMA CopyStep ==
    ASSUME InstallerInv, CopySecret PROVE InstallerInv'
  <1> DEFINE part == Calls[at].object[1]
             s == Calls[at].object[2]
  <1>1. /\ op \in {"none", "install", "uninstall"} /\ used \in SettingsValues
        /\ at \in Nat \ {0} /\ op # "none" /\ at <= Len(Calls)
        /\ Calls[at].call = "copy"
    BY DEF InstallerInv, TypeOK, CopySecret, NextCallIs
  <1>2. /\ op = "install" /\ part \in Parts /\ s \in Secrets
        /\ Calls[at] = Copy(part, s)
    <2>1. \A p, x : Uncopy(p, x).call = "uncopy"
      BY DEF Uncopy
    <2>2. op # "uninstall"
      BY <1>1, <2>1, NextCall, Distinct
    <2>3. \E p \in Parts, x \in Secrets : Calls[at] = Copy(p, x)
      BY <1>1, <2>2, NextCall, Distinct
    <2>4. \A p, x : Copy(p, x).object[1] = p /\ Copy(p, x).object[2] = x
      BY DEF Copy
    <2> QED BY <1>1, <2>2, <2>3, <2>4
  <1>3. Calls \in Seq(Writes(Secrets))
    BY <1>1, <1>2, CallsKnown
  <1>4. /\ copies' = [copies EXCEPT ![part][s] = sources[s]]
        /\ sources[s] # "absent"
        /\ objects' = objects /\ refs' = refs
        /\ at' = at + 1 /\ op' = op /\ used' = used
    BY DEF CopySecret, CopyOf, SecretFound, Proceed
  <1> HIDE DEF part, s
  <1>5. sources[s] \in Contents \cup {"absent"}
    BY <1>2 DEF InstallerInv, TypeOK
  <1>6. TypeOK'
    <2>1. copies' \in [Parts -> [Secrets -> Contents \cup {"absent"}]]
      BY <1>2, <1>4, <1>5 DEF InstallerInv, TypeOK
    <2>2. UNCHANGED <<sources, wanted, settings, done, changes, faults>>
      BY DEF CopySecret, Proceed, wishes
    <2> QED BY <1>4, <2>1, <2>2 DEF InstallerInv, TypeOK
  <1>7. /\ copies'[part][s] # "absent"
        /\ \A p \in Parts, x \in Secrets :
               copies[p][x] # "absent" => copies'[p][x] # "absent"
    BY <1>2, <1>4 DEF InstallerInv, TypeOK
  <1>8. Calls' = Calls
    BY <1>4 DEF Calls
  <1>9. Written'
    <2>1. ASSUME NEW i \in DOMAIN Calls, i < at + 1,
                 NEW x \in Objects, Calls[i] = Put(x)
          PROVE  objects[x] = Content(x, used.version)
      <3>1. i # at
        BY <1>1, <2>1, Distinct
      <3>2. i < at
        BY <1>1, <1>3, <2>1, <3>1
      <3> QED BY <1>2, <2>1, <3>2 DEF InstallerInv, Written
    <2>2. ASSUME NEW i \in DOMAIN Calls, i < at + 1,
                 NEW p \in Parts, NEW x \in Secrets, Calls[i] = Copy(p, x)
          PROVE  copies'[p][x] # "absent"
      <3>1. CASE i < at
        BY <1>2, <1>7, <2>2, <3>1 DEF InstallerInv, Written
      <3>2. CASE i = at
        <4>1. p = part /\ x = s
          BY <1>2, <2>2, <3>2 DEF Copy
        <4> QED BY <1>7, <4>1
      <3> QED BY <1>1, <1>3, <2>2, <3>1, <3>2
    <2> QED BY <1>4, <1>8, <2>1, <2>2 DEF Written
  <1>10. Removed'
    BY <1>2, <1>4 DEF Removed
  <1>11. DeploymentsHaveTheirInputs'
    <2> SUFFICES ASSUME NEW p \in Parts, objects[Deployment(p)] # "absent"
                 PROVE  /\ \A x \in Inputs[p] : objects[x] # "absent"
                        /\ \A x \in refs[p] : copies'[p][x] # "absent"
      BY <1>4 DEF DeploymentsHaveTheirInputs
    <2>1. /\ \A x \in Inputs[p] : objects[x] # "absent"
          /\ \A x \in refs[p] : copies[p][x] # "absent"
      BY DEF InstallerInv, DeploymentsHaveTheirInputs
    <2>2. refs[p] \subseteq Secrets
      BY DEF InstallerInv, TypeOK
    <2> QED BY <1>7, <2>1, <2>2
  <1> QED BY <1>6, <1>9, <1>10, <1>11 DEF InstallerInv

\* The deletion of pull secrets, which deletes nothing: the operation goes on
\* to the next call, or, if the error is dropped, to the manifest deployer.
LEMMA UncopyStep ==
    ASSUME InstallerInv, TypeOK', op = "uninstall", at \in DOMAIN Calls,
           UNCHANGED <<clusters, op, used>>,
           at' \in Nat, \A j \in at .. at' - 1 : Calls[j].call = "uncopy"
    PROVE  InstallerInv'
  <1>1. Calls' = Calls /\ objects' = objects /\ op' = op
    BY DEF Calls, clusters
  <1>2. DeploymentsHaveTheirInputs'
    BY DEF InstallerInv, DeploymentsHaveTheirInputs, clusters
  <1>3. Written'
    BY <1>1 DEF Written
  <1>4. Calls \in Seq(Deletes(Secrets)) /\ at \in Nat
    BY CallsKnown DEF InstallerInv, TypeOK
  <1>5. Removed'
    <2>1. ASSUME NEW i \in DOMAIN Calls, i < at', NEW x \in Objects,
                 Calls[i] = Remove(x)
          PROVE  objects[x] = "absent"
      <3>1. i < at
        <4>1. i \notin at .. at' - 1
          BY <2>1, Distinct
        <4> QED BY <1>4, <2>1, <4>1
      <3> QED BY <2>1, <3>1 DEF InstallerInv, Removed
    <2> QED BY <1>1, <2>1 DEF Removed
  <1> QED BY <1>2, <1>3, <1>5 DEF InstallerInv

\* A dropped error only skips calls that would have deleted pull secrets.
LEMMA DroppedError ==
    ASSUME InstallerInv, ErrorIsDropped
    PROVE  /\ op = "uninstall" /\ at \in DOMAIN Calls
           /\ AfterHelm \in Nat \ {0}
           /\ \A j \in at .. AfterHelm - 1 : Calls[j].call = "uncopy"
  <1>1. /\ op \in {"none", "install", "uninstall"} /\ used \in SettingsValues
        /\ at \in Nat \ {0} /\ op # "none" /\ at <= Len(Calls)
        /\ Calls[at].call = "uncopy" /\ Calls[at].object[1] = "helm"
    BY DEF InstallerInv, TypeOK, ErrorIsDropped, NextCallIs
  <1>2. op = "uninstall" /\ at \in DOMAIN Calls
    <2>1. \A p, s : Copy(p, s).call = "copy"
      BY DEF Copy
    <2> QED BY <1>1, <2>1, NextCall, Distinct
  <1>3. Calls = UninstallLandscaperInstance(used) /\ used.secrets \in [Parts -> Seq(Secrets)]
    BY <1>1, <1>2, CallsKnown
  <1> QED BY <1>1, <1>2, <1>3, UninstalledInOrder DEF AfterHelm

LEMMA NextInstaller == InstallerInv /\ [Next]_vars => InstallerInv'
  <1> SUFFICES ASSUME InstallerInv, [Next]_vars PROVE InstallerInv'
    OBVIOUS
  <1> USE SettingsAssumption
  <1>1. CASE Start /\ faults' \in Nat
    <2>1. TypeOK'
      <3>1. UNCHANGED <<objects, refs, copies, sources, wanted, settings, changes>>
        BY <1>1 DEF Start, clusters, wishes
      <3>2. /\ op' \in {"none", "install", "uninstall"} /\ used' \in SettingsValues
            /\ at' = 1 /\ done' \in {"none", "install", "uninstall"}
            /\ faults' \in Nat
        BY <1>1 DEF Start, InstallerInv, TypeOK
      <3>3. at' \in Nat \ {0}
        BY <3>2
      <3> HIDE SettingsAssumption
      <3> QED BY <3>1, <3>2, <3>3 DEF InstallerInv, TypeOK
    <2> QED BY <1>1, <2>1, NothingBehind DEF Start
  <1>2. CASE Begin
    BY <1>1, <1>2 DEF Begin, InstallerInv, TypeOK
  <1>3. CASE BeginAgain
    BY <1>1, <1>3 DEF BeginAgain, InstallerInv, TypeOK
  <1>4. CASE CreateOrUpdateResource
    BY <1>4, PutStep
  <1>5. CASE DeleteResource
    BY <1>5, RemoveStep
  <1>6. CASE CopySecret
    BY <1>6, CopyStep
  <1>7. CASE UncopySecret
    <2>1. /\ op \in {"none", "install", "uninstall"} /\ used \in SettingsValues
          /\ at \in Nat \ {0} /\ op # "none" /\ at <= Len(Calls)
          /\ Calls[at].call = "uncopy"
      BY <1>7 DEF InstallerInv, TypeOK, UncopySecret, NextCallIs
    <2>2. op = "uninstall" /\ at \in DOMAIN Calls
      <3>1. \A p, s : Copy(p, s).call = "copy"
        BY DEF Copy
      <3> QED BY <2>1, <3>1, NextCall, Distinct
    <2>3. TypeOK' /\ at' = at + 1 /\ UNCHANGED <<clusters, op, used>>
      BY <1>7 DEF UncopySecret, Proceed, InstallerInv, TypeOK, clusters, wishes
    <2>4. at' \in Nat /\ \A j \in at .. at' - 1 : Calls[j].call = "uncopy"
      BY <2>1, <2>3
    <2> QED BY <2>2, <2>3, <2>4, UncopyStep
  <1>8. CASE Abandon /\ UNCHANGED <<clusters, wishes>> /\ faults' \in Nat
    <2>1. TypeOK'
      BY <1>8 DEF Abandon, InstallerInv, TypeOK, clusters, wishes
    <2> QED BY <1>8, <2>1, NothingBehind DEF Abandon
  <1>9. CASE /\ ErrorIsDropped /\ at' = AfterHelm /\ UNCHANGED <<op, used, done>>
             /\ UNCHANGED <<clusters, wishes>> /\ faults' \in Nat
    <2>1. /\ op = "uninstall" /\ at \in DOMAIN Calls
          /\ at' \in Nat \ {0}
          /\ \A j \in at .. at' - 1 : Calls[j].call = "uncopy"
      BY <1>9, DroppedError
    <2>2. TypeOK'
      BY <1>9, <2>1 DEF InstallerInv, TypeOK, clusters, wishes
    <2> QED BY <1>9, <2>1, <2>2, UncopyStep
  <1>10. CASE SecretFails
    BY <1>8, <1>9, <1>10 DEF SecretFails, InstallerInv, TypeOK
  <1>11. CASE CallFails
    BY <1>8, <1>9, <1>11 DEF CallFails, InstallerInv, TypeOK
  <1>12. CASE Crash
    BY <1>8, <1>12 DEF Crash, InstallerInv, TypeOK
  <1>13. CASE Succeed
    <2>1. TypeOK'
      BY <1>13 DEF Succeed, InstallerInv, TypeOK, clusters, wishes
    <2> QED BY <1>13, <2>1, NothingBehind DEF Succeed
  <1>14. CASE UNCHANGED <<clusters, job>> /\ TypeOK'
    <2>1. Calls' = Calls
      BY <1>14 DEF job, Calls
    <2> QED BY <1>14, <2>1 DEF clusters, job, InstallerInv, Written, Removed,
               DeploymentsHaveTheirInputs
  <1>15. CASE Environment
    <2>1. UNCHANGED <<clusters, job>>
      BY <1>15 DEF Environment, ChangeSettings, RequestUninstall, Release, Create,
         ChangeSecret
    <2>2. TypeOK'
      <3> USE DEF InstallerInv, TypeOK, clusters, job
      <3>1. CASE ChangeSettings BY <2>1, <3>1 DEF ChangeSettings, Change
      <3>2. CASE RequestUninstall BY <2>1, <3>2 DEF RequestUninstall, Change
      <3>3. CASE Release BY <2>1, <3>3 DEF Release
      <3>4. CASE Create BY <2>1, <3>4 DEF Create, Change
      <3>5. CASE ChangeSecret BY <2>1, <3>5 DEF ChangeSecret, Change
      <3> QED BY <1>15, <3>1, <3>2, <3>3, <3>4, <3>5 DEF Environment
    <2> QED BY <1>14, <2>1, <2>2
  <1>16. CASE UNCHANGED vars
    <2>1. TypeOK'
      BY <1>16 DEF vars, clusters, wishes, job, InstallerInv, TypeOK
    <2> QED BY <1>14, <1>16, <2>1 DEF vars
  <1> QED BY <1>2, <1>3, <1>4, <1>5, <1>6, <1>7, <1>10, <1>11, <1>12, <1>13, <1>15, <1>16
          DEF Next, Work

LEMMA InstallerInvCorrect == Spec => []InstallerInv
  BY InitInstaller, NextInstaller, PTL DEF Spec

(***************************************************************************)
(* The variables of the installer keep their types.                        *)
(***************************************************************************)
THEOREM InstallerTypeCorrect == Spec => []TypeOK
  <1>1. InstallerInv => TypeOK
    BY DEF InstallerInv
  <1> QED BY <1>1, InstallerInvCorrect, PTL

(***************************************************************************)
(* For all settings, pull secrets, failures and crashes: as long as a      *)
(* deployment exists, the secrets that its pods mount and the pull secret  *)
(* copies they refer to exist as well, whatever operation is under way or  *)
(* has been abandoned (internal/installer, the order of the calls).        *)
(***************************************************************************)
THEOREM InputsCorrect == Spec => []DeploymentsHaveTheirInputs
  <1>1. InstallerInv => DeploymentsHaveTheirInputs
    BY DEF InstallerInv
  <1> QED BY <1>1, InstallerInvCorrect, PTL
-----------------------------------------------------------------------------
(* The calls implement the installation, component after component.        *)

\* What the objects f say of component c, and of all of them.
ComponentOf(f, c) ==
    IF \A o \in Own[c] : f[o] = "absent" THEN "absent"
    ELSE IF \A o \in Own[c] : f[o] = "present" THEN "present"
    ELSE IF \E v \in Versions : \A o \in Own[c] : f[o] = v
         THEN CHOOSE v \in Versions : \A o \in Own[c] : f[o] = v
    ELSE "mixed"

ComponentsOf(f) == [c \in DOMAIN Own |-> ComponentOf(f, c)]

Values == Versions \cup {"absent", "present"}

\* One object of a component decides what the component can be.
LEMMA ComponentValue ==
    ASSUME NEW f, NEW c \in DOMAIN Own, NEW o \in Own[c], f[o] \in Values
    PROVE  ComponentOf(f, c) =
               IF \A p \in Own[c] : f[p] = f[o] THEN f[o] ELSE "mixed"
  <1>1. "absent" \notin Versions /\ "present" \notin Versions
    BY SettingsAssumption
  <1>2. CASE f[o] = "absent"
    BY <1>1, <1>2 DEF ComponentOf
  <1>3. CASE f[o] = "present"
    BY <1>1, <1>3 DEF ComponentOf
  <1>4. CASE f[o] \in Versions
    <2>1. f[o] # "absent" /\ f[o] # "present"
      BY <1>1, <1>4
    <2>2. \A v : (\A p \in Own[c] : f[p] = v) => v = f[o]
      OBVIOUS
    <2>3. CASE \A p \in Own[c] : f[p] = f[o]
      <3>1. \E v \in Versions : \A p \in Own[c] : f[p] = v
        BY <1>4, <2>3
      <3>2. (CHOOSE v \in Versions : \A p \in Own[c] : f[p] = v) = f[o]
        BY <2>2, <3>1
      <3> QED BY <2>1, <2>3, <3>1, <3>2 DEF ComponentOf
    <2>4. CASE ~ \A p \in Own[c] : f[p] = f[o]
      <3>1. ~ \E v \in Versions : \A p \in Own[c] : f[p] = v
        BY <2>2, <2>4
      <3> QED BY <2>1, <2>4, <3>1 DEF ComponentOf
    <2> QED BY <2>3, <2>4
  <1> QED BY <1>2, <1>3, <1>4 DEF Values

LEMMA OwnKnown ==
    /\ \A c \in DOMAIN Own : Own[c] # {} /\ Own[c] \subseteq Objects
    /\ WorkloadNamespace \in Objects
    /\ \A o \in Objects : o = WorkloadNamespace \/ \E c \in DOMAIN Own : o \in Own[c]
  <1>1. \A c \in DOMAIN Own : Own[c] # {}
    BY OwnObjects DEF DeployerObjects, LandscaperObjects
  <1> QED BY <1>1 DEF Objects

\* Only the component that an object belongs to changes with the object.
LEMMA OtherComponents ==
    ASSUME NEW f \in [Objects -> Values], NEW o \in Objects, NEW x \in Values,
           NEW d \in DOMAIN Own, o \notin Own[d]
    PROVE  ComponentOf([f EXCEPT ![o] = x], d) = ComponentOf(f, d)
  <1> DEFINE g == [f EXCEPT ![o] = x]
  <1>1. PICK p \in Own[d] : TRUE
    BY OwnKnown
  <1>2. \A q \in Own[d] : g[q] = f[q]
    BY OwnKnown
  <1>3. f[p] \in Values
    BY <1>1, OwnKnown
  <1> HIDE DEF g
  <1>4. ComponentOf(g, d) = IF \A q \in Own[d] : g[q] = g[p] THEN g[p] ELSE "mixed"
    BY <1>1, <1>2, <1>3, ComponentValue
  <1>5. ComponentOf(f, d) = IF \A q \in Own[d] : f[q] = f[p] THEN f[p] ELSE "mixed"
    BY <1>1, <1>3, ComponentValue
  <1>6. (\A q \in Own[d] : g[q] = g[p]) <=> (\A q \in Own[d] : f[q] = f[p])
    BY <1>1, <1>2
  <1> QED BY <1>1, <1>2, <1>4, <1>5, <1>6 DEF g

\* The workload namespace belongs to none.
LEMMA NoComponent ==
    ASSUME NEW f \in [Objects -> Values], NEW x \in Values
    PROVE  ComponentsOf([f EXCEPT ![WorkloadNamespace] = x]) = ComponentsOf(f)
  <1>1. ASSUME NEW d \in DOMAIN Own
        PROVE  ComponentOf([f EXCEPT ![WorkloadNamespace] = x], d) = ComponentOf(f, d)
    <2>1. WorkloadNamespace \notin Own[d]
      BY OwnDisjoint
    <2> QED BY <2>1, OwnKnown, OtherComponents
  <1> QED BY <1>1 DEF ComponentsOf

\* An object that gets the value its component is about to have.
LEMMA OneObject ==
    ASSUME NEW f \in [Objects -> Values], NEW c \in DOMAIN Own, NEW o \in Own[c],
           NEW x \in Values
    PROVE  \/ [f EXCEPT ![o] = x] = f
           \/ /\ ComponentOf(f, c) # x
              /\ ComponentsOf([f EXCEPT ![o] = x]) \in
                     {[ComponentsOf(f) EXCEPT ![c] = y] : y \in {"mixed", x}}
  <1> DEFINE g == [f EXCEPT ![o] = x]
  <1>1. o \in Objects /\ f[o] \in Values /\ g[o] = x /\ g[o] \in Values
    BY OwnKnown
  <1>2. "mixed" \notin Values
    BY SettingsAssumption DEF Values
  <1>3. CASE \A p \in Own[c] : f[p] = x
    BY <1>1, <1>3
  <1>4. CASE ~ \A p \in Own[c] : f[p] = x
    <2>1. ComponentOf(f, c) # x
      <3>1. ComponentOf(f, c) =
                IF \A p \in Own[c] : f[p] = f[o] THEN f[o] ELSE "mixed"
        BY <1>1, ComponentValue
      <3> QED BY <1>2, <1>4, <3>1
    <2>2. \A d \in DOMAIN Own : d # c => ComponentOf(g, d) = ComponentOf(f, d)
      <3> SUFFICES ASSUME NEW d \in DOMAIN Own, d # c
                   PROVE  ComponentOf(g, d) = ComponentOf(f, d)
        OBVIOUS
      <3>1. o \notin Own[d]
        BY OwnDisjoint
      <3> QED BY <1>1, <3>1, OtherComponents
    <2> HIDE DEF g
    <2>3. PICK y \in {"mixed", x} : ComponentOf(g, c) = y
      <3>1. ComponentOf(g, c) =
                IF \A p \in Own[c] : g[p] = g[o] THEN g[o] ELSE "mixed"
        BY <1>1, ComponentValue
      <3> QED BY <1>1, <3>1
    <2>4. ComponentsOf(g) = [ComponentsOf(f) EXCEPT ![c] = y]
      BY <2>2, <2>3 DEF ComponentsOf
    <2> QED BY <2>1, <2>3, <2>4 DEF g
  <1> QED BY <1>3, <1>4

\* A component all of whose objects have one value.
LEMMA WholeComponent ==
    ASSUME NEW f, NEW c \in DOMAIN Own, NEW x \in Values,
           \A o \in Own[c] : f[o] = x
    PROVE  ComponentOf(f, c) = x
  BY OwnKnown, ComponentValue
LEMMA AbstractComponents ==
    /\ Components!Components = DOMAIN Own
    /\ Components!InOrder = InOrder
    /\ DOMAIN InOrder = 1 .. 4
    /\ \A i \in 1 .. 4 : InOrder[i] \in DOMAIN Own
    /\ \A c \in DOMAIN Own : \E i \in 1 .. 4 : InOrder[i] = c
  <1>1. Components!InOrder = InOrder
    BY DEF Components!InOrder, InOrder
  <1>2. /\ DOMAIN InOrder = {1, 2, 3, 4} /\ 1 .. 4 = {1, 2, 3, 4}
        /\ InOrder[1] = "rbac" /\ InOrder[2] = "manifest"
        /\ InOrder[3] = "helm" /\ InOrder[4] = "landscaper"
    BY DEF InOrder
  <1>3. {InOrder[i] : i \in DOMAIN InOrder} = {"rbac", "manifest", "helm", "landscaper"}
    BY <1>2
  <1>4. Components!Components = {InOrder[i] : i \in DOMAIN InOrder}
    BY <1>1 DEF Components!Components
  <1> QED BY <1>1, <1>2, <1>3, <1>4, OwnObjects

LEMMA Mapped ==
    /\ [c \in DOMAIN Own |-> Component(c)] = ComponentsOf(objects)
    /\ [c \in DOMAIN Own |-> Component(c)]' = ComponentsOf(objects')
    /\ \A c \in DOMAIN Own : ComponentsOf(objects)[c] = ComponentOf(objects, c)
  BY DEF Component, ComponentsOf, ComponentOf

\* A step that the installation does not see.
LEMMA Unseen ==
    ASSUME UNCHANGED <<op, used, done>>, ComponentsOf(objects') = ComponentsOf(objects)
    PROVE  UNCHANGED Components!vars
  <1>1. [c \in DOMAIN Own |-> Component(c)]' = [c \in DOMAIN Own |-> Component(c)]
    BY Mapped
  <1> QED BY <1>1 DEF Components!vars

LEMMA MappedGoal ==
    ASSUME NEW c \in DOMAIN Own, NEW o \in Own[c]
    PROVE  /\ op = "install" => Components!Goal(c) = Content(o, used.version)
           /\ op = "uninstall" => Components!Goal(c) = "absent"
  BY OwnDisjoint DEF Components!Goal, Content

\* The components that have had their turn before c are where they should be.
LEMMA MappedTurn ==
    ASSUME InstallerInv, op \in {"install", "uninstall"},
           NEW i \in 1 .. 4,
           \A j \in 1 .. 4 : (IF op = "install" THEN j < i ELSE j > i) =>
               ComponentOf(objects, InOrder[j]) = Components!Goal(InOrder[j])
    PROVE  Components!Turn(InOrder[i])
  <1>1. \A j \in 1 .. 4 :
            ComponentOf(objects, InOrder[j]) =
                [c \in DOMAIN Own |-> Component(c)][InOrder[j]]
    BY Mapped, AbstractComponents
  <1> QED BY <1>1, AbstractComponents DEF Components!Turn

\* The call for an object of component InOrder[i], which gets the value x.
LEMMA MappedWork ==
    ASSUME InstallerInv, op \in {"install", "uninstall"},
           UNCHANGED <<op, used, done>>,
           NEW i \in 1 .. 4, NEW o \in Own[InOrder[i]],
           objects' = [objects EXCEPT ![o] = Components!Goal(InOrder[i])],
           Components!Goal(InOrder[i]) \in Values,
           \A j \in 1 .. 4 : (IF op = "install" THEN j < i ELSE j > i) =>
               ComponentOf(objects, InOrder[j]) = Components!Goal(InOrder[j])
    PROVE  [Components!Next]_(Components!vars)
  <1> DEFINE c == InOrder[i]
             x == Components!Goal(c)
  <1>1. c \in DOMAIN Own /\ o \in Own[c] /\ objects \in [Objects -> Values]
    BY AbstractComponents DEF InstallerInv, TypeOK, Values
  <1>2. Components!Turn(c)
    BY MappedTurn
  <1> HIDE DEF c
  <1>3. CASE objects' = objects
    BY <1>3, Unseen
  <1>4. CASE /\ ComponentOf(objects, c) # x
             /\ ComponentsOf(objects') \in
                    {[ComponentsOf(objects) EXCEPT ![c] = y] : y \in {"mixed", x}}
    <2>1. c \in Components!Components
      BY <1>1, AbstractComponents
    <2>2. [d \in DOMAIN Own |-> Component(d)][c] # Components!Goal(c)
      BY <1>1, <1>4, Mapped
    <2>3. [d \in DOMAIN Own |-> Component(d)]' \in
              {[[d \in DOMAIN Own |-> Component(d)] EXCEPT ![c] = y] :
                   y \in {"mixed", Components!Goal(c)}}
      BY <1>4, Mapped
    <2>4. Components!Work
      BY <1>2, <2>1, <2>2, <2>3 DEF Components!Work
    <2> QED BY <2>4 DEF Components!Next
  <1>5. x \in Values /\ objects' = [objects EXCEPT ![o] = x]
    BY DEF c
  <1> HIDE DEF x
  <1>6. \/ [objects EXCEPT ![o] = x] = objects
        \/ /\ ComponentOf(objects, c) # x
           /\ ComponentsOf([objects EXCEPT ![o] = x]) \in
                  {[ComponentsOf(objects) EXCEPT ![c] = y] : y \in {"mixed", x}}
    BY <1>1, <1>5, OneObject
  <1> QED BY <1>3, <1>4, <1>5, <1>6
LEMMA PutImplements ==
    ASSUME InstallerInv, CreateOrUpdateResource
    PROVE  [Components!Next]_(Components!vars)
  <1> DEFINE o == Calls[at].object
  <1>1. /\ op = "install" /\ used \in SettingsValues
        /\ at \in Nat \ {0} /\ at \in DOMAIN Calls
        /\ o \in Objects /\ Calls[at] = Put(o)
    BY PutCall
  <1>2. /\ objects' = [objects EXCEPT ![o] = Content(o, used.version)]
        /\ UNCHANGED <<op, used, done>>
    BY DEF CreateOrUpdateResource, Proceed
  <1>3. /\ Calls = InstallLandscaperInstance(used)
        /\ used.version \in Versions /\ used.secrets \in [Parts -> Seq(Secrets)]
    BY <1>1, CallsKnown
  <1>4. objects \in [Objects -> Values] /\ \A x : Content(x, used.version) \in Values
    BY <1>3 DEF InstallerInv, TypeOK, Values, Content
  <1> HIDE DEF o
  <1>5. CASE o = WorkloadNamespace
    <2>1. ComponentsOf(objects') = ComponentsOf(objects)
      BY <1>2, <1>4, <1>5, NoComponent
    <2> QED BY <1>2, <2>1, Unseen
  <1>6. CASE \E c \in DOMAIN Own : o \in Own[c]
    <2>1. PICK i \in 1 .. 4 : o \in Own[InOrder[i]]
      BY <1>6, AbstractComponents
    <2>2. Components!Goal(InOrder[i]) = Content(o, used.version)
      BY <1>1, <2>1, AbstractComponents, MappedGoal
    <2>3. ASSUME NEW j \in 1 .. 4, j < i
          PROVE  ComponentOf(objects, InOrder[j]) = Components!Goal(InOrder[j])
      <3> DEFINE d == InOrder[j]
      <3>1. d \in DOMAIN Own
        BY AbstractComponents
      <3>2. ASSUME NEW p \in Own[d]
            PROVE  /\ objects[p] = Content(p, used.version)
                   /\ Content(p, used.version) = Components!Goal(d)
        <4>1. AllBefore(Calls, PutsOf(d), PutsOf(InOrder[i]))
          BY <1>3, <2>3, InstalledByComponent, AbstractComponents
        <4>2. Before(Calls, Put(p), Put(o))
          BY <2>1, <3>2, <4>1 DEF AllBefore, PutsOf
        <4>3. PICK k \in DOMAIN Calls : k < at /\ Calls[k] = Put(p)
          BY <1>1, <4>2 DEF Before
        <4>4. p \in Objects
          BY <3>1, OwnKnown
        <4>5. objects[p] = Content(p, used.version)
          BY <1>1, <4>3, <4>4 DEF InstallerInv, Written
        <4> QED BY <1>1, <3>1, <4>5, MappedGoal
      <3> HIDE DEF d
      <3>3. Components!Goal(d) \in Values
        BY <1>4, <3>1, <3>2, OwnKnown
      <3>4. ComponentOf(objects, d) = Components!Goal(d)
        BY <3>1, <3>2, <3>3, WholeComponent
      <3> QED BY <3>4 DEF d
    <2> QED BY <1>1, <1>2, <1>4, <2>1, <2>2, <2>3, MappedWork
  <1> QED BY <1>1, <1>5, <1>6, OwnKnown

LEMMA RemoveImplements ==
    ASSUME InstallerInv, DeleteResource
    PROVE  [Components!Next]_(Components!vars)
  <1> DEFINE o == Calls[at].object
  <1>1. /\ op = "uninstall" /\ used \in SettingsValues
        /\ at \in Nat \ {0} /\ at \in DOMAIN Calls
        /\ o \in Objects /\ Calls[at] = Remove(o)
    BY RemoveCall
  <1>2. /\ objects' = [objects EXCEPT ![o] = "absent"]
        /\ UNCHANGED <<op, used, done>>
    BY DEF DeleteResource, Proceed
  <1>3. /\ Calls = UninstallLandscaperInstance(used)
        /\ used.secrets \in [Parts -> Seq(Secrets)]
    BY <1>1, CallsKnown
  <1>4. objects \in [Objects -> Values] /\ "absent" \in Values
    BY DEF InstallerInv, TypeOK, Values
  <1> HIDE DEF o
  <1>5. CASE o = WorkloadNamespace
    <2>1. ComponentsOf(objects') = ComponentsOf(objects)
      BY <1>2, <1>4, <1>5, NoComponent
    <2> QED BY <1>2, <2>1, Unseen
  <1>6. CASE \E c \in DOMAIN Own : o \in Own[c]
    <2>1. PICK i \in 1 .. 4 : o \in Own[InOrder[i]]
      BY <1>6, AbstractComponents
    <2>2. Components!Goal(InOrder[i]) = "absent"
      BY <1>1, <2>1, AbstractComponents, MappedGoal
    <2>3. ASSUME NEW j \in 1 .. 4, j > i
          PROVE  ComponentOf(objects, InOrder[j]) = Components!Goal(InOrder[j])
      <3> DEFINE d == InOrder[j]
      <3>1. d \in DOMAIN Own
        BY AbstractComponents
      <3>2. ASSUME NEW p \in Own[d] PROVE objects[p] = "absent"
        <4>1. AllBefore(Calls, RemovesOf(d), RemovesOf(InOrder[i]))
          BY <1>3, <2>3, UninstalledByComponent, AbstractComponents
        <4>2. Before(Calls, Remove(p), Remove(o))
          BY <2>1, <3>2, <4>1 DEF AllBefore, RemovesOf
        <4>3. PICK k \in DOMAIN Calls : k < at /\ Calls[k] = Remove(p)
          BY <1>1, <4>2 DEF Before
        <4>4. p \in Objects
          BY <3>1, OwnKnown
        <4> QED BY <1>1, <4>3, <4>4 DEF InstallerInv, Removed
      <3> HIDE DEF d
      <3>3. Components!Goal(d) = "absent"
        BY <1>1, <3>1, OwnKnown, MappedGoal
      <3>4. ComponentOf(objects, d) = "absent"
        BY <1>4, <3>1, <3>2, WholeComponent
      <3> QED BY <3>3, <3>4 DEF d
    <2> QED BY <1>1, <1>2, <1>4, <2>1, <2>2, <2>3, MappedWork
  <1> QED BY <1>1, <1>5, <1>6, OwnKnown

\* An operation that has made all its calls has brought every component where
\* it should be.
LEMMA SuccessImplements ==
    ASSUME InstallerInv, Succeed
    PROVE  Components!Succeed
  <1>1. /\ op \in {"install", "uninstall"} /\ used \in SettingsValues
        /\ at \in Nat /\ at > Len(Calls)
        /\ op' = "none" /\ done' = op /\ UNCHANGED <<objects, used>>
    BY DEF InstallerInv, TypeOK, Succeed, clusters
  <1>2. /\ used.version \in Versions /\ used.secrets \in [Parts -> Seq(Secrets)]
        /\ op = "install" => Calls = InstallLandscaperInstance(used)
        /\ op = "uninstall" => Calls = UninstallLandscaperInstance(used)
        /\ \E S : Calls \in Seq(S)
    BY <1>1, CallsKnown
  <1>3. \A k \in DOMAIN Calls : k < at
    BY <1>1, <1>2
  <1>4. ASSUME NEW c \in DOMAIN Own
        PROVE  ComponentOf(objects, c) = Components!Goal(c)
    <2>1. ASSUME op = "install", NEW p \in Own[c]
          PROVE  objects[p] = Components!Goal(c) /\ Components!Goal(c) \in Values
      <3>1. Has(Calls, Put(p))
        BY <1>2, <2>1, InstalledByComponent DEF Covers, PutsOf
      <3>2. PICK k \in DOMAIN Calls : Calls[k] = Put(p)
        BY <3>1 DEF Has
      <3>3. objects[p] = Content(p, used.version)
        BY <1>3, <2>1, <3>2, OwnKnown DEF InstallerInv, Written
      <3>4. Content(p, used.version) \in Values
        BY <1>2 DEF Content, Values
      <3> QED BY <2>1, <3>3, <3>4, MappedGoal
    <2>2. ASSUME op = "uninstall", NEW p \in Own[c]
          PROVE  objects[p] = Components!Goal(c) /\ Components!Goal(c) \in Values
      <3>1. Has(Calls, Remove(p))
        BY <1>2, <2>2, UninstalledByComponent DEF Covers, RemovesOf
      <3>2. PICK k \in DOMAIN Calls : Calls[k] = Remove(p)
        BY <3>1 DEF Has
      <3>3. objects[p] = "absent"
        BY <1>3, <2>2, <3>2, OwnKnown DEF InstallerInv, Removed
      <3> QED BY <2>2, <3>3, MappedGoal DEF Values
    <2>3. \A p \in Own[c] : objects[p] = Components!Goal(c) /\ Components!Goal(c) \in Values
      BY <1>1, <2>1, <2>2
    <2> QED BY <2>3, OwnKnown, WholeComponent
  <1>5. \A c \in Components!Components :
            [d \in DOMAIN Own |-> Component(d)][c] = Components!Goal(c)
    BY <1>4, Mapped, AbstractComponents
  <1>6. [d \in DOMAIN Own |-> Component(d)]' = [d \in DOMAIN Own |-> Component(d)]
    BY <1>1, Mapped
  <1> QED BY <1>1, <1>5, <1>6 DEF Components!Succeed

LEMMA StepImplements ==
    InstallerInv /\ [Next]_vars => [Components!Next]_(Components!vars)
  <1> SUFFICES ASSUME InstallerInv, [Next]_vars
               PROVE  [Components!Next]_(Components!vars)
    OBVIOUS
  <1>1. CASE Start
    <2>1. /\ op = "none" /\ op' \in {"install", "uninstall"}
          /\ used' = settings /\ done' = "none" /\ objects' = objects
      BY <1>1 DEF Start, clusters, InstallerInv, TypeOK
    <2>2. used'.version \in Versions
      BY <2>1, SettingsAssumption DEF InstallerInv, TypeOK
    <2>3. [c \in DOMAIN Own |-> Component(c)]' = [c \in DOMAIN Own |-> Component(c)]
      BY <2>1, Mapped
    <2>4. Components!Begin
      BY <2>1, <2>2, <2>3 DEF Components!Begin
    <2> QED BY <2>4 DEF Components!Next
  <1>2. CASE UNCHANGED <<objects, op, used, done>>
    BY <1>2, Unseen
  <1>3. CASE op # "none" /\ Abandon /\ UNCHANGED objects
    <2>1. [c \in DOMAIN Own |-> Component(c)]' = [c \in DOMAIN Own |-> Component(c)]
      BY <1>3, Mapped
    <2>2. Components!Fail
      BY <1>3, <2>1 DEF Abandon, Components!Fail
    <2> QED BY <2>2 DEF Components!Next
  <1>4. CASE Begin \/ BeginAgain
    BY <1>1, <1>4 DEF Begin, BeginAgain
  <1>5. CASE CreateOrUpdateResource
    BY <1>5, PutImplements
  <1>6. CASE DeleteResource
    BY <1>6, RemoveImplements
  <1>7. CASE CopySecret \/ UncopySecret
    BY <1>2, <1>7 DEF CopySecret, UncopySecret, Proceed, clusters
  <1>8. CASE SecretFails
    <2>1. op # "none"
      BY <1>8 DEF SecretFails, SourceMissing, NextCallIs
    <2> QED BY <1>2, <1>3, <1>8, <2>1 DEF SecretFails, clusters
  <1>9. CASE CallFails
    BY <1>2, <1>3, <1>9 DEF CallFails, clusters
  <1>10. CASE Crash
    BY <1>3, <1>10 DEF Crash, clusters
  <1>11. CASE Succeed
    BY <1>11, SuccessImplements DEF Components!Next
  <1>12. CASE Environment
    BY <1>2, <1>12 DEF Environment, ChangeSettings, RequestUninstall, Release, Create,
       ChangeSecret, clusters, job
  <1>13. CASE UNCHANGED vars
    BY <1>2, <1>13 DEF vars, clusters, job
  <1> QED BY <1>4, <1>5, <1>6, <1>7, <1>8, <1>9, <1>10, <1>11, <1>12, <1>13
          DEF Next, Work

LEMMA InitImplements == Init => Components!Init
  <1> SUFFICES ASSUME Init PROVE Components!Init
    OBVIOUS
  <1>1. /\ objects = [o \in Objects |-> "absent"]
        /\ op = "none" /\ done = "none"
    BY DEF Init
  <1>2. \A c \in DOMAIN Own : ComponentOf(objects, c) = "absent"
    BY <1>1, OwnKnown, WholeComponent DEF Values
  <1>3. [c \in DOMAIN Own |-> Component(c)] = [c \in Components!Components |-> "absent"]
    BY <1>2, Mapped, AbstractComponents DEF ComponentsOf
  <1> QED BY <1>1, <1>3 DEF Components!Init

(***************************************************************************)
(* For all settings, pull secrets, failures and crashes, the API calls     *)
(* implement the installation that LandscaperReconciler relies on: no      *)
(* component is touched before those that come first are complete, one     *)
(* that is complete is left alone, and success is reported only when all   *)
(* objects are written, or deleted (instance_installer.go).                *)
(***************************************************************************)
THEOREM InstallationImplemented == Spec => ImplementsInstallation
  <1> QED BY InitImplements, StepImplements, InstallerInvCorrect, PTL
          DEF Spec, ImplementsInstallation, Components!Spec
=============================================================================
