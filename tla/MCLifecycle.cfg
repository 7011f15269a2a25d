SPECIFICATION Spec
CONSTANTS
    v1 = v1
    v2 = v2
    p1 = p1
    NoRef = NoRef
    NoCA = NoCA
    Versions = {v1, v2}
    ProviderConfigNames = {p1}
    CABundles = {}
    ConfigValues <- MCConfigValues
    ForeignFinalizers = {TRUE, FALSE}
    MaxUserOps = 3
    MaxConfigEdits = 0
    MaxFaults = 1
SYMMETRY Symmetry
INVARIANTS
    TypeOK
    SafetyInv
    NoOrphans
    UninstallBeforeRelease
    StatusIsTruthful
    NoLostWakeup
PROPERTIES
    NoRecreateRequests
    TerminatingIsFinal
    ImplementsLifecycle
    InstallsInOrder
CHECK_DEADLOCK FALSE
