SPECIFICATION FairProcessesSpec
CONSTANTS
    v1 = v1
    p1 = p1
    NoRef = NoRef
    NoCA = NoCA
    Versions = {v1}
    ProviderConfigNames = {p1}
    CABundles = {}
    ConfigValues <- MCConfigValues
    ForeignFinalizers = {FALSE}
    MaxUserOps = 2
    MaxConfigEdits = 0
    MaxFaults = 0
    LeaderElection = TRUE
    MaxStops = 1
INVARIANTS
    ProcessesTypeOK
    NoOrphans
    OneAtWork
    HandoverKeepsTheKey
PROPERTIES
    ImplementsLifecycle
    SomebodyCompletesDeletion
CHECK_DEADLOCK FALSE
