SPECIFICATION FairSpec
CONSTANTS
    v1 = v1
    p1 = p1
    ca1 = ca1
    NoRef = NoRef
    NoCA = NoCA
    Versions = {v1}
    ProviderConfigNames = {p1}
    CABundles = {ca1}
    ConfigValues <- MCConfigValues
    ForeignFinalizers = {TRUE}
    MaxUserOps = 2
    MaxConfigEdits = 1
    MaxFaults = 1
ACTION_CONSTRAINTS
    AtMostThree
PROPERTIES
    DeletionCompletes
    Converges
    ConfigIsApplied
CHECK_DEADLOCK FALSE
