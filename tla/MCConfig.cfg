SPECIFICATION LabelSpec
CONSTANTS
    v1 = v1
    p1 = p1
    p2 = p2
    ca1 = ca1
    NoRef = NoRef
    NoCA = NoCA
    Versions = {v1}
    ProviderConfigNames = {p1, p2}
    CABundles = {ca1}
    ConfigValues <- MCConfigValues
    ForeignFinalizers = {FALSE}
    MaxUserOps = 2
    MaxConfigEdits = 2
    MaxFaults = 0
SYMMETRY Symmetry
INVARIANTS
    ConfigChangesAreNoticed
    LabelComesBack
CHECK_DEADLOCK FALSE
