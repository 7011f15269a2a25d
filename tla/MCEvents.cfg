SPECIFICATION FairSpec
CONSTANTS
    l1 = l1
    l2 = l2
    p1 = p1
    s1 = s1
    ca1 = ca1
    NoCA = NoCA
    NoRef = NoRef
    Landscapers = {l1, l2}
    ProviderConfigs = {p1}
    Secrets = {s1}
    CABundles = {ca1}
    SpecRef <- MCSpecRef
    ConfigValues <- MCConfigValues
    Scenarios <- MCScenarios
INVARIANTS
    TypeOK
    ChangesReachEverybody
PROPERTIES
    NothingIsMissedForGood
CHECK_DEADLOCK FALSE
