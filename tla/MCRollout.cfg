SPECIFICATION FairSpec
CONSTANTS
    Observed = {"main", "webhooks"}
    MaxRotations = 1
    MaxReleases = 2
    MaxFaults = 1
INVARIANTS
    TypeOK
    ReadyRunsOnWhatIsStored
    OneControllerAtATime
PROPERTIES
    NewTokensReachThePods
CHECK_DEADLOCK FALSE
