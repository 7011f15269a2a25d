SPECIFICATION FairSpec
CONSTANTS
    d1 = d1
    d2 = d2
    NoHost = NoHost
    Domains = {d1, d2}
    MaxEdits = 4
    MaxFailures = 1
INVARIANTS
    TypeOK
    RouteHasServer
PROPERTIES
    HostNamesSettle
    DeletionNeedsNoGateway
CHECK_DEADLOCK FALSE
