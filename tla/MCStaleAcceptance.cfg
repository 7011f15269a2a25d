SPECIFICATION Spec
CONSTANTS
    d1 = d1
    d2 = d2
    NoHost = NoHost
    Domains = {d1, d2}
    MaxEdits = 2
    MaxFailures = 0
INVARIANTS
    ReadyMeansAccepted
CHECK_DEADLOCK FALSE
