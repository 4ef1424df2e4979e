SPECIFICATION Spec
CONSTANTS
    c1 = c1
    c2 = c2
    Requests = 3
    Clients = {c1, c2}
    Asks <- MCAsks
    Threads = 1
    Limit = 1
    Window = 2
    RequestTimeout = 1
    ReadinessTimeout = 1
    DrainTimeout = 1
    MaxTime = 2
INVARIANTS
    TypeOK
    LimitPerWindow
    RefusedOnlyOverLimit
    OwnAnswer
    NobodyCutOff
PROPERTIES
    EveryRequestAnswered
    ServerStops
CHECK_DEADLOCK FALSE
