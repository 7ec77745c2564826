SPECIFICATION CSpec
CONSTANTS
    c1 = c1
    c2 = c2
    Callers <- MCCallers
    Worker = worker
    Caps = {0, 1}
    CollectorCaps = {1}
    MaxItems = 3
    Wanted = "warning"
    LevelOf <- MCLevelOf
INVARIANTS
    NoPanic
    ExactlyOnceInOrder
    CloseMeansDrained
    ErrorsFollowSink
PROPERTIES
    CallsReturn
    CancelStopsWorker
