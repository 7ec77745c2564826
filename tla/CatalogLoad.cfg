SPECIFICATION LiveSpec
CONSTANTS
    r1 = r1
    r2 = r2
    r3 = r3
    None = None
    Resolvers <- MCResolvers
INVARIANTS
    SingleFlight
    LoadedOnce
    NoOrphanWaiter
PROPERTIES
    WaitersLeave
