SPECIFICATION FairSpec
CONSTANTS
    Images = {k1}
    Ids = {i1, i2, i3}
    None = None
    FaultKinds = {"patch", "stale", "crash", "lost", "api", "fail", "vanish"}
    MaxFaults = 2
INVARIANTS
    TypeOK
    LeakBound
    CompleteIsReal
PROPERTIES
    ImportMovesForward
    DestroysOnlyDeleted
    ImportEnds
    DeletionEnds
