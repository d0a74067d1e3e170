SPECIFICATION FairSpec
CONSTANTS
    m1 = m1
    m2 = m2
    k1 = k1
    Machines = {m1, m2}
    Images = {k1, k2}
    None = None
    Version <- OtherVersion
    Named <- SecondNames
    FaultKinds = {"patch", "stale", "crash", "api", "fail", "relabel", "remove"}
    MaxFaults = 2
INVARIANTS
    TypeOK
    PinnedIsUsed
    ImportBound
PROPERTIES
    GetsInstance
