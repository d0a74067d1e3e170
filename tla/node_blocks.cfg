SPECIFICATION FairSpec
CONSTANTS
    Parts = {"v6"}
    MaxGen = 1
    MaxNodes = 2
    OtherTaints = {}
    Blocks = {1, 2}
    Family <- SameFamily
    FaultKinds = {"race", "api", "lost", "crash"}
    MaxFaults = 2
INVARIANTS
    TypeOK
    PodCIDRsConfirmed
PROPERTIES
    PodCIDRsArrive
