SPECIFICATION FairSpec
CONSTANTS
    Parts = {"v6", "internal"}
    MaxGen = 2
    MaxNodes = 2
    OtherTaints = {t1}
    Blocks = {}
    Family <- SameFamily
    FaultKinds = {"race", "api", "lost", "crash"}
    MaxFaults = 2
INVARIANTS
    UntaintedHasAddresses
    CalicoNotOlder
PROPERTIES
    KeepsTaints
    NodeInitialized
    CalicoFollows
