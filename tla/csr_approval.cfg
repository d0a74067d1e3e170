SPECIFICATION FairSpec
CONSTANTS
    Csrs = {1, 2}
    Name = "node"
    Requests <- AllRequests
    MaxGen = 2
    IPs <- Addresses
    FaultKinds = {"race", "api", "lost"}
    MaxFaults = 2
INVARIANTS
    TypeOK
PROPERTIES
    ApprovesOwn
    RequestsAnswered
    PodCIDRsReached
