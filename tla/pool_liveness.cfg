SPECIFICATION FairSpec
CONSTANTS
    Machines = {m1, m2}
    Addresses = {a1, a2}
    NoAddress = NoAddress
    Aliens = {}
    MaxOrigins = 1
    TakesEmpty = FALSE
    FaultKinds = {"stale", "race", "readdress", "direct", "api", "lost", "crash"}
    MaxFaults = 1
PROPERTIES
    MachineJoins
    MachineLeaves
