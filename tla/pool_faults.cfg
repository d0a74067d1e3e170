SPECIFICATION Spec
CONSTANTS
    Machines = {m1, m2}
    Addresses = {a1, a2}
    NoAddress = NoAddress
    Aliens = {x1}
    MaxOrigins = 2
    TakesEmpty = TRUE
    FaultKinds = {"stale", "race", "readdress", "direct", "api", "lost", "crash"}
    MaxFaults = 2
SYMMETRY Symmetry
INVARIANTS
    TypeOK
    StrayBound
    OverrunBound
PROPERTIES
    KeepsOthers
