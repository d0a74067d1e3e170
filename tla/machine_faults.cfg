SPECIFICATION Spec
CONSTANTS
    Machines = {m1, m2}
    Hosted = {m1}
    Ids = {i1, i2, i3}
    None = None
    Foreign = Foreign
    Gates = {"ready"}
    FaultKinds = {"patch", "stale", "crash", "lost", "api", "notfound", "vanish"}
    MaxFaults = 2
CHECK_DEADLOCK FALSE
SYMMETRY IdSymmetry
INVARIANTS
    TypeOK
    LeakBound
    CreatesOnlyForPresent
