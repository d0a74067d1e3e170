SPECIFICATION Spec
CONSTANTS
    Machines = {m1}
    Hosted = {m1}
    Ids = {i1, i2}
    None = None
    Foreign = Foreign
    Gates = {"ready"}
    FaultKinds = {"patch"}
    MaxFaults = 1
CHECK_DEADLOCK FALSE
INVARIANTS
    FinalizerCleansUp
