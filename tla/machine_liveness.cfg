SPECIFICATION FairSpec
CONSTANTS
    Machines = {m1}
    Hosted = {m1}
    Ids = {i1, i2, i3}
    None = None
    Foreign = Foreign
    Gates = {"blocked", "imageless", "mismatched", "ready"}
    FaultKinds = {"patch", "stale", "crash", "lost", "api", "notfound", "vanish"}
    MaxFaults = 2
PROPERTIES
    DestroysOnlyDeleted
    ImplementsContract
    DeletionCompletes
    ProvisioningCompletes
