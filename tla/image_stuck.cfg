SPECIFICATION FairSpec
CONSTANTS
    Images = {k1}
    Ids = {i1, i2}
    None = None
    FaultKinds = {"patch"}
    MaxFaults = 1
PROPERTIES
    DeletionCompletes
