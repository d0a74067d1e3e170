SPECIFICATION FairSpec
CONSTANTS
    Machines = {m1}
    FaultKinds = {"patch", "crash", "direct"}
    MaxFaults = 2
INVARIANTS
    TypeOK
    RunsOnlyAdopted
PROPERTIES
    MachinesProvision
    DeletionsEnd
