SPECIFICATION Spec
CONSTANTS
    Bases = {100, 200}
    Requests <- SomeRequests
    Capacities = {30, 35}
    Shapes <- SomeShapes
    Slacks = {1}
    MaxObjects = 2
INVARIANTS
    TypeOK
    ObjectsIntact
    SectionsInOrder
    GrowthAccepted
PROPERTIES
    DataInPool
    IndexKept
