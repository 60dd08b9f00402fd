SPECIFICATION Spec
CONSTANTS
    j1 = j1
    j2 = j2
    line = line
    b1 = b1
    b2 = b2
    monitor = monitor
    particles = particles
    NoBuffer = NoBuffer
    Jobs = {j1, j2}
    Buffers = {line, b1, b2}
    Held = {line}
    NumObjects = 2
    MinUserId = 6
    Given <- SomeGiven
    MaxSlots = 2
    MaxPlace <- SomeMoves
    ItemIds = {2, 6, 7}
    Types = {monitor, particles}
    TypeOf <- SomeTypeOf
    Items <- SomeItems
    MaxItems = 2
SYMMETRY JobSymmetry
INVARIANTS
    TablesAgree
    AssignedIsCurrent
PROPERTIES
    IdsNameOneBuffer
