SPECIFICATION Spec
CONSTANTS
    b1 = b1
    b2 = b2
    r1 = r1
    short = short
    long = long
    other = other
    raw = raw
    NumNodes = 2
    MaxKernels = 4
    MaxDead = 1
    Contents = {short, long, other}
    RawContents = {raw}
    SizeOf <- SomeSizeOf
    Buffers = {b1, b2}
    Raws = {r1}
    Room <- SomeRoom
SYMMETRY SameSize
INVARIANTS
    TypeOK
    RemapKernelsOfNode
    NamesAgree
    SentIsHeld
    SentIsRetrievable
PROPERTIES
    DeviceFollows
    NodeIsKept
