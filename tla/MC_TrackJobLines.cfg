SPECIFICATION Spec
CONSTANTS
    Sets <- OneSet
    Selections = {{0}}
    Lines <- TwoLines
    NumElements = 3
    Externals = {1}
    Untils = {0, 1}
    MaxTurn = 1
    MaxObjects = 4
INVARIANTS
    TypeOK
    OutputsLive
    JobAssertions
