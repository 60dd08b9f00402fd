SPECIFICATION Spec
CONSTANTS
    Sets <- TwoSets
    Selections = {{0}, {1}}
    Lines <- GapLine
    NumElements = 3
    Externals = {1}
    Untils = {0, 1}
    MaxTurn = 1
    MaxObjects = 4
INVARIANTS
    OutputsLive
    OutputInOrder
