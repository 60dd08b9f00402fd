SPECIFICATION DeviceSpec
CONSTANTS
    Sets <- OneSet
    Selections = {}
    Lines <- TwoLines
    NumElements = 3
    Externals = {1}
    Untils = {1}
    MaxTurn = 1
    MaxObjects = 3
INVARIANTS
    DeviceWindows
