SPECIFICATION Spec
CONSTANTS
    Ids = {0, 1, 2}
    Queries = {0, 1, 2, 4}
    Addresses = {0, 7}
INVARIANTS
    TypeOK
    IndexInStore
    SlotsCollideOnlyAcrossRolls
    InverseAgrees
