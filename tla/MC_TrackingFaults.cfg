SPECIFICATION PrivateFairSpec
CONSTANTS
    NumParticles = 3
    NumThreads = 2
    NumElements = 3
    Kind <- Faulty
    ParticleId <- TripleId
    FirstElement <- TripleFirst
    Config <- FaultyConfig
    Monitor <- FaultyMonitor
    MonStoreSize <- FaultyStore
    UntilTurns = {1}
    Sections <- Parts
    MaxTurn = 1
    MaxElement = 4
    Empty = Empty
INVARIANTS
    SeenInductiveInv
PROPERTIES
    CallsReturn
    SeenLostKeepsRecord
    SuccessDelivers
    SeenAtomicCalls
