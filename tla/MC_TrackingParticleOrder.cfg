SPECIFICATION Spec
CONSTANTS
    NumParticles = 2
    NumThreads = 1
    NumElements = 1
    Kind <- Ordered
    ParticleId <- NextId
    FirstElement <- PairFirst
    Config <- OrderedConfig
    Monitor <- OrderedMonitor
    MonStoreSize <- OrderedStore
    UntilTurns = {1, 3}
    Sections <- NoSections
    MaxTurn = 0
    MaxElement = 0
    Empty = Empty
INVARIANTS
    MonitorKeepsTurns
