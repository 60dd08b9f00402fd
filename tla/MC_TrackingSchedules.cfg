SPECIFICATION PrivateFairSpec
CONSTANTS
    NumParticles = 2
    NumThreads = 2
    NumElements = 3
    Kind <- Healthy
    ParticleId <- PairId
    FirstElement <- PairFirst
    Config <- HealthyConfig
    Monitor <- HealthyMonitor
    MonStoreSize <- HealthyStore
    UntilTurns = {1, 3}
    Sections <- WholeLine
    MaxTurn = 3
    MaxElement = 3
    Empty = Empty
INVARIANTS
    PrivateInv
    SlotFaithful
    SeenNoOutputRace
    MonitorKeepsTurns
PROPERTIES
    ImplementsPlainKernels
    SeenAtomicCalls
