SPECIFICATION FairSpec
CONSTANTS
    Deliveries = {d1, d2, d3}
    NoAck = {d3}
    Waiters = {w1, w2}
    MaxBatch = 2
INVARIANTS
    TypeOK
    CountIsInFlight
    NoDoubleClose
    DrainedMeansQuiet
    AckedMeansHandled
PROPERTIES
    ImplementsDrain
    ShutdownCompletes
