SPECIFICATION FairSpec
CONSTANTS
    s1 = s1
    s2 = s2
    d1 = d1
    Registered = r0
    Subscribers = {s1, s2}
    Deliveries = {d1}
    ConsumerOf <- MCConsumerOf
    NoAck = {}
    MaxBatch = 1
    GracefulClosers = {g1}
    ManagerClosers = {q1}
    PlainClosers = {q1}
CHECK_DEADLOCK FALSE
INVARIANTS
    TypeOK
    OrderlyCloseIsQuiet
    NilMeansTornDown
    SoleConsumerIsShut
PROPERTIES
    NothingAdmittedAfterShutdown
    ClosersReturn
