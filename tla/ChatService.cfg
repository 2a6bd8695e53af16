SPECIFICATION FairSpec
CONSTANTS
    Requests <- MCRequests
    Handlers = {h1, h2}
    MaxReconsume = 1
    MaxDeliveries = 2
    NoRequest = NoRequest
CHECK_DEADLOCK FALSE
INVARIANTS
    TypeOK
    NothingLeftBehind
    PanicNeedsLateAnswer
PROPERTIES
    ImplementsCallService
    RequestsSettle
