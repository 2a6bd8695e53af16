SPECIFICATION FairSpec
CONSTANTS
    Requests = {r1}
    Handlers = {h1, h2}
    Closers = {k1, k2}
    Copied = {r1}
    CopyClosers = {k2}
    MaxReplies = 2
    NoRequest = NoRequest
CHECK_DEADLOCK FALSE
INVARIANTS
    TypeOK
    WaitingIsRegistered
    ClosedIsUnfindable
PROPERTIES
    ImplementsCallService
    CallsReturn
