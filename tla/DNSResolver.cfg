SPECIFICATION Spec
CONSTANTS
    bad = bad
    ip = ip
    host = host
    NameServers <- MCNameServers
    Kind <- MCKind
    Callers = {c1, c2}
    Refreshers = {c2}
    MaxRetries = 2
    RetryInterval = 1
    RefreshInterval = 1
    MaxLookup = 2
    MaxTime = 11
CHECK_DEADLOCK FALSE
INVARIANTS
    TypeOK
    RefreshIsRecent
PROPERTIES
    StaleAtMost
