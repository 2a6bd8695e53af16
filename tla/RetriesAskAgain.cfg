SPECIFICATION Spec
CONSTANTS
    bad = bad
    ip = ip
    host = host
    NameServers <- MCNameServers
    Kind <- MCKind
    Callers = {c1}
    Refreshers = {}
    MaxRetries = 2
    RetryInterval = 1
    RefreshInterval = 4
    MaxLookup = 2
    MaxTime = 11
CHECK_DEADLOCK FALSE
PROPERTIES
    RetriesAskAgain
