SPECIFICATION FairSpec
CONSTANTS
    c1 = c1
    c2 = c2
    c3 = c3
    n1 = n1
    n2 = n2
    Registers = {c1, c2, c3}
    NameOf <- MCNameOf
    Shutdowns = {g1}
    CloseAlls = {k1}
    Users = {u1}
    Managed = {c2}
    MayFail = {c1}
    NoName = NoName
    NoClient = NoClient
    Nobody = Nobody
CHECK_DEADLOCK FALSE
INVARIANTS
    TypeOK
    NothingOrphaned
    NilMeansFinished
    DefaultResolves
PROPERTIES
    HandedOutIsOpen
    UnlockedReadIsSafe
    GoroutinesFinish
