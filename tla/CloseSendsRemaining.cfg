SPECIFICATION Spec
CONSTANTS
    a1 = a1
    a2 = a2
    c = c
    A = A
    C = C
    Messages = {a1, a2, c}
    Topic <- MCTopic
    Body <- MCBody
    Overhead <- MCOverhead
    BatchSize = 2
    BatchBytes = 5
    Runner = run
    Flushers = {}
    NoMessage = NoMessage
CHECK_DEADLOCK FALSE
INVARIANTS
    CloseSendsRemaining
