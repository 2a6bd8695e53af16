SPECIFICATION Spec
CONSTANTS
    Requests = {r1}
    Handlers = {h1, h2}
    Closers = {}
    Copied = {}
    CopyClosers = {}
    MaxReplies = 2
    NoRequest = NoRequest
CHECK_DEADLOCK FALSE
INVARIANTS
    LateReplyIgnored
