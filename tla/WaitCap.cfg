SPECIFICATION ServicesSpec
CONSTANTS
    w = w
    l = l
    a = a
    b = b
    Run = {r1, r2}
    Wait = {w}
    Long = {l}
    Action = {a, b}
    Definition <- Saved
    Faults = {"drop", "error", "delete"}
    NoDefinition = NoDefinition
    \* One key and three callers of it.
    None = None
    Key = {k1}
    Caller = {c1, c2, c3}
    \* Times in units of 100 ms; a request is quick, slow or timed out.
    RETRY_MAX_ATTEMPTS = 3
    MAX_REDIRECTS = 5
    Budget = 50
    Timeout = 150
    Duration = {1, 20, 150}
    \* Two calls to PMP, one of them without a timeout, over three connections.
    Call = {u1, u2}
    Unbounded = {u1}
    MaxConn = 3
    LinkFaults = {"drop", "write"}
    NoCall = NoCall
INVARIANT
    WaitIsCapped
CHECK_DEADLOCK FALSE
