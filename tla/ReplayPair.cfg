SPECIFICATION FeedsSpec
CONSTANTS
    Public = {e1, e2, e3}
    Internal = {x1}
    Own = {o1}
    PmpCapacity = 1
    MaxHistory = 3
    EventCapacity = 2
    Threads = 2
    NoEvent = NoEvent
    Stream = {"touches", "judges"}
    Player = {1}
    MaxSeq = 3
    FrameCapacity = 1
    MaxRound = 2
    r1 = r1
    r2 = r2
    Replay <- TwoReplays
    Wide <- WideOne
    Wrap = 4
    User = {1, 2}
    Root = Root
    MaxLinks = 1
    Handler = {c1}
    None = None
    Text = {"a", "b"}
    Viewer = {v1, v2}
    Ring = 3
    LineCapacity = 2
    MaxWindow = 2
    MaxLines = 4
    MaxLosses = 1
    Recording = {r1, r2}
    MaxLog = 5
    MaxRounds = 4
    PAGE = 2
    MAX_PAGE = 2
    PAGE_NUM = 1
    EXPORT_MAX = 2
    MaxRows = 3
    MaxPage = 3
SYMMETRY Symmetric
INVARIANT PairIsPinned
CHECK_DEADLOCK FALSE
