SPECIFICATION Spec
CONSTANTS
    Handler = {h1, h2}
    None = None
    User = {1, 2}
    Known = {1, 2}
    Subscriber = {1}
    Event = {e1}
    Device = {d1, d2}
    App = {"fcm"}
    Target <- Targets
    MaxText = 2
    MaxChat = 1
    MaxMoves = 2
    Drafts <- DraftLists
    Legacy <- OldLists
    MaxChanges = 2
    Coupon = {c1}
    Account = {u1, u2, u3}
    MaxUses = 2
    Client = {k1, k2}
    MaxSaves = 3
    Room = {r1, r2}
    r1 = r1
    r2 = r2
    Batches <- RoomLists
    Player = {p1}
    RoomHandler = {h3}
    Staff = {staff}
    MaxCommands = 2
    Front = {f1, f2}
    Proxied = {f2}
    Gate = {g1}
    Foreign = {x1}
    Native = {n1}
    MaxSessions = 2
    MaxOpen = 2
INVARIANTS
    NoticesAreWhole
    NoDeadButton
    ProfilesAreHonest
    CouponsAreHonoured
    SavesSeeWhatTheyReplace
    ActsAsShown
    ReportIsTrue
PROPERTY
    FriendshipIsMutual
CHECK_DEADLOCK FALSE
