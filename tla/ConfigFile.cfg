SPECIFICATION Spec
CONSTANTS
    Handler = {h1, h2}
    None = None
    Group = {a, m, g3}
    Administrators = a
    Members = m
    Name = {"Members", "n"}
    User = {u1}
    Permission = {"group:edit", "group:assign_user", "root:init"}
    RootOnly = {"root:init"}
    Edited = {g3}
    Requested = {{"group:edit"}, {"*:*"}}
    Root = None
    Account = {u1, u2}
    Github = {k1}
    Token = {t1, t2, t3}
    MaxPending = 1
    Sid = {s1, s2}
    s1 = s1
    s2 = s2
    AccountOf <- Accounts
    PhiraLogin = {"alice", "bob"}
    MaxSecrets = 3
    Form <- Forms
    MaxSnapshots = 2
    MaxRevision = 1
    Torn = Torn
    Missing = Missing
    Contents <- Files
    \* A window of 3 seconds, with a clock that runs for nearly two of them.
    Client = {c1, c2}
    Limit = 2
    Window = 3
    MaxClock = 5
    MaxPassed = 4
INVARIANT
    FileIsWhole
CHECK_DEADLOCK FALSE
