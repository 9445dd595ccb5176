CONSTANTS
    User = {u1}
    Browser = {b1}
    Sid = {s1, s2}
    Req = {r1, r2}
    None = None
    MaxToken = 3
    MaxVersion = 2
SPECIFICATION Spec
SYMMETRY Symm
INVARIANTS
    JarIsUsable
    LogoutRevokes
PROPERTIES
    ConsentBacksSession
    RevocationSticks
