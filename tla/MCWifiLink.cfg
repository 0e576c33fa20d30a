SPECIFICATION FairSpec
CONSTANTS
    w1 = w1  w2 = w2
    s1 = s1  s2 = s2  c1 = c1  c2 = c2  c3 = c3  d1 = d1
    ap1 = ap1  ap2 = ap2  ap3 = ap3
    Objects = {s1, s2, c1, c2, c3, d1}
    Crews <- Together
    Interfaces = {w1}
    IfOf <- Where
    Op <- What
    Target <- Whom
    AccessPoints = {ap1, ap2, ap3}
    Ssid <- OfSsid
    Shared = {w1}
    MaxOther = 1
    Audible <- SomeOrAll
    Seen <- Begins
    WithZero <- ZeroFirst
INVARIANTS TypeOK ScanIsRecent ListedOnce ConnectIsGranted
PROPERTIES ScanReturns
CHECK_DEADLOCK FALSE
