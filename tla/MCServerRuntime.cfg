SPECIFICATION Spec
CONSTANTS
    k1 = k1  k2 = k2
    Key = {k1, k2}
    MaxTokens = 2
    TicksPerToken = 2
    IdleLimit = 5
    MaxTracked = 1
    MaxClock = 14
    Conn = {c1, c2}
    Blob = {b1, b2}
    Configs <- MCConfigs
    Lists <- MCLists
    None = None
    MaxEgress = 2
    MaxStarts = 2
    MaxEdits = 2
    Content = {x1, x2}
    Absent = Absent
    Sources = 5
    Signer = {s1, s2}
    Trusted = {s1}
    MaxChanges = 4
INVARIANTS RateHeld TreeAttests
PROPERTIES EgressAccounted IdentityStable ListFollowsFile  
CHECK_DEADLOCK FALSE
