SPECIFICATION Spec
CONSTANTS
    Event <- MCEvent
    Principal = {"a", "b"}
    PrincipalOf <- MCPrincipalOf
    CreatedAt <- MCCreatedAt
    Kinds = {"http", "iroh", "admin"}
    Future = 1
    Age = 1
    Ttl = 4
    Timeout = 2
    Capacity = 3
    PerPrincipal = 2
    s1 = s1
    s2 = s2
    Slot = {s1, s2}
    MaxNow = 5
    MaxCommits = 5
INVARIANTS TypeOK IndexesDescribeEntries
PROPERTY AtMostOnceUnlessCrowdedOut
CHECK_DEADLOCK FALSE
SYMMETRY SlotSymmetry
