SPECIFICATION Spec
CONSTANTS
    h1 = h1  h2 = h2  s1 = s1  s2 = s2  w1 = w1  w2 = w2
    None = None
    Http = {h1, h2}
    Stream = {s1, s2}
    Worker = {w1, w2}
    Budget = 3
    BodyLimit = 2
    MirrorSize = 2
    MediaPermits = 1
    StreamPermits = 2
    IrohBudget = 1
    IrohMax = 1
INVARIANTS PermitsConserved MemoryBounded
PROPERTIES EveryoneIsServed
