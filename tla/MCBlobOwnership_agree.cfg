SPECIFICATION Spec
CONSTANTS
    h1 = h1  h2 = h2
    Hash = {h1, h2}
    User = {u1, u2}
    Anonymous = Anonymous
    Size <- MCSize
    Total <- MCTotal
    Unlimited = Unlimited
    QuotaChoice = {2}
    U64Max = 100
    Db = "sqlite"
    RequireAuth = TRUE
    S3Compat = FALSE
    Faults = {}
    Conn = {c1, c2}
SYMMETRY Symmetric
INVARIANTS TypeOK StoresAgree
PROPERTIES SharedBlobSurvives QuotaRespected
