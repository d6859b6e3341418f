SPECIFICATION Spec
CONSTANTS
    h1 = h1  h2 = h2
    Hash = {h1, h2}
    User = {u1, u2}
    Anonymous = Anonymous
    Size <- MCSize
    Total <- MCTotal
    Unlimited = Unlimited
    QuotaChoice = {2}
    U64Max = 2
    Db = "memory"
    RequireAuth = FALSE
    S3Compat = TRUE
    Faults = {"record", "delete"}
    Conn = {c1}
SYMMETRY Symmetric
INVARIANTS UsedIsOwnedTotal UploadRowsHaveOwners
