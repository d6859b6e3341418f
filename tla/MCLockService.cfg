SPECIFICATION Spec
CONSTANTS
    alice = alice  bob = bob
    r1 = r1  r2 = r2
    p0 = p0  p1 = p1  p2 = p2  p3 = p3
    Pubkey = {alice, bob}
    Spelling <- MCSpelling
    normalize_pubkey <- MCNormalize
    DefaultLimit = 2
    Configs <- MCConfigs
INVARIANTS TypeOK  RoleNeverOverstated OneLockPerPath ScanShowsStandingLocks
 
SYMMETRY PathSymmetry
