--------------------------- MODULE MCLockService ---------------------------
(* Small instances of the lock service and the role table. *)
EXTENDS LockService, TLC

CONSTANTS alice, bob, r1, r2, p0, p1, p2, p3

\* Two keys, one of them also written as npub1.
MCSpelling == {"alice_hex", "alice_npub", "bob_hex"}
MCNormalize == [s \in MCSpelling |-> IF s = "bob_hex" THEN bob ELSE alice]

\* One lock between two repositories, while roles change in every way.
ChangingRoles == [bootstrap |-> {alice}, calls |-> AllCalls, repos |-> {r1, r2}, paths |-> {p0},
                  db |-> "memory", limits |-> {}, maxLocks |-> 1, maxNow |-> 0]

\* Three locks of one repository, taken and released while clients page.
Paging == [bootstrap |-> {alice, bob}, calls |-> {}, repos |-> {r1}, paths |-> {p1, p2, p3},
           db |-> "sqlite", limits |-> {0, 1}, maxLocks |-> 3, maxNow |-> 2]

MCConfigs == {ChangingRoles, Paging}

\* No property tells one path from another.
PathSymmetry == Permutations({p1, p2, p3})
=============================================================================
