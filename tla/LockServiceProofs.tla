-------------------------- MODULE LockServiceProofs --------------------------
(***************************************************************************)
(* Proofs about LockService and RoleBasedAccess, for any number of keys,   *)
(* repositories, locks and page sizes: settled roles are live, a lookup    *)
(* never overstates a role, locks exclude and are released by right, and a *)
(* client that pages through the locks sees all of them.                   *)
(***************************************************************************)
EXTENDS LockService, FiniteSetTheorems, TLAPS

-----------------------------------------------------------------------------
(* The inductive invariant.                                                *)

DbTask == [op : {"set_role", "promote_admin", "demote_to_member"}, pk : Pubkey, role : Roles,
           pc : {"start", "half", "admins", "members"}, alone : BOOLEAN]
SetTask == [op : {"remove"}, pk : Pubkey] \cup [op : {"reload"}, members : SUBSET Pubkey]

RolesType ==
    /\ roleRow \in [Pubkey -> Roles \cup {"none"}]
    /\ admins \subseteq Pubkey /\ members \subseteq Pubkey /\ settled \subseteq Pubkey
    /\ dbTask \in DbTask \cup {Idle}
    /\ setTask \in SetTask \cup {Idle}

\* While a call holds the database its key is not settled, its row has the new
\* role, and if nobody else touched the key the half that is done still stands.
DbTaskInv ==
    dbTask # Idle =>
        /\ dbTask.pk \notin settled
        /\ roleRow[dbTask.pk] = dbTask.role
        /\ dbTask.op = "promote_admin" => dbTask.role = "admin"
        /\ dbTask.op = "demote_to_member" => dbTask.role = "member"
        /\ dbTask.pc = "half" /\ dbTask.alone =>
             (dbTask.pk \in admins <=> dbTask.role = "admin")

RolesInv == RolesType /\ DbTaskInv /\ SettledRolesAreLive

CreateRequest == [op : {"create"}, pk : Pubkey, args : [repo : Repo, path : Path],
                  admin : BOOLEAN, best : 0..2]
UnlockRequest == [op : {"unlock"}, pk : Pubkey, args : [repo : Repo, id : Nat, force : BOOLEAN],
                  admin : BOOLEAN, best : 0..2]

\* best follows the live role of the key that is being looked up.
RequestInv ==
    /\ req \in CreateRequest \cup UnlockRequest \cup {NoReq}
    /\ req # NoReq =>
         /\ req.op = "create" => nextId <= MaxLocks
         /\ req.admin => req.best = 2
         /\ Rank(LiveRole(req.pk)) <= req.best

Lock == [id : 1..MaxLocks, repo : Repo, path : Path, pubkey : Pubkey, at : 0..MaxNow]

LocksInv ==
    /\ config \in Configs
    /\ locks \subseteq Lock /\ IsFiniteSet(locks)
    /\ nextId \in 1..(MaxLocks + 1) /\ now \in 0..MaxNow
    /\ \A l \in locks : l.at <= now
    /\ OneLockPerPath

Scan == [status : {"paging", "done"}, pk : Pubkey, repo : Repo, limit : Nat, cursor : Nat,
         ours : SUBSET Lock, theirs : SUBSET Lock, shown : Nat, start : SUBSET Lock]

Seen == scan.ours \cup scan.theirs

\* While a client pages it has seen the oldest locks of the repository, as many
\* as its cursor says.
ScanInv ==
    /\ scan \in Scan \cup {NoScan, Disturbed}
    /\ scan.status \in {"paging", "done"} =>
         /\ \A l \in scan.ours : l.pubkey = scan.pk
         /\ \A l \in scan.theirs : l.pubkey # scan.pk
    /\ scan.status = "paging" =>
         /\ NoTies(LocksOf(scan.repo))
         /\ scan.start \subseteq LocksOf(scan.repo)
         /\ Seen \subseteq LocksOf(scan.repo)
         /\ \A l \in Seen, m \in LocksOf(scan.repo) : m.at < l.at => m \in Seen
         /\ scan.cursor = Cardinality(Seen) /\ scan.shown = scan.cursor
    /\ ScanShowsStandingLocks

Inv == RolesInv /\ RequestInv /\ LocksInv /\ ScanInv

-----------------------------------------------------------------------------
(* The role table.                                                         *)

\* The part of RolesInv about one key that a finished call must establish.
Agrees(row, A, M, pk) == RoleIn(A, M, pk) = IF row[pk] = "none" THEN "denied" ELSE row[pk]

LEMMA LoadSettles ==
    ASSUME NEW row \in [Pubkey -> Roles \cup {"none"}], LoadFromDatabase(row)
    PROVE  RolesInv'
<1>1. /\ roleRow' = Bootstrapped(row) /\ dbTask' = Idle /\ setTask' = Idle /\ settled' = Pubkey
      /\ admins' = {pk \in Pubkey : roleRow'[pk] = "admin"}
      /\ members' = {pk \in Pubkey : roleRow'[pk] = "member"}
  BY DEF LoadFromDatabase, WithRole
<1>2. roleRow' \in [Pubkey -> Roles \cup {"none"}]
  BY <1>1 DEF Bootstrapped, Roles
<1>3. ASSUME NEW pk \in Pubkey PROVE Agrees(roleRow', admins', members', pk)
  BY <1>1, <1>2 DEF Agrees, RoleIn, Roles
<1> QED
  BY <1>1, <1>2, <1>3 DEF RolesInv, RolesType, DbTaskInv, SettledRolesAreLive, LiveRole, Agrees

LEMMA InitSettles ==
    ASSUME Init
    PROVE  RolesInv
<1>1. /\ dbTask = Idle /\ setTask = Idle /\ settled = Pubkey
      /\ admins = {pk \in Pubkey : roleRow[pk] = "admin"}
      /\ members = {pk \in Pubkey : roleRow[pk] = "member"}
  BY DEF Init, WithRole
<1>2. roleRow \in [Pubkey -> Roles \cup {"none"}]
  BY DEF Init, Bootstrapped, Roles
<1>3. ASSUME NEW pk \in Pubkey PROVE Agrees(roleRow, admins, members, pk)
  BY <1>1, <1>2 DEF Agrees, RoleIn, Roles
<1> QED
  BY <1>1, <1>2, <1>3 DEF RolesInv, RolesType, DbTaskInv, SettledRolesAreLive, LiveRole, Agrees

LEMMA StartKeepsRoles ==
    ASSUME RolesInv, NEW pk \in Pubkey, NEW role \in Roles,
           NEW op \in {"set_role", "promote_admin", "demote_to_member"},
           op = "promote_admin" => role = "admin", op = "demote_to_member" => role = "member",
           StartDbTask(op, pk, role)
    PROVE  RolesInv'
<1>1. /\ dbTask' = [op |-> op, pk |-> pk, role |-> role, pc |-> "start", alone |-> TRUE]
      /\ roleRow' = [roleRow EXCEPT ![pk] = role]
      /\ settled' = settled \ {pk}
      /\ UNCHANGED <<admins, members, setTask>>
  BY DEF StartDbTask
<1>2. RolesType'
  <2>1. dbTask' \in DbTask
    BY <1>1 DEF DbTask
  <2> QED
    BY <1>1, <2>1 DEF RolesInv, RolesType
<1>3. DbTaskInv'
  BY <1>1 DEF RolesInv, RolesType, DbTaskInv
<1>4. SettledRolesAreLive'
  BY <1>1 DEF RolesInv, RolesType, SettledRolesAreLive, LiveRole
<1> QED
  BY <1>2, <1>3, <1>4 DEF RolesInv

\* The steps of a call that holds the database: guards taken, half done, done.
LEMMA TaskAdvances ==
    ASSUME RolesInv, dbTask # Idle, NEW p \in {"half", "admins", "members"},
           dbTask' = [dbTask EXCEPT !.pc = p],
           UNCHANGED <<roleRow, members, setTask, settled>>,
           admins' \subseteq Pubkey, \A pk \in Pubkey \ {dbTask.pk} : pk \in admins' <=> pk \in admins,
           p = "half" => (dbTask.pk \in admins' <=> dbTask.role = "admin")
    PROVE  RolesInv'
<1>1. dbTask \in DbTask
  BY DEF RolesInv, RolesType
<1>2. /\ dbTask' \in DbTask /\ dbTask'.op = dbTask.op /\ dbTask'.pk = dbTask.pk
      /\ dbTask'.role = dbTask.role /\ dbTask'.alone = dbTask.alone /\ dbTask'.pc = p
  BY <1>1 DEF DbTask
<1>3. RolesType'
  BY <1>2 DEF RolesInv, RolesType
<1>4. DbTaskInv'
  BY <1>2 DEF RolesInv, DbTaskInv
<1>5. SettledRolesAreLive'
  BY DEF RolesInv, RolesType, DbTaskInv, SettledRolesAreLive, LiveRole, RoleIn
<1> QED
  BY <1>3, <1>4, <1>5 DEF RolesInv

LEMMA TaskFinishes ==
    ASSUME RolesInv, dbTask # Idle, FinishDbTask, UNCHANGED <<roleRow, setTask>>,
           admins' \subseteq Pubkey, members' \subseteq Pubkey,
           \A pk \in Pubkey \ {dbTask.pk} : (pk \in admins' <=> pk \in admins)
                                         /\ (pk \in members' <=> pk \in members),
           dbTask.alone => RoleIn(admins', members', dbTask.pk) = dbTask.role
    PROVE  RolesInv'
<1>1. dbTask \in DbTask
  BY DEF RolesInv, RolesType
<1>2. dbTask.pk \in Pubkey /\ dbTask.role \in Roles /\ roleRow[dbTask.pk] = dbTask.role
  BY <1>1 DEF DbTask, RolesInv, DbTaskInv
<1>3. RolesType'
  BY <1>2 DEF RolesInv, RolesType, FinishDbTask
<1>4. DbTaskInv'
  BY DEF FinishDbTask, DbTaskInv
<1>5. ASSUME NEW pk \in settled' PROVE Agrees(roleRow', admins', members', pk)
  <2>1. CASE pk = dbTask.pk
    <3>1. dbTask.alone
      BY <1>5, <2>1 DEF FinishDbTask, RolesInv, DbTaskInv
    <3> QED
      BY <1>2, <2>1, <3>1 DEF Agrees, Roles
  <2>2. CASE pk # dbTask.pk
    <3>1. pk \in settled /\ pk \in Pubkey
      BY <1>5, <2>2 DEF FinishDbTask, RolesInv, RolesType
    <3>2. Agrees(roleRow, admins, members, pk)
      BY <3>1 DEF RolesInv, SettledRolesAreLive, LiveRole, Agrees
    <3> QED
      BY <2>2, <3>1, <3>2 DEF Agrees, RoleIn
  <2> QED
    BY <2>1, <2>2
<1> QED
  BY <1>3, <1>4, <1>5 DEF RolesInv, SettledRolesAreLive, LiveRole, Agrees

LEMMA DbTaskKeepsRoles ==
    ASSUME RolesInv, DbTaskStep
    PROVE  RolesInv'
<1>1. dbTask # Idle /\ dbTask \in DbTask
  BY DEF DbTaskStep, SetRoleLockAdmins, SetRoleLockMembers, SetRoleApply, PromoteInsert, PromoteRemove,
         DemoteRemove, DemoteInsert, Idle, RolesInv, RolesType
<1>2. /\ dbTask.pk \in Pubkey /\ dbTask.role \in Roles
      /\ dbTask.op = "promote_admin" => dbTask.role = "admin"
      /\ dbTask.op = "demote_to_member" => dbTask.role = "member"
      /\ dbTask.pc = "half" /\ dbTask.alone => (dbTask.pk \in admins <=> dbTask.role = "admin")
      /\ admins \subseteq Pubkey /\ members \subseteq Pubkey
  BY <1>1 DEF DbTask, RolesInv, RolesType, DbTaskInv
<1>3. CASE SetRoleLockAdmins
  BY <1>1, <1>2, <1>3, TaskAdvances DEF SetRoleLockAdmins
<1>4. CASE SetRoleLockMembers
  BY <1>1, <1>2, <1>4, TaskAdvances DEF SetRoleLockMembers
<1>5. CASE PromoteInsert
  BY <1>1, <1>2, <1>5, TaskAdvances DEF PromoteInsert
<1>6. CASE DemoteRemove
  BY <1>1, <1>2, <1>6, TaskAdvances DEF DemoteRemove
<1>7. CASE SetRoleApply
  <2>1. RoleIn(admins', members', dbTask.pk) = dbTask.role
    BY <1>2, <1>7 DEF SetRoleApply, Rewritten, RoleIn, Roles
  <2>2. /\ admins' \subseteq Pubkey /\ members' \subseteq Pubkey
        /\ \A pk \in Pubkey \ {dbTask.pk} : (pk \in admins' <=> pk \in admins)
                                         /\ (pk \in members' <=> pk \in members)
    BY <1>2, <1>7 DEF SetRoleApply, Rewritten
  <2> QED
    BY <1>1, <1>7, <2>1, <2>2, TaskFinishes DEF SetRoleApply
<1>8. CASE PromoteRemove
  <2>1. dbTask.alone => RoleIn(admins', members', dbTask.pk) = dbTask.role
    BY <1>2, <1>8 DEF PromoteRemove, RoleIn
  <2> QED
    BY <1>1, <1>2, <1>8, <2>1, TaskFinishes DEF PromoteRemove
<1>9. CASE DemoteInsert
  <2>1. dbTask.alone => RoleIn(admins', members', dbTask.pk) = dbTask.role
    BY <1>2, <1>9 DEF DemoteInsert, RoleIn
  <2> QED
    BY <1>1, <1>2, <1>9, <2>1, TaskFinishes DEF DemoteInsert
<1> QED
  BY <1>3, <1>4, <1>5, <1>6, <1>7, <1>8, <1>9 DEF DbTaskStep

\* A change of the live sets of some keys, which are no longer settled.
LEMMA DisturbKeepsRoles ==
    ASSUME RolesInv, NEW keys \in SUBSET Pubkey, Disturb(keys), UNCHANGED roleRow,
           admins' \subseteq Pubkey, members' \subseteq Pubkey, setTask' \in SetTask \cup {Idle},
           \A pk \in Pubkey \ keys : (pk \in admins' <=> pk \in admins)
                                  /\ (pk \in members' <=> pk \in members)
    PROVE  RolesInv'
<1>1. settled' = settled \ keys
  BY DEF Disturb
<1>2. SettledRolesAreLive'
  BY <1>1 DEF RolesInv, RolesType, SettledRolesAreLive, LiveRole, RoleIn
<1>3. CASE dbTask = Idle
  <2>1. dbTask' = Idle
    BY <1>3 DEF Disturb
  <2> QED
    BY <1>1, <1>2, <2>1 DEF RolesInv, RolesType, DbTaskInv
<1>4. CASE dbTask # Idle /\ dbTask.pk \in keys
  <2>1. dbTask \in DbTask /\ dbTask' = [dbTask EXCEPT !.alone = FALSE]
    BY <1>4 DEF Disturb, RolesInv, RolesType
  <2>2. /\ dbTask' \in DbTask /\ dbTask'.op = dbTask.op /\ dbTask'.pk = dbTask.pk
        /\ dbTask'.role = dbTask.role /\ dbTask'.alone = FALSE
    BY <2>1 DEF DbTask
  <2>3. RolesType'
    BY <1>1, <2>2 DEF RolesInv, RolesType
  <2>4. DbTaskInv'
    BY <1>1, <1>4, <2>2 DEF RolesInv, DbTaskInv
  <2> QED
    BY <1>2, <2>3, <2>4 DEF RolesInv
<1>5. CASE dbTask # Idle /\ dbTask.pk \notin keys
  <2>1. dbTask' = dbTask /\ dbTask \in DbTask
    BY <1>5 DEF Disturb, RolesInv, RolesType
  <2>2. dbTask.pk \in Pubkey
    BY <2>1 DEF DbTask
  <2>3. RolesType'
    BY <1>1, <2>1 DEF RolesInv, RolesType
  <2>4. DbTaskInv'
    BY <1>1, <1>5, <2>1, <2>2 DEF RolesInv, DbTaskInv
  <2> QED
    BY <1>2, <2>3, <2>4 DEF RolesInv
<1> QED
  BY <1>3, <1>4, <1>5

LEMMA SetsCallKeepsRoles ==
    ASSUME RolesInv, SetsCall
    PROVE  RolesInv'
<1>1. admins \subseteq Pubkey /\ members \subseteq Pubkey /\ setTask \in SetTask \cup {Idle}
  BY DEF RolesInv, RolesType
<1>2. ASSUME NEW s \in Spelling, AddAdmin(s) \/ AddMember(s) PROVE RolesInv'
  <2>1. normalize_pubkey[s] \in Pubkey
    BY AccessAssumption
  <2> QED
    BY <1>1, <1>2, <2>1, DisturbKeepsRoles DEF AddAdmin, AddMember
<1>3. ASSUME NEW s \in Spelling, RemoveFromAdmins(s) PROVE RolesInv'
  <2>1. normalize_pubkey[s] \in Pubkey
    BY AccessAssumption
  <2>2. setTask' \in SetTask
    BY <1>3, <2>1 DEF RemoveFromAdmins, SetTask
  <2> QED
    BY <1>1, <1>3, <2>1, <2>2, DisturbKeepsRoles DEF RemoveFromAdmins
<1>4. CASE RemoveFromMembers
  <2>1. setTask.pk \in Pubkey
    BY <1>1, <1>4 DEF RemoveFromMembers, SetTask, Idle
  <2> QED
    BY <1>1, <1>4, <2>1, DisturbKeepsRoles DEF RemoveFromMembers
<1>5. ASSUME NEW A \in SUBSET Pubkey, NEW M \in SUBSET Pubkey, ReloadAdmins(A, M) PROVE RolesInv'
  <2>1. setTask' \in SetTask
    BY <1>5 DEF ReloadAdmins, SetTask
  <2> QED
    BY <1>1, <1>5, <2>1, DisturbKeepsRoles DEF ReloadAdmins
<1>6. CASE ReloadMembers
  <2>1. setTask.members \subseteq Pubkey
    BY <1>1, <1>6 DEF ReloadMembers, SetTask, Idle
  <2> QED
    BY <1>1, <1>6, <2>1, DisturbKeepsRoles DEF ReloadMembers
<1> QED
  BY <1>2, <1>3, <1>4, <1>5, <1>6 DEF SetsCall

LEMMA QuotaKeepsRoles ==
    ASSUME RolesInv, NEW pk \in Pubkey, SetQuotaCreatesRow(pk)
    PROVE  RolesInv'
<1>1. /\ roleRow[pk] = "none" /\ roleRow' = [roleRow EXCEPT ![pk] = "member"]
      /\ settled' = settled \ {pk} /\ UNCHANGED <<admins, members, dbTask, setTask>>
  BY DEF SetQuotaCreatesRow
<1>2. RolesType'
  BY <1>1 DEF RolesInv, RolesType, Roles
<1>3. DbTaskInv'
  <2> SUFFICES ASSUME dbTask # Idle PROVE DbTaskInv'
    BY <1>1 DEF DbTaskInv
  <2>1. dbTask.role \in Roles /\ dbTask.pk \in Pubkey
    BY DEF RolesInv, RolesType, DbTask
  <2>2. dbTask.pk # pk
    BY <1>1, <2>1 DEF RolesInv, DbTaskInv, Roles
  <2> QED
    BY <1>1, <2>1, <2>2 DEF RolesInv, RolesType, DbTaskInv
<1>4. SettledRolesAreLive'
  BY <1>1 DEF RolesInv, RolesType, SettledRolesAreLive, LiveRole
<1> QED
  BY <1>2, <1>3, <1>4 DEF RolesInv

LEMMA RolesUnchanged ==
    ASSUME RolesInv, UNCHANGED accessVars
    PROVE  RolesInv'
BY DEF RolesInv, accessVars, RolesType, DbTaskInv, SettledRolesAreLive, LiveRole

LEMMA RolesStep ==
    ASSUME RolesInv, [Next]_vars
    PROVE  RolesInv'
<1>1. ASSUME NEW by \in Pubkey, NEW s \in Spelling, NEW role \in Roles, HandleSetRole(by, s, role)
      PROVE  RolesInv'
  <2>1. normalize_pubkey[s] \in Pubkey
    BY AccessAssumption
  <2> QED
    BY <1>1, <2>1, StartKeepsRoles DEF HandleSetRole, SetRoleStart
<1>2. ASSUME NEW by \in Pubkey, NEW pk \in Pubkey, HandleSetQuota(by, pk)
      PROVE  RolesInv'
  BY <1>2, QuotaKeepsRoles DEF HandleSetQuota
<1>3. CASE LibraryStart
  <2> PICK s \in Spelling : PromoteStart(s) \/ DemoteStart(s)
    BY <1>3 DEF LibraryStart
  <2>1. normalize_pubkey[s] \in Pubkey
    BY AccessAssumption
  <2> QED
    BY <2>1, StartKeepsRoles DEF PromoteStart, DemoteStart, Roles
<1>4. CASE RoleTableStep
  BY <1>4, DbTaskKeepsRoles, SetsCallKeepsRoles DEF RoleTableStep
<1>5. CASE RestartServer
  BY <1>5, LoadSettles DEF RestartServer, Restart, RolesInv, RolesType
<1>6. CASE UNCHANGED accessVars
  BY <1>6, RolesUnchanged
<1> QED
  BY <1>1, <1>2, <1>3, <1>4, <1>5, <1>6
     DEF Next, Step, vars, BeginLockRequest, BeginRequest, HandleCreateLock, HandleLockCreate,
         HandleUnlock, HandleLockDelete, StartScan, HandleVerifyLocks, HandleListLocks,
         HandleLockVerify, HandleLockList, Page, Tick

-----------------------------------------------------------------------------
(* Requests.                                                               *)

LEMMA RankType ==
    \A A, M, pk : /\ Rank(RoleIn(A, M, pk)) \in 0..2
                  /\ pk \in A => Rank(RoleIn(A, M, pk)) = 2
                  /\ pk \in M => Rank(RoleIn(A, M, pk)) >= 1
BY DEF Rank, RoleIn

LEMMA BeginKeepsRequests ==
    ASSUME LocksInv, BeginLockRequest, UNCHANGED config
    PROVE  RequestInv'
<1>1. PICK pk \in Pubkey, repo \in Repo :
         \/ nextId <= MaxLocks /\ \E path \in Path : BeginRequest("create", pk, [repo |-> repo, path |-> path])
         \/ \E id \in 1..Smaller(nextId, MaxLocks), force \in BOOLEAN :
               BeginRequest("unlock", pk, [repo |-> repo, id |-> id, force |-> force])
  BY DEF BeginLockRequest
<1>2. ReadAdmins(pk) \in BOOLEAN /\ (ReadAdmins(pk) => pk \in admins)
  BY DEF ReadAdmins
<1>3. Rank(LiveRole(pk)) \in 0..2 /\ (pk \in admins => Rank(LiveRole(pk)) = 2)
  BY RankType DEF LiveRole
<1>4. UNCHANGED <<admins, members, nextId, config>>
  BY <1>1 DEF BeginRequest, accessVars
<1>5. CreateRequest' = CreateRequest /\ UnlockRequest' = UnlockRequest
  BY <1>4 DEF CreateRequest, UnlockRequest, Repo, Path
<1>6. ASSUME NEW path \in Path, nextId <= MaxLocks, BeginRequest("create", pk, [repo |-> repo, path |-> path])
      PROVE  RequestInv'
  <2>1. req' = [op |-> "create", pk |-> pk, args |-> [repo |-> repo, path |-> path],
                admin |-> ReadAdmins(pk), best |-> Rank(LiveRole(pk))]
    BY <1>6 DEF BeginRequest
  <2>2. req' \in CreateRequest
    BY <1>2, <1>3, <2>1 DEF CreateRequest
  <2>3. /\ req'.pk = pk /\ req'.best = Rank(LiveRole(pk)) /\ (req'.admin <=> ReadAdmins(pk))
    BY <2>1
  <2> QED
    BY <1>2, <1>3, <1>4, <1>5, <1>6, <2>2, <2>3 DEF RequestInv, LiveRole, MaxLocks
<1>7. ASSUME NEW id \in 1..Smaller(nextId, MaxLocks), NEW force \in BOOLEAN,
             BeginRequest("unlock", pk, [repo |-> repo, id |-> id, force |-> force])
      PROVE  RequestInv'
  <2>1. req' = [op |-> "unlock", pk |-> pk, args |-> [repo |-> repo, id |-> id, force |-> force],
                admin |-> ReadAdmins(pk), best |-> Rank(LiveRole(pk))]
    BY <1>7 DEF BeginRequest
  <2>2. MaxLocks \in Nat
    BY LockAssumption DEF LocksInv, MaxLocks
  <2>3. id \in Nat
    BY <2>2 DEF Smaller, LocksInv
  <2>4. req' \in UnlockRequest
    BY <1>2, <1>3, <2>1, <2>3 DEF UnlockRequest
  <2>5. /\ req'.op = "unlock" /\ req'.pk = pk /\ req'.best = Rank(LiveRole(pk))
        /\ (req'.admin <=> ReadAdmins(pk))
    BY <2>1
  <2> QED
    BY <1>2, <1>3, <1>4, <1>5, <2>4, <2>5 DEF RequestInv, LiveRole
<1> QED
  BY <1>1, <1>6, <1>7

LEMMA WatchKeepsRequests ==
    ASSUME RequestInv, WatchRequest, UNCHANGED <<config, nextId>>
    PROVE  RequestInv'
<1>1. CreateRequest' = CreateRequest /\ UnlockRequest' = UnlockRequest /\ MaxLocks' = MaxLocks
  BY DEF CreateRequest, UnlockRequest, Repo, Path, MaxLocks
<1>2. CASE req = NoReq
  BY <1>1, <1>2 DEF RequestInv, WatchRequest
<1>3. CASE req # NoReq
  <2> DEFINE r == Rank(RoleIn(admins', members', req.pk))
             b == IF r > req.best THEN r ELSE req.best
  <2>1. r \in 0..2
    BY RankType
  <2>2. req' = [req EXCEPT !.best = b]
    BY <1>3 DEF WatchRequest
  <2>3. req \in CreateRequest \/ req \in UnlockRequest
    BY <1>3 DEF RequestInv
  <2>4. req.best \in 0..2
    BY <2>3 DEF CreateRequest, UnlockRequest
  <2>5. b \in 0..2 /\ b >= r /\ b >= req.best
    BY <2>1, <2>4
  <2>6. Rank(LiveRole(req.pk))' = Rank(RoleIn(admins', members', req'.pk))
    BY DEF LiveRole
  <2> HIDE DEF b, r
  <2>7. /\ req \in CreateRequest => req' \in CreateRequest
        /\ req \in UnlockRequest => req' \in UnlockRequest
        /\ req'.op = req.op /\ req'.pk = req.pk /\ req'.best = b /\ req'.admin = req.admin
    <3>1. CASE req \in CreateRequest
      BY <2>2, <2>5, <3>1 DEF CreateRequest, UnlockRequest
    <3>2. CASE req \in UnlockRequest
      BY <2>2, <2>5, <3>2 DEF CreateRequest, UnlockRequest
    <3> QED
      BY <2>3, <3>1, <3>2
  <2>8. r <= req'.best
    BY <2>1, <2>5, <2>7
  <2>9. req.admin => req'.best = 2
    BY <1>3, <2>5, <2>7 DEF RequestInv
  <2> QED
    BY <1>1, <1>3, <2>3, <2>6, <2>7, <2>8, <2>9 DEF RequestInv, r
<1> QED
  BY <1>2, <1>3

LEMMA RequestStep ==
    ASSUME LocksInv, RequestInv, [Next]_vars
    PROVE  RequestInv'
<1>1. CASE BeginLockRequest /\ UNCHANGED config
  BY <1>1, BeginKeepsRequests
<1>2. CASE RoleTableStep /\ UNCHANGED config
  BY <1>2, WatchKeepsRequests DEF RoleTableStep
<1>3. CASE req' = NoReq
  BY <1>3 DEF RequestInv
<1>4. CASE UNCHANGED <<config, req, admins, members, nextId>>
  BY <1>4 DEF RequestInv, CreateRequest, UnlockRequest, Repo, Path, MaxLocks, LiveRole
<1> QED
  BY <1>1, <1>2, <1>3, <1>4
     DEF Next, Step, vars, accessVars, lockVars, HandleCreateLock, HandleLockCreate, CreateLock, Refuse,
         HandleUnlock, HandleLockDelete, DeleteLock, StartScan, HandleVerifyLocks, HandleListLocks,
         HandleLockVerify, HandleLockList, Page, HandleSetRole, SetRoleStart, HandleSetQuota,
         SetQuotaCreatesRow, LibraryStart, PromoteStart, DemoteStart, StartDbTask, RestartServer, Tick

\* What a handler acts on, from what it looked up.
LEMMA LookupIsBacked ==
    ASSUME RequestInv, req # NoReq
    PROVE  /\ Rank(RoleRead) <= req.best
           /\ RoleRead = "admin" => req.best = 2
<1>1. req.best \in 0..2
  BY DEF RequestInv, CreateRequest, UnlockRequest
<1>2. CASE req.admin
  BY <1>1, <1>2 DEF RequestInv, RoleRead, Rank
<1>3. CASE ~req.admin /\ ReadMembers(req.pk)
  <2>1. Rank(LiveRole(req.pk)) >= 1 /\ Rank(LiveRole(req.pk)) \in 0..2
    BY <1>3, RankType DEF ReadMembers, LiveRole
  <2>2. RoleRead = "member" /\ Rank(RoleRead) = 1
    BY <1>3 DEF RoleRead, Rank
  <2>3. Rank(LiveRole(req.pk)) <= req.best
    BY DEF RequestInv
  <2> QED
    BY <1>1, <2>1, <2>2, <2>3
<1>4. CASE ~req.admin /\ ~ReadMembers(req.pk)
  BY <1>1, <1>4 DEF RoleRead, Rank
<1> QED
  BY <1>2, <1>3, <1>4

-----------------------------------------------------------------------------
(* Locks.                                                                  *)

LEMMA LockConstants ==
    ASSUME config \in Configs
    PROVE  MaxLocks \in Nat /\ MaxNow \in Nat /\ Limits \subseteq Nat /\ LockDb \in {"memory", "sqlite"}
BY LockAssumption DEF MaxLocks, MaxNow, Limits, LockDb

\* A create adds a lock to a path nobody holds, or changes nothing.
LEMMA CreateKeepsLocks ==
    ASSUME LocksInv, RequestInv, req.op = "create", CreateLock, UNCHANGED <<config, now>>
    PROVE  LocksInv'
<1>1. req \in CreateRequest /\ nextId <= MaxLocks
  BY DEF RequestInv, UnlockRequest, NoReq
<1>2. req.args.repo \in Repo /\ req.args.path \in Path /\ req.pk \in Pubkey
  BY <1>1 DEF CreateRequest
<1>3. Lock' = Lock /\ MaxLocks' = MaxLocks /\ MaxNow' = MaxNow /\ MaxLocks \in Nat /\ MaxNow \in Nat
  BY LockConstants DEF Lock, MaxLocks, MaxNow, Repo, Path, LocksInv
<1>4. CASE UNCHANGED <<locks, nextId>>
  BY <1>3, <1>4 DEF LocksInv, OneLockPerPath
<1>5. CASE /\ Conflict(req.args.repo, req.args.path) = {}
           /\ locks' = locks \cup {NewLock(req.args.repo, req.args.path, req.pk)}
           /\ nextId' = nextId + 1
  <2> DEFINE new == NewLock(req.args.repo, req.args.path, req.pk)
  <2>1. /\ new \in Lock /\ new.at = now /\ new.repo = req.args.repo /\ new.path = req.args.path
    BY <1>1, <1>2, <1>3 DEF NewLock, Lock, LocksInv
  <2>2. \A l \in locks : ~(l.repo = new.repo /\ l.path = new.path)
    BY <1>5, <2>1 DEF Conflict
  <2> HIDE DEF new
  <2>3. locks' = locks \cup {new}
    BY <1>5 DEF new
  <2>4. IsFiniteSet(locks')
    BY <2>3, FS_AddElement DEF LocksInv
  <2>5. OneLockPerPath'
    BY <2>2, <2>3 DEF OneLockPerPath, LocksInv
  <2>6. \A l \in locks' : l.at <= now
    BY <2>1, <2>3, <1>3 DEF LocksInv
  <2>7. nextId' \in 1..(MaxLocks + 1)
    BY <1>1, <1>3, <1>5 DEF LocksInv
  <2> QED
    BY <1>3, <2>1, <2>3, <2>4, <2>5, <2>6, <2>7 DEF LocksInv
<1> QED
  BY <1>4, <1>5 DEF CreateLock, Refuse

\* An unlock takes away one lock, or none.
LEMMA DeleteKeepsLocks ==
    ASSUME LocksInv, DeleteLock, UNCHANGED <<config, now>>
    PROVE  LocksInv'
<1>1. Lock' = Lock /\ MaxLocks' = MaxLocks /\ MaxNow' = MaxNow
  BY DEF Lock, MaxLocks, MaxNow, Repo, Path
<1>2. locks' \subseteq locks /\ nextId' = nextId
  BY DEF DeleteLock, Refuse
<1>3. IsFiniteSet(locks')
  BY <1>2, FS_Subset DEF LocksInv
<1> QED
  BY <1>1, <1>2, <1>3 DEF LocksInv, OneLockPerPath

LEMMA LocksStep ==
    ASSUME LocksInv, RequestInv, [Next]_vars
    PROVE  LocksInv'
<1>1. CASE HandleCreateLock \/ HandleLockCreate
  BY <1>1, CreateKeepsLocks DEF HandleCreateLock, HandleLockCreate, accessVars
<1>2. CASE HandleUnlock \/ HandleLockDelete
  BY <1>2, DeleteKeepsLocks DEF HandleUnlock, HandleLockDelete, accessVars
<1>3. CASE Tick
  <2>1. MaxNow \in Nat
    BY LockConstants DEF LocksInv
  <2>2. now < MaxNow /\ now' = now + 1 /\ UNCHANGED <<config, locks, nextId>>
    BY <1>3 DEF Tick, accessVars
  <2>3. \A l \in locks : l.at \in Nat
    BY <2>1 DEF LocksInv, Lock
  <2> QED
    BY <2>1, <2>2, <2>3 DEF LocksInv, OneLockPerPath, Lock, Repo, Path, MaxLocks, MaxNow
<1>4. CASE UNCHANGED <<config, locks, nextId, now>>
  BY <1>4 DEF LocksInv, OneLockPerPath, Lock, Repo, Path, MaxLocks, MaxNow
<1> QED
  BY <1>1, <1>2, <1>3, <1>4
     DEF Next, Step, vars, accessVars, lockVars, BeginLockRequest, BeginRequest, StartScan,
         HandleVerifyLocks, HandleListLocks, HandleLockVerify, HandleLockList, Page, HandleSetRole,
         HandleSetQuota, LibraryStart, RoleTableStep, RestartServer

-----------------------------------------------------------------------------
(* Pages.                                                                  *)

\* Page p of ord goes from cursor c to e, and says rightly whether there is more.
Shows(p, ord, c, e) ==
    /\ Range(p.page) = {ord[i] : i \in (c + 1)..e}
    /\ Len(p.page) = e - c
    /\ IF p.more THEN p.next = e ELSE e = Len(ord)

LEMMA SubSeqShows ==
    ASSUME NEW L, NEW ord \in Seq(L), NEW c \in 0..Len(ord), NEW e \in c..Len(ord)
    PROVE  /\ Range(SubSeq(ord, c + 1, e)) = {ord[i] : i \in (c + 1)..e}
           /\ Len(SubSeq(ord, c + 1, e)) = e - c
<1> DEFINE s == SubSeq(ord, c + 1, e)
<1>1. Len(ord) \in Nat /\ c \in Nat /\ e \in Nat
  OBVIOUS
<1>2. s = [i \in 1..(e - c) |-> ord[i + c]]
  BY <1>1
<1>3. Len(s) = e - c
  BY <1>1
<1> HIDE DEF s
<1>4. Range(s) \subseteq {ord[i] : i \in (c + 1)..e}
  BY <1>1, <1>2 DEF Range
<1>5. ASSUME NEW i \in (c + 1)..e PROVE ord[i] \in Range(s)
  <2>1. i - c \in 1..(e - c) /\ (i - c) + c = i
    BY <1>1
  <2>2. s[i - c] = ord[i]
    BY <1>2, <2>1
  <2> QED
    BY <1>2, <2>1, <2>2 DEF Range
<1> QED
  BY <1>3, <1>4, <1>5 DEF s

\* Either database shows the locks that follow the cursor.
LEMMA MemoryShows ==
    ASSUME NEW L, NEW ord \in Seq(L), NEW c \in 0..Len(ord), NEW limit \in Nat
    PROVE  \E e \in c..Len(ord) : Shows(ListLocksMemory(ord, c, limit), ord, c, e)
<1> DEFINE n == Len(ord)
           end == IF c + limit < n THEN c + limit ELSE n
           p == ListLocksMemory(ord, c, limit)
<1>1. n \in Nat /\ c \in Nat /\ end \in c..n /\ end \in Nat
  OBVIOUS
<1>2. CASE c >= n
  <2>1. p = [page |-> <<>>, more |-> FALSE, next |-> c] /\ c = n
    BY <1>1, <1>2 DEF ListLocksMemory
  <2>2. Range(<<>>) = {} /\ Len(<<>>) = 0
    BY DEF Range
  <2>3. {ord[i] : i \in (c + 1)..c} = {}
    BY <1>1
  <2>4. Shows(p, ord, c, c)
    BY <1>1, <2>1, <2>2, <2>3 DEF Shows
  <2> QED
    BY <1>1, <2>1, <2>4
<1>3. CASE c < n
  <2>1. p = [page |-> SubSeq(ord, c + 1, end), more |-> end < n, next |-> end]
    BY <1>1, <1>3 DEF ListLocksMemory, Smaller
  <2> HIDE DEF p
  <2>2. p.page = SubSeq(ord, c + 1, end) /\ (p.more <=> end < n) /\ p.next = end
    BY <2>1, Zenon
  <2>3. /\ Range(SubSeq(ord, c + 1, end)) = {ord[i] : i \in (c + 1)..end}
        /\ Len(SubSeq(ord, c + 1, end)) = end - c
    BY <1>1, SubSeqShows
  <2> HIDE DEF end
  <2>4. Shows(p, ord, c, end)
    BY <1>1, <2>2, <2>3 DEF Shows
  <2> QED
    BY <1>1, <2>4 DEF p
<1> QED
  BY <1>1, <1>2, <1>3

LEMMA SqlShows ==
    ASSUME NEW L, NEW ord \in Seq(L), NEW c \in 0..Len(ord), NEW limit \in Nat
    PROVE  \E e \in c..Len(ord) : Shows(ListLocksSql(ord, c, limit), ord, c, e)
<1> DEFINE n == Len(ord)
           last == IF c + limit + 1 < n THEN c + limit + 1 ELSE n
           end == IF c + limit < n THEN c + limit ELSE n
           rows == SubSeq(ord, c + 1, last)
           p == ListLocksSql(ord, c, limit)
<1>1. n \in Nat /\ c \in Nat /\ last \in c..n /\ last \in Nat /\ end \in c..n /\ end \in Nat /\ end <= last
  OBVIOUS
<1>2. Len(rows) = last - c
  BY <1>1, SubSeqShows
<1>3. SubSeq(rows, 1, end - c) = SubSeq(ord, c + 1, end)
  <2>1. rows = [i \in 1..(last - c) |-> ord[i + c]]
    BY <1>1
  <2> HIDE DEF rows, last, end
  <2>2. SubSeq(rows, 1, end - c) = [i \in 1..(end - c) |-> rows[i]]
    BY <1>1, <1>2
  <2>3. SubSeq(ord, c + 1, end) = [i \in 1..(end - c) |-> ord[i + c]]
    BY <1>1
  <2>4. \A i \in 1..(end - c) : rows[i] = ord[i + c]
    BY <1>1, <2>1
  <2> QED
    BY <2>2, <2>3, <2>4
<1>4. Smaller(Len(rows), limit) = end - c
  BY <1>1, <1>2 DEF Smaller
<1>5. (Len(rows) > limit <=> end < n) /\ (end < n => end = c + limit)
  BY <1>1, <1>2
<1>6. p = [page |-> SubSeq(rows, 1, end - c), more |-> Len(rows) > limit, next |-> c + limit]
  BY <1>4 DEF ListLocksSql, Smaller
<1> HIDE DEF p, rows, last, end
<1>7. p.page = SubSeq(ord, c + 1, end) /\ (p.more <=> Len(rows) > limit) /\ p.next = c + limit
  BY <1>3, <1>6, Zenon
<1>8. Shows(p, ord, c, end)
  BY <1>1, <1>5, <1>7, SubSeqShows DEF Shows
<1> QED
  BY <1>1, <1>8 DEF p

\* The first e of n different things are e things.
LEMMA PrefixCounts ==
    ASSUME NEW L, NEW n \in Nat, NEW ord \in Injection(1..n, L), NEW e \in 0..n
    PROVE  Cardinality({ord[i] : i \in 1..e}) = e
<1> DEFINE T == {ord[i] : i \in 1..e}
           f == [i \in 1..e |-> ord[i]]
<1>1. f \in Bijection(1..e, T)
  BY DEF Injection, Surjection, Bijection, IsInjective
<1>2. ExistsBijection(1..e, T)
  BY <1>1 DEF ExistsBijection
<1> HIDE DEF T, f
<1>3. e \in Nat
  OBVIOUS
<1>4. Cardinality(T) = e
  BY <1>2, <1>3, FS_CountingElements
<1> QED
  BY <1>4 DEF T

\* Indexes that come with all smaller ones are the first indexes.
LEMMA InitialSegment ==
    ASSUME NEW n \in Nat, NEW I \in SUBSET (1..n), \A j \in I : \A i \in 1..n : i < j => i \in I
    PROVE  Cardinality(I) \in 0..n /\ I = 1..Cardinality(I)
<1> DEFINE c == Cardinality(I)
<1>1. IsFiniteSet(1..n) /\ Cardinality(1..n) = n
  BY FS_Interval
<1>2. IsFiniteSet(I) /\ c <= n
  BY <1>1, FS_Subset
<1>3. c \in Nat
  BY <1>2, FS_CardinalityType
<1>4. IsFiniteSet(1..c) /\ Cardinality(1..c) = c
  BY <1>3, FS_Interval
<1>5. 1..c \subseteq I
  <2> SUFFICES ASSUME NEW j \in 1..c, j \notin I PROVE FALSE
    OBVIOUS
  <2>1. j \in 1..n /\ j - 1 \in Nat
    BY <1>2, <1>3
  <2>2. I \subseteq 1..(j - 1)
    BY <2>1
  <2>3. IsFiniteSet(1..(j - 1)) /\ Cardinality(1..(j - 1)) = j - 1
    BY <2>1, FS_Interval
  <2>4. c <= j - 1
    BY <2>2, <2>3, FS_Subset, ZenonT(30)
  <2> QED
    BY <1>3, <2>1, <2>4
<1>6. 1..c = I
  BY <1>2, <1>4, <1>5, FS_Subset
<1> QED
  BY <1>2, <1>3, <1>6

\* Sorted by age, a set that comes with all that is older is an initial part.
LEMMA OldestFirst ==
    ASSUME NEW L, IsFiniteSet(L), \A l \in L : l.at \in Nat, NoTies(L), NEW ord \in ByAge(L),
           NEW S \in SUBSET L, \A l \in S : \A m \in L : m.at < l.at => m \in S
    PROVE  /\ ord \in Seq(L) /\ Len(ord) \in Nat
           /\ ord \in Injection(1..Len(ord), L)
           /\ L = {ord[i] : i \in 1..Len(ord)}
           /\ Cardinality(S) \in 0..Len(ord)
           /\ S = {ord[i] : i \in 1..Cardinality(S)}
<1> DEFINE n == Cardinality(L)
           I == {i \in 1..n : ord[i] \in S}
<1>1. n \in Nat
  BY FS_CardinalityType
<1>2. ord \in [1..n -> L] /\ \A i, j \in 1..n : i # j => ord[i] # ord[j]
  BY DEF ByAge, Injection, IsInjective
<1>3. ord \in Seq(L) /\ Len(ord) = n
  BY <1>1, <1>2
<1>4. \A i, j \in 1..n : i < j => ord[i].at <= ord[j].at
  BY <1>3 DEF ByAge
<1> HIDE DEF n
<1>5. ord \in Injection(1..n, L)
  BY <1>2 DEF Injection, IsInjective
<1>6. L = {ord[i] : i \in 1..n}
  <2>1. Cardinality(1..n) = n
    BY <1>1, FS_Interval
  <2>2. ord \in Surjection(1..n, L)
    BY <1>5, <2>1, FS_Injection DEF n
  <2> QED
    BY <2>2 DEF Surjection
<1>7. ASSUME NEW j \in I, NEW i \in 1..n, i < j PROVE i \in I
  <2>1. ord[i] \in L /\ ord[j] \in L /\ ord[i].at \in Nat /\ ord[j].at \in Nat /\ j \in 1..n
    BY <1>2
  <2>2. ord[i].at <= ord[j].at /\ ord[i] # ord[j]
    BY <1>1, <1>2, <1>4, <1>7, <2>1
  <2>3. ord[i].at < ord[j].at
    BY <2>1, <2>2 DEF NoTies
  <2> QED
    BY <2>1, <2>3
<1>8. Cardinality(I) \in 0..n /\ I = 1..Cardinality(I)
  BY <1>1, <1>7, InitialSegment
<1>9. S = {ord[i] : i \in I}
  BY <1>6
<1> HIDE DEF I
<1>10. S = {ord[i] : i \in 1..Cardinality(I)}
  BY <1>8, <1>9
<1>11. Cardinality(S) = Cardinality(I)
  BY <1>1, <1>5, <1>8, <1>10, PrefixCounts
<1> QED
  BY <1>1, <1>3, <1>5, <1>6, <1>8, <1>10, <1>11

-----------------------------------------------------------------------------
(* Scans.                                                                  *)

LEMMA PageKeepsScan ==
    ASSUME LocksInv, ScanInv, NEW limit \in Nat, Page(limit)
    PROVE  ScanInv'
<1> DEFINE L == LocksOf(scan.repo)
           S == Seen
           c == scan.cursor
<1>1. UNCHANGED <<config, locks>> /\ scan.status = "paging" /\ scan \in Scan
  BY DEF Page, accessVars, ScanInv, NoScan, Disturbed
<1>2. /\ NoTies(L) /\ scan.start \subseteq L /\ S \subseteq L
      /\ \A l \in S : \A m \in L : m.at < l.at => m \in S
      /\ c = Cardinality(S) /\ scan.shown = c
      /\ \A l \in scan.ours : l.pubkey = scan.pk
      /\ \A l \in scan.theirs : l.pubkey # scan.pk
  BY <1>1 DEF ScanInv
<1>3. L \subseteq locks /\ IsFiniteSet(L) /\ L \subseteq Lock
  BY FS_Subset DEF LocksOf, LocksInv
<1>4. \A l \in L : l.at \in Nat
  <2>1. MaxNow \in Nat
    BY LockConstants DEF LocksInv
  <2> QED
    BY <1>3, <2>1 DEF Lock
<1>5. PICK ord \in ByAge(L) : ShowPage(ListLocks(ord, c, limit))
  BY DEF Page
<1> DEFINE p == ListLocks(ord, c, limit)
           P == Range(p.page)
           n == Len(ord)
<1>6. /\ ord \in Seq(L) /\ n \in Nat /\ ord \in Injection(1..n, L)
      /\ L = {ord[i] : i \in 1..n} /\ c \in 0..n
      /\ S = {ord[i] : i \in 1..c}
  <2> HIDE DEF L, S
  <2> QED
    BY <1>2, <1>3, <1>4, OldestFirst
<1>7. \A i, j \in 1..n : i < j => ord[i].at <= ord[j].at
  BY DEF ByAge
<1>8. PICK e \in c..n : Shows(p, ord, c, e)
  BY <1>6, MemoryShows, SqlShows DEF ListLocks
<1>9. /\ P = {ord[i] : i \in (c + 1)..e} /\ Len(p.page) = e - c
      /\ p.more => p.next = e
      /\ ~p.more => e = n
      /\ e \in 0..n /\ c \in Nat /\ e \in Nat
  BY <1>6, <1>8 DEF Shows
<1>10. scan' = [scan EXCEPT
        !.ours = @ \cup {l \in P : l.pubkey = scan.pk},
        !.theirs = @ \cup {l \in P : l.pubkey # scan.pk},
        !.shown = @ + Len(p.page),
        !.cursor = IF p.more THEN p.next ELSE @,
        !.status = IF p.more THEN "paging" ELSE "done"]
  BY <1>5 DEF ShowPage
<1> HIDE DEF L, S, c, p, P, n
<1>11. P \subseteq L
  <2>1. \A i \in (c + 1)..e : i \in 1..n
    BY <1>6, <1>9
  <2> QED
    BY <1>6, <1>9, <2>1
<1>12. /\ scan'.ours = scan.ours \cup {l \in P : l.pubkey = scan.pk}
       /\ scan'.theirs = scan.theirs \cup {l \in P : l.pubkey # scan.pk}
       /\ scan'.shown = scan.shown + Len(p.page)
       /\ p.more => scan'.cursor = p.next /\ scan'.status = "paging"
       /\ ~p.more => scan'.cursor = scan.cursor /\ scan'.status = "done"
       /\ scan'.pk = scan.pk /\ scan'.repo = scan.repo /\ scan'.start = scan.start
       /\ scan'.limit = scan.limit
  BY <1>1, <1>10 DEF Scan
<1>13. scan' \in Scan
  <2>1. scan'.ours \subseteq Lock /\ scan'.theirs \subseteq Lock
    BY <1>1, <1>3, <1>11, <1>12 DEF Scan
  <2>2. scan'.shown \in Nat /\ scan'.cursor \in Nat /\ scan'.status \in {"paging", "done"}
    BY <1>1, <1>2, <1>9, <1>12 DEF Scan
  <2>3. scan' = [status |-> scan'.status, pk |-> scan.pk, repo |-> scan.repo, limit |-> scan.limit,
                 cursor |-> scan'.cursor, ours |-> scan'.ours, theirs |-> scan'.theirs,
                 shown |-> scan'.shown, start |-> scan.start]
    BY <1>1, <1>10 DEF Scan
  <2>4. scan.pk \in Pubkey /\ scan.repo \in Repo /\ scan.limit \in Nat /\ scan.start \in SUBSET Lock
    BY <1>1 DEF Scan
  <2> QED
    BY <2>1, <2>2, <2>3, <2>4 DEF Scan
<1>14. Seen' = S \cup P
  BY <1>12 DEF Seen, S
<1>15. Seen' = {ord[i] : i \in 1..e}
  BY <1>6, <1>8, <1>9, <1>14
<1>16. Cardinality(Seen') = e /\ scan'.shown = e
  <2>1. Cardinality(Seen') = e
    BY <1>6, <1>9, <1>15, PrefixCounts
  <2>2. scan'.shown = e
    BY <1>2, <1>9, <1>12
  <2> QED
    BY <2>1, <2>2
<1>17. /\ \A l \in scan'.ours : l.pubkey = scan'.pk
       /\ \A l \in scan'.theirs : l.pubkey # scan'.pk
  BY <1>2, <1>12
<1>18. LocksOf(scan.repo)' = L /\ Scan' = Scan
  BY <1>1, <1>12 DEF LocksOf, L, Scan, Lock, MaxLocks, MaxNow, Repo, Path
<1>19. CASE p.more
  <2>1. scan'.status = "paging" /\ scan'.cursor = e
    BY <1>9, <1>12, <1>19
  <2>2. ASSUME NEW l \in Seen', NEW m \in L, m.at < l.at PROVE m \in Seen'
    <3>1. PICK i \in 1..e : l = ord[i]
      BY <1>15
    <3>2. PICK j \in 1..n : m = ord[j]
      BY <1>6
    <3>3. i \in 1..n /\ l \in L /\ m \in L
      BY <1>6, <1>9, <3>1
    <3>4. l.at \in Nat /\ m.at \in Nat
      BY <1>4, <3>3 DEF L
    <3>5. ~(i < j) /\ i # j
      BY <1>7, <2>2, <3>1, <3>2, <3>3, <3>4
    <3>6. j \in 1..e
      BY <1>6, <1>9, <3>5
    <3> QED
      BY <1>15, <3>2, <3>6
  <2>3. Seen' \subseteq L
    BY <1>2, <1>11, <1>14
  <2>4. NoTies(LocksOf(scan.repo))'
    BY <1>2, <1>18 DEF NoTies
  <2> QED
    BY <1>2, <1>12, <1>13, <1>16, <1>17, <1>18, <2>1, <2>2, <2>3, <2>4
       DEF ScanInv, ScanShowsStandingLocks
<1>20. CASE ~p.more
  <2>1. scan'.status = "done" /\ Seen' = L
    BY <1>6, <1>9, <1>12, <1>15, <1>20
  <2>2. scan'.start \subseteq Seen'
    BY <1>2, <1>12, <2>1
  <2> QED
    BY <1>13, <1>16, <1>17, <1>18, <2>1, <2>2 DEF ScanInv, ScanShowsStandingLocks, Seen
<1> QED
  BY <1>19, <1>20

LEMMA StartKeepsScan ==
    ASSUME LocksInv, NEW pk \in Pubkey, NEW repo \in Repo, NEW limit \in Limits,
           StartScan(pk, repo, limit)
    PROVE  ScanInv'
<1>1. /\ scan' = [status |-> "paging", pk |-> pk, repo |-> repo,
                  limit |-> limit, cursor |-> 0, ours |-> {}, theirs |-> {}, shown |-> 0,
                  start |-> LocksOf(repo)]
      /\ NoTies(LocksOf(repo)) /\ UNCHANGED <<config, locks>>
  BY DEF StartScan, accessVars
<1>2. LocksOf(repo) \subseteq Lock /\ limit \in Nat
  BY LockConstants DEF LocksOf, LocksInv
<1>3. scan' \in Scan
  BY <1>1, <1>2 DEF Scan
<1>4. Seen' = {} /\ Cardinality(Seen') = 0
  BY <1>1, FS_EmptySet DEF Seen
<1>5. Scan' = Scan /\ LocksOf(scan.repo)' = LocksOf(repo)
  BY <1>1 DEF Scan, Lock, MaxLocks, MaxNow, Repo, Path, LocksOf
<1>6. NoTies(LocksOf(scan.repo))'
  BY <1>1, <1>5 DEF NoTies
<1>7. /\ scan'.status = "paging" /\ scan'.ours = {} /\ scan'.theirs = {} /\ scan'.start = LocksOf(repo)
      /\ scan'.cursor = 0 /\ scan'.shown = 0
  BY <1>1
<1> QED
  BY <1>3, <1>4, <1>5, <1>6, <1>7 DEF ScanInv, ScanShowsStandingLocks

\* A scan that is not disturbed by a create or an unlock: new locks are younger.
LEMMA WatchKeepsScan ==
    ASSUME LocksInv, LocksInv', ScanInv, WatchScan, UNCHANGED config,
           \A m \in locks' \ locks : \A l \in locks : l.at <= m.at
    PROVE  ScanInv'
<1>1. Scan' = Scan /\ Lock' = Lock
  BY DEF Scan, Lock, MaxLocks, MaxNow, Repo, Path
<1>2. CASE scan.status # "paging"
  <2>1. scan' = scan
    BY <1>2 DEF WatchScan
  <2> QED
    BY <1>1, <1>2, <2>1 DEF ScanInv, ScanShowsStandingLocks
<1>3. CASE scan.status = "paging" /\ ~StillCalm
  <2>1. scan' = Disturbed
    BY <1>3 DEF WatchScan
  <2>2. scan'.status = "disturbed"
    BY <2>1 DEF Disturbed
  <2> QED
    BY <1>1, <2>1, <2>2 DEF ScanInv, ScanShowsStandingLocks
<1>4. CASE scan.status = "paging" /\ StillCalm
  <2> DEFINE L == LocksOf(scan.repo)
             K == {l \in locks' : l.repo = scan.repo}
  <2>1. scan' = scan
    BY <1>4 DEF WatchScan
  <2>2. LocksOf(scan.repo)' = K /\ Seen' = Seen
    BY <2>1 DEF LocksOf, Seen
  <2>3. L \subseteq K /\ NoTies(K)
    BY <1>4 DEF StillCalm, LocksOf
  <2>4. MaxNow \in Nat
    BY LockConstants DEF LocksInv
  <2>5. \A l \in locks \cup locks' : l.at \in Nat
    BY <1>1, <2>4 DEF LocksInv, Lock
  <2>6. Seen \subseteq L /\ \A l \in Seen, m \in L : m.at < l.at => m \in Seen
    BY <1>4 DEF ScanInv
  <2>7. ASSUME NEW l \in Seen, NEW m \in K, m.at < l.at PROVE m \in Seen
    <3>1. l \in locks /\ l.at \in Nat /\ m.at \in Nat
      BY <2>5, <2>6 DEF LocksOf
    <3>2. m \in locks
      BY <2>7, <3>1
    <3> QED
      BY <2>6, <2>7, <3>2 DEF LocksOf
  <2>8. NoTies(LocksOf(scan.repo))'
    BY <2>2, <2>3 DEF NoTies
  <2> HIDE DEF K, L
  <2> QED
    BY <1>1, <1>4, <2>1, <2>2, <2>3, <2>6, <2>7, <2>8 DEF ScanInv, ScanShowsStandingLocks, L
<1> QED
  BY <1>2, <1>3, <1>4

LEMMA ScanUnchanged ==
    ASSUME ScanInv, UNCHANGED <<config, locks, scan>>
    PROVE  ScanInv'
BY DEF ScanInv, ScanShowsStandingLocks, Scan, Lock, MaxLocks, MaxNow, Repo, Path, LocksOf, NoTies, Seen

LEMMA ScanStep ==
    ASSUME LocksInv, LocksInv', RequestInv, ScanInv, [Next]_vars
    PROVE  ScanInv'
<1>1. CASE HandleCreateLock \/ HandleLockCreate
  <2>1. CreateLock /\ UNCHANGED config
    BY <1>1 DEF HandleCreateLock, HandleLockCreate, accessVars
  <2>2. CASE UNCHANGED <<locks, scan>>
    BY <2>1, <2>2, ScanUnchanged
  <2>3. CASE locks' = locks \cup {NewLock(req.args.repo, req.args.path, req.pk)} /\ WatchScan
    <3>1. \A m \in locks' \ locks : m.at = now
      BY <2>3 DEF NewLock
    <3>2. \A m \in locks' \ locks : \A l \in locks : l.at <= m.at
      BY <3>1 DEF LocksInv
    <3> QED
      BY <2>1, <2>3, <3>2, WatchKeepsScan
  <2> QED
    BY <2>1, <2>2, <2>3 DEF CreateLock, Refuse
<1>2. CASE HandleUnlock \/ HandleLockDelete
  <2>1. DeleteLock /\ UNCHANGED config
    BY <1>2 DEF HandleUnlock, HandleLockDelete, accessVars
  <2>2. CASE UNCHANGED <<locks, scan>>
    BY <2>1, <2>2, ScanUnchanged
  <2>3. CASE locks' \subseteq locks /\ WatchScan
    <3>1. \A m \in locks' \ locks : \A l \in locks : l.at <= m.at
      BY <2>3
    <3> QED
      BY <2>1, <2>3, <3>1, WatchKeepsScan
  <2> QED
    BY <2>1, <2>2, <2>3 DEF DeleteLock, Refuse
<1>3. ASSUME NEW pk \in Pubkey, NEW repo \in Repo, NEW limit \in Limits, StartScan(pk, repo, limit)
      PROVE  ScanInv'
  BY <1>3, StartKeepsScan
<1>4. CASE Page(scan.limit) \/ Page(IrohLimit(scan.limit))
  <2>1. scan.limit \in Nat
    BY <1>4 DEF Page, ScanInv, Scan, NoScan, Disturbed
  <2>2. IrohLimit(scan.limit) \in Nat
    BY <2>1, LockAssumption DEF IrohLimit
  <2> QED
    BY <1>4, <2>1, <2>2, PageKeepsScan
<1>5. CASE UNCHANGED <<config, locks, scan>>
  BY <1>5, ScanUnchanged
<1> QED
  BY <1>1, <1>2, <1>3, <1>4, <1>5
     DEF Next, Step, vars, accessVars, lockVars, BeginLockRequest, BeginRequest, HandleVerifyLocks,
         HandleListLocks, HandleLockVerify, HandleLockList, HandleSetRole, HandleSetQuota,
         LibraryStart, RoleTableStep, RestartServer, Tick

-----------------------------------------------------------------------------
(* The theorems.                                                           *)

\* The invariant holds in every state of the lock service.
THEOREM Invariance == Spec => []Inv
<1>1. LockInit => Inv
  <2> SUFFICES ASSUME LockInit PROVE Inv
    OBVIOUS
  <2>1. MaxLocks \in Nat /\ MaxNow \in Nat
    BY LockConstants DEF LockInit
  <2>2. RolesInv
    BY InitSettles DEF LockInit
  <2>3. RequestInv
    BY DEF LockInit, RequestInv
  <2>4. LocksInv
    BY <2>1, FS_EmptySet DEF LockInit, LocksInv, OneLockPerPath
  <2>5. ScanInv
    BY DEF LockInit, ScanInv, ScanShowsStandingLocks, NoScan
  <2> QED
    BY <2>2, <2>3, <2>4, <2>5 DEF Inv
<1>2. Inv /\ [Next]_vars => Inv'
  <2> SUFFICES ASSUME Inv, [Next]_vars PROVE Inv'
    OBVIOUS
  <2>1. RolesInv'
    BY RolesStep DEF Inv
  <2>2. RequestInv' /\ LocksInv'
    BY RequestStep, LocksStep DEF Inv
  <2>3. ScanInv'
    BY <2>2, ScanStep DEF Inv
  <2> QED
    BY <2>1, <2>2, <2>3 DEF Inv
<1> QED
  BY <1>1, <1>2, PTL DEF Spec

\* The role table, the locks, the request and the scan keep their types.
THEOREM TypeCorrect == Spec => []TypeOK
<1>1. Inv => TypeOK
  <2> SUFFICES ASSUME Inv PROVE TypeOK
    OBVIOUS
  <2>1. AccessTypeOK
    BY DEF Inv, RolesInv, RolesType, DbTask, SetTask, AccessTypeOK
  <2>2. req = NoReq \/ req.op \in {"create", "unlock"}
    BY DEF Inv, RequestInv, CreateRequest, UnlockRequest
  <2>3. scan.status \in {"none", "paging", "done", "disturbed"}
    BY DEF Inv, ScanInv, Scan, NoScan, Disturbed
  <2> QED
    BY <2>1, <2>2, <2>3 DEF TypeOK, Inv, LocksInv, Lock
<1> QED
  BY <1>1, Invariance, PTL

\* A completed set_role, promote_admin, demote_to_member or restart leaves the
\* live sets and the users table agreeing on the key, however calls interleave.
THEOREM RolesAreLive == Spec => []SettledRolesAreLive
<1>1. Inv => SettledRolesAreLive
  BY DEF Inv, RolesInv
<1> QED
  BY <1>1, Invariance, PTL

\* No two locks are held on the same path of a repository.
THEOREM LocksExclude == Spec => []OneLockPerPath
<1>1. Inv => OneLockPerPath
  BY DEF Inv, LocksInv
<1> QED
  BY <1>1, Invariance, PTL

\* The two looks of role() never add up to a role higher than the key had at
\* some moment of the lookup.
THEOREM RolesAreNotOverstated == Spec => []RoleNeverOverstated
<1>1. Inv => RoleNeverOverstated
  BY LookupIsBacked DEF Inv, RoleNeverOverstated
<1> QED
  BY <1>1, Invariance, PTL

\* A client that paged to the end, undisturbed, was shown every lock once.
THEOREM ScansAreComplete == Spec => []ScanShowsStandingLocks
<1>1. Inv => ScanShowsStandingLocks
  BY DEF Inv, ScanInv
<1> QED
  BY <1>1, Invariance, PTL

\* A lock goes away only at the hand of its owner or of an admin who forces it.
THEOREM ReleasedByRight == Spec => LocksReleasedByRight
<1> DEFINE Right == \A l \in locks \ locks' :
                       /\ req.op = "unlock"
                       /\ l.pubkey = req.pk \/ (req.args.force /\ req.best = Rank("admin"))
<1>1. ASSUME RequestInv, [Next]_vars
      PROVE  Right
  <2>1. CASE HandleUnlock \/ HandleLockDelete
    <3> DEFINE lock == CHOOSE l \in ById(req.args.repo, req.args.id) : TRUE
    <3>1. req.op = "unlock" /\ DeleteLock
      BY <2>1 DEF HandleUnlock, HandleLockDelete
    <3>2. req # NoReq
      BY <3>1 DEF NoReq
    <3>3. Rank("admin") = 2
      BY DEF Rank
    <3>4. CASE locks' = locks
      BY <3>4
    <3>5. CASE locks' = locks \ {lock} /\ MayDelete(lock, req.args.force, req.pk, RoleRead = "admin")
      <4> HIDE DEF lock
      <4>1. lock.pubkey = req.pk \/ (req.args.force /\ RoleRead = "admin")
        BY <3>5 DEF MayDelete
      <4> QED
        BY <1>1, <3>1, <3>2, <3>3, <3>5, <4>1, LookupIsBacked
    <3> HIDE DEF Right
    <3> QED
      BY <3>1, <3>4, <3>5 DEF DeleteLock, Refuse
  <2>2. CASE locks \subseteq locks'
    BY <2>2
  <2> HIDE DEF Right
  <2> QED
    BY <1>1, <2>1, <2>2
       DEF Next, Step, vars, lockVars, BeginLockRequest, BeginRequest, HandleCreateLock,
           HandleLockCreate, CreateLock, Refuse, StartScan, HandleVerifyLocks, HandleListLocks,
           HandleLockVerify, HandleLockList, Page, HandleSetRole, HandleSetQuota, LibraryStart,
           RoleTableStep, RestartServer, Tick
<1>2. Inv /\ [Next]_vars => [Right]_vars
  BY <1>1 DEF Inv
<1> QED
  BY <1>2, Invariance, PTL DEF Spec, LocksReleasedByRight
=============================================================================
