---------------------------- MODULE LockService ----------------------------
(***************************************************************************)
(* LFS file locks (BUD-19): the lock databases of src/locks/, the HTTP     *)
(* handlers of src/server/locks.rs and the iroh handlers of                *)
(* src/transport/iroh_transport.rs, composed with the live role table of   *)
(* RoleBasedAccess, from which the handlers take the caller's role.        *)
(*                                                                         *)
(* A handler runs under the server's state mutex, in two steps: role()     *)
(* looks at the admins, then at the members, and the rest of the handler   *)
(* follows. Library calls that change the role sets do not take the mutex  *)
(* and may run in between. A client that lists or verifies locks pages     *)
(* through them with one request per page, and anything may happen between *)
(* two pages.                                                              *)
(***************************************************************************)
EXTENDS RoleBasedAccess, Sequences, Functions

CONSTANTS
    DefaultLimit,   \* the page size when none is given (100 in the code)
    Configs         \* set-ups of the server and its clients

ASSUME LockAssumption ==
    /\ DefaultLimit \in Nat
    /\ \A c \in Configs :
         /\ c.bootstrap \subseteq Pubkey /\ c.calls \subseteq AllCalls
         /\ c.db \in {"memory", "sqlite"} /\ c.limits \subseteq Nat
         /\ c.maxLocks \in Nat /\ c.maxNow \in Nat

VARIABLES
    locks,   \* the lock records
    nextId,  \* the next id: uuids never repeat
    now,     \* seconds, the resolution of locked_at
    req,     \* the handler that holds the state mutex, or NoReq
    scan     \* the client that pages through the locks, or NoScan

lockVars == <<locks, nextId, now, req, scan>>
vars == <<accessVars, lockVars>>

Repo == config.repos          \* repository ids,
Path == config.paths          \* and file paths, without the separator ":"
LockDb == config.db           \* "memory" or "sqlite"
Limits == config.limits       \* page sizes a client asks for; 0 is a legal request
MaxLocks == config.maxLocks   \* bound: lock ids ever handed out
MaxNow == config.maxNow       \* bound: seconds on the clock

NoReq == [op |-> "none"]
NoScan == [status |-> "none"]
Disturbed == [status |-> "disturbed"]

LocksOf(repo) == {l \in locks : l.repo = repo}

-----------------------------------------------------------------------------
\* create_lock of both databases: the holder of the path, or the empty set.
\* MUTANT: the path is not looked up.
ConflictNone(repo, path) == {}

Conflict(repo, path) == {l \in locks : l.repo = repo /\ l.path = path}

NewLock(repo, path, pk) ==
    [id |-> nextId, repo |-> repo, path |-> path, pubkey |-> pk, at |-> now]

\* delete_lock: the record of that id, unless the caller may not have it.
ById(repo, id) == {l \in locks : l.repo = repo /\ l.id = id}

\* MUTANT: the flag is honoured for whoever sends it.
MayDeleteForced(lock, force, pk, admin) == force \/ lock.pubkey = pk

\* force = body.force && is_admin, then !force && lock.pubkey != requester.
MayDelete(lock, force, pk, admin) == (force /\ admin) \/ lock.pubkey = pk

-----------------------------------------------------------------------------
\* list_locks: one page, and the next cursor if there is more. ord is the
\* result of the sort by locked_at: locks of the same second may come in any
\* order, and in another order the next time.
ByAge(S) == {ord \in Injection(1..Cardinality(S), S) : \A i, j \in 1..Len(ord) : i < j => ord[i].at <= ord[j].at}

Smaller(a, b) == IF a < b THEN a ELSE b

\* The in-memory database cuts the page out of the whole list.
ListLocksMemory(ord, cursor, limit) ==
    LET end == Smaller(cursor + limit, Len(ord)) IN
    IF cursor >= Len(ord)
    THEN [page |-> <<>>, more |-> FALSE, next |-> cursor]
    ELSE [page |-> SubSeq(ord, cursor + 1, end), more |-> end < Len(ord), next |-> end]

\* MUTANT: the cursor counts the probe row as shown.
ListLocksSqlSkips(ord, cursor, limit) ==
    LET rows == SubSeq(ord, cursor + 1, Smaller(cursor + limit + 1, Len(ord))) IN
    [page |-> SubSeq(rows, 1, Smaller(Len(rows), limit)),
     more |-> Len(rows) > limit, next |-> cursor + limit + 1]

\* SQLite asks for one row more than the page, to learn whether there are more.
ListLocksSql(ord, cursor, limit) ==
    LET rows == SubSeq(ord, cursor + 1, Smaller(cursor + limit + 1, Len(ord))) IN
    [page |-> SubSeq(rows, 1, Smaller(Len(rows), limit)),
     more |-> Len(rows) > limit, next |-> cursor + limit]

ListLocks(ord, cursor, limit) ==
    IF LockDb = "memory" THEN ListLocksMemory(ord, cursor, limit)
                         ELSE ListLocksSql(ord, cursor, limit)

\* On the wire of iroh 0 stands for "no limit given"; HTTP passes it on.
IrohLimit(limit) == IF limit = 0 THEN DefaultLimit ELSE limit

-----------------------------------------------------------------------------
\* A handler that needs the caller's role takes the mutex and looks at the
\* admins. best is history: the highest role the key had while being looked up.
MutexFree == req = NoReq /\ dbTask.op # "set_role"

BeginRequest(op, pk, args) ==
    /\ MutexFree
    /\ req' = [op |-> op, pk |-> pk, args |-> args,
               admin |-> ReadAdmins(pk), best |-> Rank(LiveRole(pk))]
    /\ UNCHANGED <<accessVars, locks, nextId, now, scan>>

\* MUTANT: the second look takes a set that is being rewritten on trust.
RoleReadFailOpen ==
    IF req.admin THEN "admin"
    ELSE IF ReadMembers(req.pk) \/ setTask # Idle THEN "member" ELSE "denied"

\* The role the two looks add up to.
RoleRead ==
    IF req.admin THEN "admin" ELSE IF ReadMembers(req.pk) THEN "member" ELSE "denied"

\* The server notices nothing of a scan, but the property about scans does:
\* nothing is promised to one during which a lock of its repository goes away,
\* or two of them share a second, and it is not followed further.
NoTies(S) == \A l, m \in S : l.at = m.at => l = m
StillCalm ==
    /\ LocksOf(scan.repo) \subseteq locks'
    /\ NoTies({l \in locks' : l.repo = scan.repo})
WatchScan ==
    scan' = IF scan.status = "paging" THEN IF StillCalm THEN scan ELSE Disturbed
                                      ELSE scan

\* The refusals of a handler: only the mutex is given back.
Refuse == req' = NoReq /\ UNCHANGED <<locks, nextId, scan>>

\* The access check and create_lock, as both create handlers make them.
CreateLock ==
    LET held == Conflict(req.args.repo, req.args.path) IN
    \/ ~IsAllowed(RoleRead, "Lock") /\ Refuse
    \/ IsAllowed(RoleRead, "Lock") /\ held # {} /\ Refuse
    \/ /\ IsAllowed(RoleRead, "Lock") /\ held = {}
       /\ locks' = locks \cup {NewLock(req.args.repo, req.args.path, req.pk)}
       /\ nextId' = nextId + 1
       /\ WatchScan
       /\ req' = NoReq

\* HTTP, and iroh; they differ in what the answer carries.
HandleCreateLock == req.op = "create" /\ CreateLock /\ UNCHANGED <<accessVars, now>>
HandleLockCreate == req.op = "create" /\ CreateLock /\ UNCHANGED <<accessVars, now>>

\* delete_lock, as both unlock handlers call it: not found, forbidden, or gone.
DeleteLock ==
    LET found == ById(req.args.repo, req.args.id)
        lock == CHOOSE l \in found : TRUE
        may == MayDelete(lock, req.args.force, req.pk, RoleRead = "admin") IN
    \/ found = {} /\ Refuse
    \/ found # {} /\ ~may /\ Refuse
    \/ /\ found # {} /\ may
       /\ locks' = locks \ {lock}
       /\ WatchScan
       /\ req' = NoReq
       /\ UNCHANGED nextId

HandleUnlock == req.op = "unlock" /\ DeleteLock /\ UNCHANGED <<accessVars, now>>
HandleLockDelete == req.op = "unlock" /\ DeleteLock /\ UNCHANGED <<accessVars, now>>

-----------------------------------------------------------------------------
\* A client pages through the locks of a repository. ours and theirs are what
\* the pages showed it so far, start the locks held when it began. The server
\* keeps nothing of a scan, so one scan per behaviour, begun at any moment, is
\* every scan.
StartScan(pk, repo, limit) ==
    /\ scan = NoScan /\ NoTies(LocksOf(repo))
    /\ scan' = [status |-> "paging", pk |-> pk, repo |-> repo,
                limit |-> limit, cursor |-> 0, ours |-> {}, theirs |-> {}, shown |-> 0,
                start |-> LocksOf(repo)]
    /\ UNCHANGED <<accessVars, locks, nextId, now, req>>

\* What a page shows the client, and where it goes on.
ShowPage(result) ==
    LET page == Range(result.page) IN
    scan' = [scan EXCEPT
        !.ours = @ \cup {l \in page : l.pubkey = scan.pk},
        !.theirs = @ \cup {l \in page : l.pubkey # scan.pk},
        !.shown = @ + Len(result.page),
        !.cursor = IF result.more THEN result.next ELSE @,
        !.status = IF result.more THEN "paging" ELSE "done"]

Page(limit) ==
    /\ scan.status = "paging"
    /\ MutexFree
    /\ \E ord \in ByAge(LocksOf(scan.repo)) : ShowPage(ListLocks(ord, scan.cursor, limit))
    /\ UNCHANGED <<accessVars, locks, nextId, now, req>>

\* The verify handlers split a page by owner for the client; the list handlers
\* leave that to it. No page needs the caller's role.
HandleVerifyLocks == Page(scan.limit)
HandleListLocks == Page(scan.limit)
HandleLockVerify == Page(IrohLimit(scan.limit))
HandleLockList == Page(IrohLimit(scan.limit))

-----------------------------------------------------------------------------
\* Changes of the role table. A request in flight keeps the mutex, and with it
\* handle_set_role and handle_set_quota, out; other callers need no mutex.
WatchRequest ==
    req' = IF req = NoReq THEN req
           ELSE LET r == Rank(RoleIn(admins', members', req.pk)) IN
                [req EXCEPT !.best = IF r > @ THEN r ELSE @]

HandleSetRole(by, s, role) ==
    /\ MutexFree /\ IsAllowed(LiveRole(by), "Admin")
    /\ SetRoleStart(s, role)
    /\ UNCHANGED lockVars

HandleSetQuota(by, pk) ==
    /\ MutexFree /\ IsAllowed(LiveRole(by), "Admin")
    /\ SetQuotaCreatesRow(pk)
    /\ UNCHANGED lockVars

LibraryStart ==
    /\ \E s \in Spelling : PromoteStart(s) \/ DemoteStart(s)
    /\ UNCHANGED lockVars

RoleTableStep ==
    /\ DbTaskStep \/ SetsCall
    /\ WatchRequest
    /\ UNCHANGED <<locks, nextId, now, scan>>

\* The lock database is a file of its own and survives; requests do not.
RestartServer ==
    /\ Restart
    /\ req' = NoReq
    /\ UNCHANGED <<locks, nextId, now, scan>>

Tick == now < MaxNow /\ now' = now + 1 /\ UNCHANGED <<accessVars, locks, nextId, req, scan>>

LockInit ==
    /\ config \in Configs
    /\ Init
    /\ locks = {} /\ nextId = 1 /\ now = 0
    /\ req = NoReq /\ scan = NoScan

\* Of the ids nobody was given yet, one is enough.
BeginLockRequest ==
    \E pk \in Pubkey, repo \in Repo :
        \/ nextId <= MaxLocks /\ \E path \in Path : BeginRequest("create", pk, [repo |-> repo, path |-> path])
        \/ \E id \in 1..Smaller(nextId, MaxLocks), force \in BOOLEAN :
               BeginRequest("unlock", pk, [repo |-> repo, id |-> id, force |-> force])

Step ==
    \/ BeginLockRequest
    \/ HandleCreateLock \/ HandleLockCreate
    \/ HandleUnlock \/ HandleLockDelete
    \/ \E pk \in Pubkey, repo \in Repo, limit \in Limits :
           StartScan(pk, repo, limit)
    \/ HandleVerifyLocks \/ HandleListLocks \/ HandleLockVerify \/ HandleLockList
    \/ \E by \in Pubkey, s \in Spelling, role \in Roles : HandleSetRole(by, s, role)
    \/ \E by, pk \in Pubkey : HandleSetQuota(by, pk)
    \/ LibraryStart \/ RoleTableStep
    \/ RestartServer \/ Tick

Next == Step /\ UNCHANGED config

Spec == LockInit /\ [][Next]_vars

-----------------------------------------------------------------------------
\* The state space of the lock service and of the role table under it.
TypeOK ==
    /\ config \in Configs
    /\ AccessTypeOK
    /\ locks \subseteq [id : 1..MaxLocks, repo : Repo, path : Path,
                        pubkey : Pubkey, at : 0..MaxNow]
    /\ nextId \in 1..(MaxLocks + 1)
    /\ now \in 0..MaxNow
    /\ req = NoReq \/ req.op \in {"create", "unlock"}
    /\ scan.status \in {"none", "paging", "done", "disturbed"}

(***************************************************************************)
(* Locking excludes: no two locks are held on the same path of the same    *)
(* repository, whichever transport and user took them (create_lock).       *)
(***************************************************************************)
OneLockPerPath ==
    \A l, m \in locks : (l.repo = m.repo /\ l.path = m.path) => l = m

(***************************************************************************)
(* A role a handler acted on was in force at some moment of its lookup, or *)
(* a higher one was: role() reads two sets one after the other while       *)
(* promotions, demotions, removals and reloads rewrite them, and may come  *)
(* out too low (try_read fails closed) but never too high.                 *)
(***************************************************************************)
RoleNeverOverstated == req # NoReq => Rank(RoleRead) <= req.best

(***************************************************************************)
(* A lock goes away only at the hand of its owner, or of a key that forced *)
(* the unlock and was an admin while the handler looked: no restart, role  *)
(* change, other repository's unlock or late duplicate releases it.        *)
(***************************************************************************)
LocksReleasedByRight ==
    [][\A l \in locks \ locks' :
          /\ req.op = "unlock"
          /\ l.pubkey = req.pk \/ (req.args.force /\ req.best = Rank("admin"))]_vars

(***************************************************************************)
(* A pre-push check is complete: a client that paged through to the end    *)
(* was shown, exactly once and on the right side, every lock that was held *)
(* when it began. This needs that no lock of the repository was released   *)
(* while it paged (the cursor is an offset, so the later locks move up     *)
(* under it) and that no two of them were taken in the same second (their  *)
(* order is then undefined).                                               *)
(***************************************************************************)
ScanShowsStandingLocks ==
    scan.status = "done" =>
        /\ scan.start \subseteq scan.ours \cup scan.theirs
        /\ \A l \in scan.ours : l.pubkey = scan.pk
        /\ \A l \in scan.theirs : l.pubkey # scan.pk
        /\ scan.shown = Cardinality(scan.ours \cup scan.theirs)
=============================================================================
