-------------------------- MODULE RoleBasedAccess --------------------------
(***************************************************************************)
(* The live role table of the server: two sets of public keys behind two   *)
(* independent RwLocks (src/access/mod.rs), the role column of the users   *)
(* table they are loaded from, and the operations that change them.        *)
(*                                                                         *)
(* Three kinds of callers run concurrently:                                *)
(*   - callers that hold the database (set_role, promote_admin,            *)
(*     demote_to_member): the &mut borrow of the one database object lets  *)
(*     one run at a time; set_role runs inside an admin handler, under the *)
(*     server's state mutex;                                               *)
(*   - callers that touch only the live sets (add_admin, add_member,       *)
(*     remove, reload);                                                    *)
(*   - readers: role() looks at the two sets one after the other, with     *)
(*     try_read, and treats a set that is write-locked as not containing   *)
(*     the key.                                                            *)
(***************************************************************************)
EXTENDS Naturals, FiniteSets

CONSTANTS
    Pubkey,           \* normalised (hex) public keys
    Spelling,         \* the forms in which a caller writes a key: hex, npub1
    normalize_pubkey  \* [Spelling -> Pubkey]

Roles == {"admin", "member", "denied"}

AllCalls == {"set_role", "promote_admin", "demote_to_member", "add_admin",
             "add_member", "remove", "reload", "set_quota", "restart"}

ASSUME AccessAssumption ==
    normalize_pubkey \in [Spelling -> Pubkey]

VARIABLES
    config,   \* the set-up, which does not change
    roleRow,  \* users.role, "none" when the key has no row
    admins,   \* RoleBasedAccess.admins
    members,  \* RoleBasedAccess.members
    dbTask,   \* the caller that holds the database, or Idle
    setTask,  \* the caller that changes the live sets only, or Idle
    settled   \* history: keys whose live role was last decided with the database

accessVars == <<config, roleRow, admins, members, dbTask, setTask, settled>>

Idle == [op |-> "idle"]

Bootstrap == config.bootstrap  \* the --admin keys of the command line
Calls == config.calls          \* the operations callers make

Rank(role) == CASE role = "admin" -> 2 [] role = "member" -> 1 [] role = "denied" -> 0

-----------------------------------------------------------------------------
\* set_role keeps both write guards until it returns; every other writer drops
\* its guard at the end of the statement, so within a single step.
AdminsLocked == dbTask.op = "set_role" /\ dbTask.pc \in {"admins", "members"}
MembersLocked == dbTask.op = "set_role" /\ dbTask.pc = "members"

\* What the two try_reads of role() report, each on its own.
ReadAdmins(pk) == ~AdminsLocked /\ pk \in admins
ReadMembers(pk) == ~MembersLocked /\ pk \in members

\* The role the sets give a key, read in one instant with no writer about.
RoleIn(A, M, pk) ==
    IF pk \in A THEN "admin" ELSE IF pk \in M THEN "member" ELSE "denied"
LiveRole(pk) == RoleIn(admins, members, pk)

\* is_allowed: members may do anything but administer.
IsAllowed(role, action) ==
    CASE role = "admin" -> TRUE
      [] role = "member" -> action # "Admin"
      [] role = "denied" -> FALSE

-----------------------------------------------------------------------------
\* load_from_database after the --admin keys were written as admins; a restart
\* forgets every call in flight.
Bootstrapped(row) == [pk \in Pubkey |-> IF pk \in Bootstrap THEN "admin" ELSE row[pk]]
WithRole(row, role) == {pk \in Pubkey : row[pk] = role}

LoadFromDatabase(row) ==
    /\ roleRow' = Bootstrapped(row)
    /\ admins' = WithRole(Bootstrapped(row), "admin")
    /\ members' = WithRole(Bootstrapped(row), "member")
    /\ dbTask' = Idle
    /\ setTask' = Idle
    /\ settled' = Pubkey

Init ==
    /\ roleRow = Bootstrapped([pk \in Pubkey |-> "none"])
    /\ admins = WithRole(roleRow, "admin")
    /\ members = WithRole(roleRow, "member")
    /\ dbTask = Idle
    /\ setTask = Idle
    /\ settled = Pubkey

Restart == "restart" \in Calls /\ LoadFromDatabase(roleRow)

-----------------------------------------------------------------------------
\* Callers that hold the database. Each begins with db.set_role, and returns
\* at once when that fails (which changes nothing: no step).
StartDbTask(op, pk, role) ==
    /\ op \in Calls
    /\ dbTask = Idle
    /\ roleRow' = [roleRow EXCEPT ![pk] = role]
    /\ dbTask' = [op |-> op, pk |-> pk, role |-> role, pc |-> "start", alone |-> TRUE]
    /\ UNCHANGED <<admins, members, setTask>>
    /\ settled' = settled \ {pk}

FinishDbTask ==
    /\ dbTask' = Idle
    /\ settled' = IF dbTask.alone THEN settled \cup {dbTask.pk} ELSE settled

\* set_role: take both guards, then rewrite both sets under them.
SetRoleStart(s, role) == StartDbTask("set_role", normalize_pubkey[s], role)

SetRoleLockAdmins ==
    /\ dbTask.op = "set_role" /\ dbTask.pc = "start"
    /\ dbTask' = [dbTask EXCEPT !.pc = "admins"]
    /\ UNCHANGED <<roleRow, admins, members, setTask, settled>>

SetRoleLockMembers ==
    /\ dbTask.op = "set_role" /\ dbTask.pc = "admins"
    /\ dbTask' = [dbTask EXCEPT !.pc = "members"]
    /\ UNCHANGED <<roleRow, admins, members, setTask, settled>>

\* MUTANT: the new role is inserted and the key is not taken out of the other set.
RewrittenInsertOnly(S, pk, holds) == IF holds THEN S \cup {pk} ELSE S

Rewritten(S, pk, holds) == IF holds THEN S \cup {pk} ELSE S \ {pk}

SetRoleApply ==
    /\ dbTask.op = "set_role" /\ dbTask.pc = "members"
    /\ admins' = Rewritten(admins, dbTask.pk, dbTask.role = "admin")
    /\ members' = Rewritten(members, dbTask.pk, dbTask.role = "member")
    /\ FinishDbTask
    /\ UNCHANGED <<roleRow, setTask>>

\* promote_admin: insert into admins, then remove from members.
PromoteStart(s) == StartDbTask("promote_admin", normalize_pubkey[s], "admin")

PromoteInsert ==
    /\ dbTask.op = "promote_admin" /\ dbTask.pc = "start"
    /\ admins' = admins \cup {dbTask.pk}
    /\ dbTask' = [dbTask EXCEPT !.pc = "half"]
    /\ UNCHANGED <<roleRow, members, setTask, settled>>

PromoteRemove ==
    /\ dbTask.op = "promote_admin" /\ dbTask.pc = "half"
    /\ members' = members \ {dbTask.pk}
    /\ FinishDbTask
    /\ UNCHANGED <<roleRow, admins, setTask>>

\* demote_to_member: remove from admins, then insert into members; in between
\* the key has no role at all.
DemoteStart(s) == StartDbTask("demote_to_member", normalize_pubkey[s], "member")

DemoteRemove ==
    /\ dbTask.op = "demote_to_member" /\ dbTask.pc = "start"
    /\ admins' = admins \ {dbTask.pk}
    /\ dbTask' = [dbTask EXCEPT !.pc = "half"]
    /\ UNCHANGED <<roleRow, members, setTask, settled>>

DemoteInsert ==
    /\ dbTask.op = "demote_to_member" /\ dbTask.pc = "half"
    /\ members' = members \cup {dbTask.pk}
    /\ FinishDbTask
    /\ UNCHANGED <<roleRow, admins, setTask>>

-----------------------------------------------------------------------------
\* Callers that change the live sets only. What they decide is not in the
\* database, so the keys they touch are no longer settled.
Disturb(keys) ==
    /\ settled' = settled \ keys
    /\ dbTask' = IF dbTask # Idle /\ dbTask.pk \in keys
                 THEN [dbTask EXCEPT !.alone = FALSE] ELSE dbTask

AddAdmin(s) ==
    /\ "add_admin" \in Calls /\ setTask = Idle /\ ~AdminsLocked
    /\ admins' = admins \cup {normalize_pubkey[s]}
    /\ Disturb({normalize_pubkey[s]})
    /\ UNCHANGED <<roleRow, members, setTask>>

\* MUTANT: the key goes into the set as the caller wrote it.
AddMemberAsWritten(s) ==
    /\ "add_member" \in Calls /\ setTask = Idle /\ ~MembersLocked
    /\ members' = members \cup {s}
    /\ Disturb({normalize_pubkey[s]})
    /\ UNCHANGED <<roleRow, admins, setTask>>

AddMember(s) ==
    /\ "add_member" \in Calls /\ setTask = Idle /\ ~MembersLocked
    /\ members' = members \cup {normalize_pubkey[s]}
    /\ Disturb({normalize_pubkey[s]})
    /\ UNCHANGED <<roleRow, admins, setTask>>

\* remove: out of admins, then out of members.
RemoveFromAdmins(s) ==
    /\ "remove" \in Calls /\ setTask = Idle /\ ~AdminsLocked
    /\ admins' = admins \ {normalize_pubkey[s]}
    /\ setTask' = [op |-> "remove", pk |-> normalize_pubkey[s]]
    /\ Disturb({normalize_pubkey[s]})
    /\ UNCHANGED <<roleRow, members>>

RemoveFromMembers ==
    /\ setTask.op = "remove" /\ ~MembersLocked
    /\ members' = members \ {setTask.pk}
    /\ setTask' = Idle
    /\ Disturb({setTask.pk})
    /\ UNCHANGED <<roleRow, admins>>

\* reload: both files are parsed first (a failure returns with nothing
\* changed), then the sets are replaced one after the other.
ReloadAdmins(A, M) ==
    /\ "reload" \in Calls /\ setTask = Idle /\ ~AdminsLocked
    /\ admins' = A
    /\ setTask' = [op |-> "reload", members |-> M]
    /\ Disturb(Pubkey)
    /\ UNCHANGED <<roleRow, members>>

ReloadMembers ==
    /\ setTask.op = "reload" /\ ~MembersLocked
    /\ members' = setTask.members
    /\ setTask' = Idle
    /\ Disturb(Pubkey)
    /\ UNCHANGED <<roleRow, admins>>

\* handle_set_quota of a key without a users row creates one; the column's
\* default makes it a member's, which the live sets learn at the next restart.
SetQuotaCreatesRow(pk) ==
    /\ "set_quota" \in Calls /\ roleRow[pk] = "none"
    /\ roleRow' = [roleRow EXCEPT ![pk] = "member"]
    /\ settled' = settled \ {pk}
    /\ UNCHANGED <<admins, members, dbTask, setTask>>

DbTaskStep ==
    \/ SetRoleLockAdmins \/ SetRoleLockMembers \/ SetRoleApply
    \/ PromoteInsert \/ PromoteRemove
    \/ DemoteRemove \/ DemoteInsert

SetsCall ==
    \/ \E s \in Spelling : AddAdmin(s) \/ AddMember(s) \/ RemoveFromAdmins(s)
    \/ RemoveFromMembers
    \/ \E A, M \in SUBSET Pubkey : ReloadAdmins(A, M)
    \/ ReloadMembers

-----------------------------------------------------------------------------
\* The state space of the role table.
AccessTypeOK ==
    /\ roleRow \in [Pubkey -> Roles \cup {"none"}]
    /\ admins \subseteq Pubkey
    /\ members \subseteq Pubkey
    /\ settled \subseteq Pubkey
    /\ dbTask = Idle \/ /\ dbTask.op \in {"set_role", "promote_admin", "demote_to_member"}
                        /\ dbTask.pk \in Pubkey /\ dbTask.role \in Roles
                        /\ dbTask.pc \in {"start", "half", "admins", "members"}
                        /\ dbTask.alone \in BOOLEAN
    /\ setTask = Idle \/ setTask.op \in {"remove", "reload"}

(***************************************************************************)
(* When no database call is under way, a key whose role was last decided   *)
(* through the database has, in the live sets, exactly the persisted role  *)
(* (none counting as denied): a completed set_role, promote_admin or       *)
(* demote_to_member, or a restart, leaves the two copies agreeing, however *)
(* the calls interleave and however often the key changed role before.     *)
(***************************************************************************)
SettledRolesAreLive ==
    \A pk \in settled :
        LiveRole(pk) = IF roleRow[pk] = "none" THEN "denied" ELSE roleRow[pk]
=============================================================================
