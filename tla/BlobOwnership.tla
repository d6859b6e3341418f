---------------------------- MODULE BlobOwnership ----------------------------
(***************************************************************************)
(* The blob server's two stores side by side: the storage backend (which   *)
(* hashes have bytes) and the metadata database (upload rows, ownership    *)
(* references, byte accounting, quotas).  Every handler that writes either *)
(* store is an action.  All of them run under one async mutex, so a        *)
(* critical section is one step; the uploads release the mutex while the   *)
(* body arrives and are therefore two steps, Admit and Commit.             *)
(* What the bytes look like is left to LfsStore.                           *)
(***************************************************************************)
EXTENDS Naturals, FiniteSets

CONSTANTS
    Hash,         \* content addresses (SHA-256 of the original bytes)
    User,         \* authenticated public keys
    Anonymous,    \* the literal owner "anonymous" of unauthenticated uploads
    Size,         \* Size[h]: length of the content with hash h
    Total(_),     \* Total(S): summed length of a set S of contents
    Unlimited,    \* quota_bytes = NULL
    QuotaChoice,  \* byte limits an administrator may set
    U64Max,       \* u64::MAX
    Db,           \* the metadata database: "memory" or "sqlite"
    RequireAuth,  \* requirements.require_auth
    S3Compat,     \* the feature-gated S3 test router is mounted
    Faults,       \* which database writes may return an error
    Conn          \* request slots

FaultKinds == {"record", "delete"}
Principal == User \cup {Anonymous}
Via == {"upload", "mirror", "media", "nip96", "iroh"}

ASSUME SizeAssumption == Size \in [Hash -> Nat]

ASSUME TotalAssumption ==
    /\ Total({}) = 0
    /\ \A S \in SUBSET Hash :
          /\ Total(S) \in Nat
          /\ \A h \in Hash \ S : Total(S \cup {h}) = Total(S) + Size[h]

ASSUME PrincipalAssumption ==
    IsFiniteSet(User) /\ Anonymous \notin User

ASSUME ConfigAssumption ==
    /\ QuotaChoice \subseteq Nat /\ Unlimited \notin Nat
    /\ U64Max \in Nat
    /\ Db \in {"memory", "sqlite"}
    /\ RequireAuth \in BOOLEAN /\ S3Compat \in BOOLEAN
    /\ Faults \subseteq FaultKinds

VARIABLES
    stored,   \* hashes the backend has bytes for
    uploads,  \* hashes with a row in `uploads`
    owners,   \* owners[h]: principals with a row in `upload_owners`
    used,     \* users.used_bytes
    quota,    \* users.quota_bytes
    role,     \* the live role of each key
    conn      \* admitted uploads whose body is still outstanding

dbVars == <<uploads, owners, used, quota>>
vars == <<stored, uploads, owners, used, quota, role, conn>>

Idle == [state |-> "idle"]
Request == [state : {"open"}, user : Principal, hash : Hash, via : Via]

Init ==
    /\ stored = {} /\ uploads = {}
    /\ owners = [h \in Hash |-> {}]
    /\ used = [p \in Principal |-> 0]
    /\ quota = [p \in Principal |-> Unlimited]
    /\ role \in [Principal -> {"admin", "member", "denied"}]
    /\ conn = [c \in Conn |-> Idle]

-----------------------------------------------------------------------------
(* The metadata database.                                                  *)

IsOwner(h, p) == p \in owners[h]

SaturatingSub(a, b) == IF a >= b THEN a - b ELSE 0

\* Mutant: the handlers' quota check is dropped.
QuotaUnchecked(p, extra) == TRUE

\* check_quota: no limit means no check; the in-memory database also refuses
\* a sum that does not fit in 64 bits.
QuotaAllows(p, extra) ==
    quota[p] # Unlimited =>
        /\ used[p] + extra <= quota[p]
        /\ Db = "memory" => used[p] + extra <= U64Max

AdditionalBytes(h, p) == IF IsOwner(h, p) THEN 0 ELSE Size[h]

\* Only the in-memory record_upload re-checks the sum and the quota itself.
RecordRefused(h, p) ==
    /\ Db = "memory"
    /\ ~IsOwner(h, p)
    /\ \/ used[p] + Size[h] > U64Max
       \/ quota[p] # Unlimited /\ used[p] + Size[h] > quota[p]

RecordUpload(h, p) ==
    /\ ~RecordRefused(h, p)
    /\ uploads' = uploads \cup {h}
    /\ owners' = [owners EXCEPT ![h] = @ \cup {p}]
    /\ used' = [used EXCEPT ![p] = @ + AdditionalBytes(h, p)]
    /\ UNCHANGED quota

RecordFails(h, p) ==
    /\ RecordRefused(h, p) \/ "record" \in Faults
    /\ UNCHANGED dbVars

\* Mutant: the row goes, the ownership references are not cascaded.
DeleteUploadNoCascade(h) ==
    /\ uploads' = uploads \ {h}
    /\ used' = [p \in Principal |-> IF h \in uploads /\ IsOwner(h, p)
                    THEN SaturatingSub(used[p], Size[h]) ELSE used[p]]
    /\ UNCHANGED <<owners, quota>>

\* Mutant: the owners' bytes are not given back.
DeleteUploadNoRefund(h) ==
    /\ uploads' = uploads \ {h}
    /\ owners' = [owners EXCEPT ![h] = {}]
    /\ UNCHANGED <<used, quota>>

\* Mutant: an update without its WHERE clause debits every key, unsaturated.
DeleteUploadDebitAll(h) ==
    /\ uploads' = uploads \ {h}
    /\ owners' = [owners EXCEPT ![h] = {}]
    /\ used' = [p \in Principal |-> used[p] - Size[h]]
    /\ UNCHANGED quota

\* delete_upload removes the row and every ownership reference with it; it is
\* a no-op when there is no row.
DeleteUpload(h) ==
    /\ uploads' = uploads \ {h}
    /\ IF h \in uploads
         THEN /\ used' = [p \in Principal |-> IF IsOwner(h, p)
                             THEN SaturatingSub(used[p], Size[h]) ELSE used[p]]
              /\ owners' = [owners EXCEPT ![h] = {}]
         ELSE UNCHANGED <<owners, used>>
    /\ UNCHANGED quota

DeleteUploadOwner(h, p) ==
    /\ IsOwner(h, p)
    /\ owners' = [owners EXCEPT ![h] = @ \ {p}]
    /\ used' = [used EXCEPT ![p] = SaturatingSub(@, Size[h])]
    /\ UNCHANGED <<uploads, quota>>

-----------------------------------------------------------------------------
(* Uploads.  Admission checks the role under the lock and releases it.     *)

Allowed(p) == role[p] # "denied"

MayAdmit(p, via) ==
    CASE via = "upload" -> IF p = Anonymous THEN ~RequireAuth ELSE Allowed(p)
      [] via = "iroh"   -> (p = Anonymous => ~RequireAuth) /\ Allowed(p)
      [] OTHER          -> p # Anonymous /\ Allowed(p)

Admit(c, p, h, via) ==
    /\ conn[c] = Idle
    /\ MayAdmit(p, via)
    /\ conn' = [conn EXCEPT ![c] =
                   [state |-> "open", user |-> p, hash |-> h, via |-> via]]
    /\ UNCHANGED <<stored, dbVars, role>>

\* Everything after admission that ends the request without touching a store:
\* body errors, an exhausted budget, a replayed event, size and type limits,
\* quota refusals, failed or late media processing, a failed blob write, a
\* dropped connection.
Abandon(c) ==
    /\ conn[c] # Idle
    /\ conn' = [conn EXCEPT ![c] = Idle]
    /\ UNCHANGED <<stored, dbVars, role>>

\* The shared tail of the upload handlers: write the blob, then the metadata;
\* a failed metadata write leaves the blob where it is.
StoreAndRecord(h, p) ==
    /\ stored' = stored \cup {h}
    /\ RecordUpload(h, p) \/ RecordFails(h, p)

Finish(c, via) ==
    /\ conn[c] # Idle
    /\ conn[c].via = via
    /\ conn' = [conn EXCEPT ![c] = Idle]
    /\ UNCHANGED role

HandleUpload(c) ==
    /\ Finish(c, "upload")
    /\ LET p == conn[c].user  h == conn[c].hash IN
         /\ p # Anonymous => QuotaAllows(p, AdditionalBytes(h, p))
         /\ StoreAndRecord(h, p)

HandleMirror(c) ==
    /\ Finish(c, "mirror")
    /\ LET p == conn[c].user  h == conn[c].hash IN
         /\ QuotaAllows(p, AdditionalBytes(h, p))
         /\ StoreAndRecord(h, p)

HandleMediaUpload(c) ==
    /\ Finish(c, "media")
    /\ LET p == conn[c].user  h == conn[c].hash IN
         /\ QuotaAllows(p, AdditionalBytes(h, p))
         /\ StoreAndRecord(h, p)

HandleNip96Upload(c) ==
    /\ Finish(c, "nip96")
    /\ LET p == conn[c].user  h == conn[c].hash IN
         /\ QuotaAllows(p, AdditionalBytes(h, p))
         /\ StoreAndRecord(h, p)

\* The iroh handler repeats the access check under the second lock.
IrohUpload(c) ==
    /\ Finish(c, "iroh")
    /\ LET p == conn[c].user  h == conn[c].hash IN
         /\ Allowed(p)
         /\ QuotaAllows(p, AdditionalBytes(h, p))
         /\ StoreAndRecord(h, p)

-----------------------------------------------------------------------------
(* Deletions.                                                              *)

\* Mutant: the metadata goes, the bytes stay.
RemoveBlobKeepBytes(h) ==
    /\ h \in stored
    /\ DeleteUpload(h)
    /\ UNCHANGED stored

\* try_delete, then delete_upload; a missing blob answers 404 and leaves the
\* metadata alone.
RemoveBlob(h) ==
    /\ h \in stored
    /\ stored' = stored \ {h}
    /\ \/ DeleteUpload(h)
       \/ "delete" \in Faults /\ UNCHANGED dbVars

\* Mutant: an owner's delete removes the blob without counting references.
DeleteAsUncounted(u, h) ==
    /\ role[u] # "denied"
    /\ role[u] # "admin" => IsOwner(h, u)
    /\ RemoveBlob(h)
    /\ UNCHANGED <<role, conn>>

\* Members drop their own reference while others remain; the last reference,
\* or any administrator, removes the blob.
DeleteAs(u, h) ==
    /\ role[u] # "denied"
    /\ \/ /\ role[u] # "admin" /\ IsOwner(h, u)
          /\ Cardinality(owners[h]) > 1
          /\ DeleteUploadOwner(h, u)
          /\ UNCHANGED stored
       \/ /\ role[u] # "admin" => IsOwner(h, u) /\ Cardinality(owners[h]) <= 1
          /\ RemoveBlob(h)
    /\ UNCHANGED <<role, conn>>

HandleDeleteBlob(u, h) == DeleteAs(u, h)

HandleNip96Delete(u, h) == DeleteAs(u, h)

IrohDelete(u, h) == DeleteAs(u, h)

HandleAdminDeleteBlob(u, h) ==
    /\ role[u] = "admin"
    /\ RemoveBlob(h)
    /\ UNCHANGED <<role, conn>>

-----------------------------------------------------------------------------
(* Administration, the S3 test router, restart.                            *)

HandleSetQuota(u, p, q) ==
    /\ role[u] = "admin"
    /\ quota' = [quota EXCEPT ![p] = q]
    /\ UNCHANGED <<stored, uploads, owners, used, role, conn>>

HandleSetRole(u, p, r) ==
    /\ role[u] = "admin"
    /\ role' = [role EXCEPT ![p] = r]
    /\ UNCHANGED <<stored, dbVars, conn>>

S3Put(h) ==
    /\ S3Compat
    /\ stored' = stored \cup {h}
    /\ UNCHANGED <<dbVars, role, conn>>

S3Delete(h) ==
    /\ S3Compat
    /\ stored' = stored \ {h}
    /\ UNCHANGED <<dbVars, role, conn>>

\* A restart with a persistent backend and database loses open requests only;
\* an in-memory server starts over, which is a new behaviour.
Restart ==
    /\ Db # "memory"
    /\ conn' = [c \in Conn |-> Idle]
    /\ UNCHANGED <<stored, dbVars, role>>

UploadNext ==
    \E c \in Conn :
        \/ \E p \in Principal, h \in Hash, via \in Via : Admit(c, p, h, via)
        \/ Abandon(c)
        \/ HandleUpload(c) \/ HandleMirror(c) \/ HandleMediaUpload(c)
        \/ HandleNip96Upload(c) \/ IrohUpload(c)

DeleteNext ==
    \E u \in User, h \in Hash :
        \/ HandleDeleteBlob(u, h) \/ HandleNip96Delete(u, h)
        \/ IrohDelete(u, h) \/ HandleAdminDeleteBlob(u, h)

AdminNext ==
    \E u \in User, p \in Principal :
        \/ \E q \in QuotaChoice \cup {Unlimited} : HandleSetQuota(u, p, q)
        \/ \E r \in {"admin", "member", "denied"} : HandleSetRole(u, p, r)

Next ==
    \/ UploadNext \/ DeleteNext \/ AdminNext
    \/ \E h \in Hash : S3Put(h) \/ S3Delete(h)
    \/ Restart

Spec == Init /\ [][Next]_vars

-----------------------------------------------------------------------------
(* Properties.                                                             *)

Owned(p) == {h \in Hash : p \in owners[h]}

\* Types of the two stores and of the open requests.
TypeOK ==
    /\ stored \in SUBSET Hash /\ uploads \in SUBSET Hash
    /\ owners \in [Hash -> SUBSET Principal]
    /\ used \in [Principal -> Nat]
    /\ quota \in [Principal -> Nat \cup {Unlimited}]
    /\ role \in [Principal -> {"admin", "member", "denied"}]
    /\ conn \in [Conn -> Request \cup {Idle}]

\* used_bytes is exactly the summed size of the blobs a key owns, whatever
\* mixture of re-uploads, reference drops, administrator deletions and failed
\* writes led here; the saturating subtractions of delete_upload and
\* delete_upload_owner therefore never saturate.
UsedIsOwnedTotal == \A p \in Principal : used[p] = Total(Owned(p))

\* The `uploads` row lives exactly as long as some ownership reference does:
\* delete_upload_owner never strands a row, delete_upload never strands an
\* owner.
UploadRowsHaveOwners == \A h \in Hash : h \in uploads <=> owners[h] # {}

\* When no database write fails and the S3 router is not mounted, the backend
\* and the database agree: what a key is charged for can be fetched, and what
\* is stored is charged to somebody.
StoresAgree == \A h \in Hash : h \in stored <=> owners[h] # {}

\* While nobody is an administrator, the bytes of a blob with two or more
\* owners stay: "The physical blob remains while another user still references
\* the same hash" (handle_delete_blob), through every route.
SharedBlobSurvives ==
    [][\A h \in stored :
          /\ Cardinality(owners[h]) > 1
          /\ \A u \in User : role[u] # "admin"
          => h \in stored']_vars

\* No step pushes an authenticated key past the quota in force at that step,
\* although the request was admitted, and its body read, under an older one.
QuotaRespected ==
    [][\A u \in User : used'[u] > used[u] /\ quota[u] # Unlimited
                           => used'[u] <= quota[u]]_vars
=============================================================================
