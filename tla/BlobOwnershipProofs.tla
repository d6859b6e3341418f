------------------------- MODULE BlobOwnershipProofs -------------------------
(***************************************************************************)
(* Invariance proofs for BlobOwnership, for every set of contents, users   *)
(* and request slots and every choice of database, faults and routes.      *)
(***************************************************************************)
EXTENDS BlobOwnership, FiniteSetTheorems, TLAPS

USE DEF Principal, IsOwner, Owned

\* The quota check every route makes under the lock it records under.
QuotaChecked(h, p) == p # Anonymous => QuotaAllows(p, AdditionalBytes(h, p))

\* What any step may do to the database: nothing, record one checked reference,
\* drop one of several references, or delete a row with all of them.
DbStep ==
    \/ UNCHANGED <<uploads, owners, used>>
    \/ \E h \in Hash, p \in Principal : QuotaChecked(h, p) /\ RecordUpload(h, p)
    \/ \E h \in Hash, p \in User :
          Cardinality(owners[h]) > 1 /\ DeleteUploadOwner(h, p)
    \/ \E h \in Hash : DeleteUpload(h)

\* Every handler reduces to one of those four database steps.
LEMMA NextIsDbStep == ASSUME TypeOK, [Next]_vars PROVE DbStep
<1> USE DEF DbStep, dbVars
<1>1. ASSUME NEW c \in Conn, NEW via, Finish(c, via)
      PROVE  conn[c].user \in Principal /\ conn[c].hash \in Hash
  BY <1>1 DEF TypeOK, Finish, Request, Idle
<1>2. ASSUME NEW h \in Hash, NEW p \in Principal, QuotaChecked(h, p),
             StoreAndRecord(h, p)
      PROVE  DbStep
  BY <1>2 DEF StoreAndRecord, RecordFails
<1>3. ASSUME NEW h \in Hash, RemoveBlob(h) PROVE DbStep
  BY <1>3 DEF RemoveBlob
<1>4. CASE UploadNext
  <2>1. PICK c \in Conn :
           \/ \E p \in Principal, h \in Hash, via \in Via : Admit(c, p, h, via)
           \/ Abandon(c)
           \/ HandleUpload(c) \/ HandleMirror(c) \/ HandleMediaUpload(c)
           \/ HandleNip96Upload(c) \/ IrohUpload(c)
    BY <1>4 DEF UploadNext
  <2>2. CASE \E p \in Principal, h \in Hash, via \in Via : Admit(c, p, h, via)
    BY <2>2 DEF Admit
  <2>3. CASE Abandon(c)
    BY <2>3 DEF Abandon
  <2>4. CASE HandleUpload(c)
    BY <2>4, <1>1, <1>2 DEF HandleUpload, QuotaChecked
  <2>5. CASE HandleMirror(c)
    BY <2>5, <1>1, <1>2 DEF HandleMirror, QuotaChecked
  <2>6. CASE HandleMediaUpload(c)
    BY <2>6, <1>1, <1>2 DEF HandleMediaUpload, QuotaChecked
  <2>7. CASE HandleNip96Upload(c)
    BY <2>7, <1>1, <1>2 DEF HandleNip96Upload, QuotaChecked
  <2>8. CASE IrohUpload(c)
    BY <2>8, <1>1, <1>2 DEF IrohUpload, QuotaChecked
  <2> QED BY <2>1, <2>2, <2>3, <2>4, <2>5, <2>6, <2>7, <2>8
<1>5. CASE DeleteNext
  <2>1. ASSUME NEW u \in User, NEW h \in Hash, DeleteAs(u, h) PROVE DbStep
    BY <2>1, <1>3 DEF DeleteAs
  <2>2. ASSUME NEW u \in User, NEW h \in Hash, HandleAdminDeleteBlob(u, h)
        PROVE  DbStep
    BY <2>2, <1>3 DEF HandleAdminDeleteBlob
  <2> QED BY <1>5, <2>1, <2>2
        DEF DeleteNext, HandleDeleteBlob, HandleNip96Delete, IrohDelete
<1>6. CASE AdminNext
  BY <1>6 DEF AdminNext, HandleSetQuota, HandleSetRole
<1>7. CASE \E h \in Hash : S3Put(h) \/ S3Delete(h)
  BY <1>7 DEF S3Put, S3Delete
<1>8. CASE Restart
  BY <1>8 DEF Restart
<1>9. CASE UNCHANGED vars
  BY <1>9 DEF vars
<1> QED BY <1>4, <1>5, <1>6, <1>7, <1>8, <1>9 DEF Next
-----------------------------------------------------------------------------
\* The state stays well-typed; used_bytes in particular never goes negative.
THEOREM TypeCorrect == Spec => []TypeOK
<1>1. Init => TypeOK
  BY ConfigAssumption DEF Init, TypeOK
<1>2. ASSUME TypeOK, [Next]_vars PROVE TypeOK'
  <2> USE <1>2, SizeAssumption, ConfigAssumption
  <2>1. /\ uploads' \in SUBSET Hash
        /\ owners' \in [Hash -> SUBSET Principal]
        /\ used' \in [Principal -> Nat]
    <3>1. CASE UNCHANGED <<uploads, owners, used>>
      BY <3>1 DEF TypeOK
    <3>2. ASSUME NEW h \in Hash, NEW p \in Principal, RecordUpload(h, p)
          PROVE  <2>1!1 /\ <2>1!2 /\ <2>1!3
      BY <3>2 DEF TypeOK, RecordUpload, AdditionalBytes
    <3>3. ASSUME NEW h \in Hash, NEW p \in User, DeleteUploadOwner(h, p)
          PROVE  <2>1!1 /\ <2>1!2 /\ <2>1!3
      BY <3>3 DEF TypeOK, DeleteUploadOwner, SaturatingSub
    <3>4. ASSUME NEW h \in Hash, DeleteUpload(h)
          PROVE  <2>1!1 /\ <2>1!2 /\ <2>1!3
      BY <3>4 DEF TypeOK, DeleteUpload, SaturatingSub
    <3> QED BY <3>1, <3>2, <3>3, <3>4, NextIsDbStep DEF DbStep
  <2>2. /\ stored' \in SUBSET Hash
        /\ quota' \in [Principal -> Nat \cup {Unlimited}]
        /\ role' \in [Principal -> {"admin", "member", "denied"}]
        /\ conn' \in [Conn -> Request \cup {Idle}]
    <3> DEFINE T == /\ stored' \in SUBSET Hash
                    /\ quota' \in [Principal -> Nat \cup {Unlimited}]
                    /\ role' \in [Principal -> {"admin", "member", "denied"}]
                    /\ conn' \in [Conn -> Request \cup {Idle}]
    <3> USE DEF TypeOK, dbVars
    <3>1. ASSUME NEW h \in Hash, NEW p \in Principal, StoreAndRecord(h, p)
          PROVE  /\ stored' \in SUBSET Hash
                 /\ quota' \in [Principal -> Nat \cup {Unlimited}]
      BY <3>1 DEF StoreAndRecord, RecordUpload, RecordFails
    <3>2. ASSUME NEW c \in Conn, NEW via, Finish(c, via)
          PROVE  /\ role' \in [Principal -> {"admin", "member", "denied"}]
                 /\ conn' \in [Conn -> Request \cup {Idle}]
                 /\ conn[c].user \in Principal /\ conn[c].hash \in Hash
      BY <3>2 DEF Finish, Request, Idle
    <3>3. ASSUME NEW h \in Hash, RemoveBlob(h)
          PROVE  /\ stored' \in SUBSET Hash
                 /\ quota' \in [Principal -> Nat \cup {Unlimited}]
      BY <3>3 DEF RemoveBlob, DeleteUpload
    <3>4. CASE UploadNext
      <4>1. ASSUME NEW c \in Conn, NEW p \in Principal, NEW h \in Hash,
                   NEW via \in Via, Admit(c, p, h, via)
            PROVE  T
        BY <4>1 DEF Admit, Request
      <4>2. ASSUME NEW c \in Conn, Abandon(c) PROVE T
        BY <4>2 DEF Abandon
      <4>3. ASSUME NEW c \in Conn,
                   \/ HandleUpload(c) \/ HandleMirror(c)
                   \/ HandleMediaUpload(c) \/ HandleNip96Upload(c)
                   \/ IrohUpload(c)
            PROVE  T
        <5>1. PICK via : Finish(c, via) /\ StoreAndRecord(conn[c].hash, conn[c].user)
          BY <4>3 DEF HandleUpload, HandleMirror, HandleMediaUpload,
                      HandleNip96Upload, IrohUpload
        <5> QED BY <5>1, <3>1, <3>2
      <4> QED BY <3>4, <4>1, <4>2, <4>3 DEF UploadNext
    <3>5. CASE DeleteNext
      <4>1. ASSUME NEW u \in User, NEW h \in Hash, DeleteAs(u, h) PROVE T
        BY <4>1, <3>3 DEF DeleteAs, DeleteUploadOwner
      <4>2. ASSUME NEW u \in User, NEW h \in Hash, HandleAdminDeleteBlob(u, h)
            PROVE  T
        BY <4>2, <3>3 DEF HandleAdminDeleteBlob
      <4> QED BY <3>5, <4>1, <4>2
            DEF DeleteNext, HandleDeleteBlob, HandleNip96Delete, IrohDelete
    <3>6. CASE AdminNext
      BY <3>6 DEF AdminNext, HandleSetQuota, HandleSetRole
    <3>7. CASE \E h \in Hash : S3Put(h) \/ S3Delete(h)
      BY <3>7 DEF S3Put, S3Delete
    <3>8. CASE Restart
      BY <3>8 DEF Restart
    <3>9. CASE UNCHANGED vars
      BY <3>9 DEF vars
    <3> QED BY <3>4, <3>5, <3>6, <3>7, <3>8, <3>9 DEF Next
  <2> QED BY <2>1, <2>2 DEF TypeOK
<1> QED BY <1>1, <1>2, PTL DEF Spec
-----------------------------------------------------------------------------
(* Byte accounting.                                                        *)

\* Dropping one content from a set lowers the total by its length, so the
\* total of a set that contains it is at least that length.
LEMMA TotalRemove ==
    ASSUME NEW S \in SUBSET Hash, NEW h \in S
    PROVE  /\ Total(S) = Total(S \ {h}) + Size[h]
           /\ Total(S) \in Nat /\ Total(S \ {h}) \in Nat /\ Size[h] \in Nat
<1>1. S = (S \ {h}) \cup {h} /\ S \ {h} \in SUBSET Hash /\ h \in Hash \ (S \ {h})
  OBVIOUS
<1> QED BY <1>1, TotalAssumption, SizeAssumption

\* Taking one of several owners away leaves an owner.
LEMMA OtherOwnerRemains ==
    ASSUME NEW S \in SUBSET Principal, NEW p \in S, Cardinality(S) > 1
    PROVE  S \ {p} # {}
<1>1. IsFiniteSet(Principal)
  BY PrincipalAssumption, FS_AddElement
<1>2. IsFiniteSet(S)
  BY <1>1, FS_Subset
<1>3. Cardinality(S \ {p}) = Cardinality(S) - 1 /\ Cardinality(S) \in Nat
  BY <1>2, FS_RemoveElement, FS_CardinalityType
<1> QED BY <1>3, FS_EmptySet

\* The strengthened invariant: the two database tables and the byte counters
\* move together.
Accounting == TypeOK /\ UsedIsOwnedTotal /\ UploadRowsHaveOwners

LEMMA RecordKeepsAccounting ==
    ASSUME Accounting, NEW h \in Hash, NEW p \in Principal, RecordUpload(h, p)
    PROVE  UsedIsOwnedTotal' /\ UploadRowsHaveOwners'
<1> USE DEF Accounting, TypeOK, RecordUpload
<1>1. ASSUME NEW q \in Principal PROVE used'[q] = Total(Owned(q)')
  <2>1. CASE q = p /\ ~IsOwner(h, p)
    <3>1. Owned(q)' = Owned(q) \cup {h}
      BY <2>1
    <3>2. Owned(q) \in SUBSET Hash /\ h \in Hash \ Owned(q)
      BY <2>1
    <3>3. used'[q] = used[q] + Size[h]
      BY <2>1 DEF AdditionalBytes
    <3> QED BY <3>1, <3>2, <3>3, TotalAssumption DEF UsedIsOwnedTotal
  <2>2. CASE ~(q = p /\ ~IsOwner(h, p))
    <3>1. Owned(q)' = Owned(q)
      BY <2>2
    <3>2. used'[q] = used[q]
      BY <2>2 DEF AdditionalBytes
    <3> QED BY <3>1, <3>2 DEF UsedIsOwnedTotal
  <2> QED BY <2>1, <2>2
<1>2. UploadRowsHaveOwners'
  BY DEF UploadRowsHaveOwners
<1> QED BY <1>1, <1>2 DEF UsedIsOwnedTotal

LEMMA DropOwnerKeepsAccounting ==
    ASSUME Accounting, NEW h \in Hash, NEW p \in User,
           Cardinality(owners[h]) > 1, DeleteUploadOwner(h, p)
    PROVE  UsedIsOwnedTotal' /\ UploadRowsHaveOwners'
<1> USE DEF Accounting, TypeOK, DeleteUploadOwner
<1>1. ASSUME NEW q \in Principal PROVE used'[q] = Total(Owned(q)')
  <2>1. CASE q = p
    <3>1. Owned(q)' = Owned(q) \ {h} /\ h \in Owned(q)
      BY <2>1
    <3>2. used[q] = Total(Owned(q) \ {h}) + Size[h]
          /\ Total(Owned(q) \ {h}) \in Nat /\ Size[h] \in Nat
      BY <3>1, TotalRemove DEF UsedIsOwnedTotal
    <3>3. used'[q] = SaturatingSub(used[q], Size[h])
      BY <2>1
    <3>4. \A m, n \in Nat : SaturatingSub(m + n, n) = m
      BY DEF SaturatingSub
    <3>5. used'[q] = Total(Owned(q) \ {h})
      <4> HIDE DEF Owned
      <4> QED BY <3>2, <3>3, <3>4
    <3> QED BY <3>1, <3>5
  <2>2. CASE q # p
    <3>1. Owned(q)' = Owned(q) /\ used'[q] = used[q]
      BY <2>2
    <3> QED BY <3>1 DEF UsedIsOwnedTotal
  <2> QED BY <2>1, <2>2
<1>2. owners[h] \ {p} # {}
  BY OtherOwnerRemains
<1>3. UploadRowsHaveOwners'
  BY <1>2 DEF UploadRowsHaveOwners
<1> QED BY <1>1, <1>3 DEF UsedIsOwnedTotal

LEMMA DeleteKeepsAccounting ==
    ASSUME Accounting, NEW h \in Hash, DeleteUpload(h)
    PROVE  UsedIsOwnedTotal' /\ UploadRowsHaveOwners'
<1> USE DEF Accounting, TypeOK, DeleteUpload
<1>1. ASSUME NEW q \in Principal PROVE used'[q] = Total(Owned(q)')
  <2>1. CASE h \in uploads /\ IsOwner(h, q)
    <3>1. Owned(q)' = Owned(q) \ {h} /\ h \in Owned(q)
      BY <2>1
    <3>2. used[q] = Total(Owned(q) \ {h}) + Size[h]
          /\ Total(Owned(q) \ {h}) \in Nat /\ Size[h] \in Nat
      BY <3>1, TotalRemove DEF UsedIsOwnedTotal
    <3>3. used'[q] = SaturatingSub(used[q], Size[h])
      BY <2>1
    <3>4. \A m, n \in Nat : SaturatingSub(m + n, n) = m
      BY DEF SaturatingSub
    <3>5. used'[q] = Total(Owned(q) \ {h})
      <4> HIDE DEF Owned
      <4> QED BY <3>2, <3>3, <3>4
    <3> QED BY <3>1, <3>5
  <2>2. CASE ~(h \in uploads /\ IsOwner(h, q))
    <3>1. Owned(q)' = Owned(q) /\ used'[q] = used[q]
      BY <2>2
    <3> QED BY <3>1 DEF UsedIsOwnedTotal
  <2> QED BY <2>1, <2>2
<1>2. UploadRowsHaveOwners'
  BY DEF UploadRowsHaveOwners
<1> QED BY <1>1, <1>2 DEF UsedIsOwnedTotal

\* At every moment each key's used_bytes equals the total size of what it owns,
\* and a row exists exactly while it has an owner, whichever database is used
\* and whichever of its writes fail.
THEOREM AccountingHolds == Spec => [](UsedIsOwnedTotal /\ UploadRowsHaveOwners)
<1>1. Init => UsedIsOwnedTotal /\ UploadRowsHaveOwners
  <2> SUFFICES ASSUME Init PROVE UsedIsOwnedTotal /\ UploadRowsHaveOwners
    OBVIOUS
  <2>1. \A p \in Principal : Owned(p) = {} /\ used[p] = 0
    BY DEF Init
  <2>2. UsedIsOwnedTotal
    BY <2>1, TotalAssumption DEF UsedIsOwnedTotal
  <2>3. UploadRowsHaveOwners
    BY DEF Init, UploadRowsHaveOwners
  <2> QED BY <2>2, <2>3
<1>2. ASSUME TypeOK, UsedIsOwnedTotal /\ UploadRowsHaveOwners, [Next]_vars
      PROVE  (UsedIsOwnedTotal /\ UploadRowsHaveOwners)'
  <2>1. Accounting
    BY <1>2 DEF Accounting
  <2>2. CASE UNCHANGED <<uploads, owners, used>>
    <3>1. \A p \in Principal : Owned(p)' = Owned(p)
      BY <2>2
    <3> QED BY <1>2, <2>2, <3>1 DEF UsedIsOwnedTotal, UploadRowsHaveOwners
  <2> QED BY <1>2, <2>1, <2>2, NextIsDbStep, RecordKeepsAccounting,
             DropOwnerKeepsAccounting, DeleteKeepsAccounting DEF DbStep
<1> QED BY <1>1, <1>2, TypeCorrect, PTL DEF Spec

\* No upload row outlives its last owner and no owner is left without its row:
\* delete_upload and delete_upload_owner leave neither behind.
THEOREM RowsHaveOwners == Spec => []UploadRowsHaveOwners
BY AccountingHolds, PTL
-----------------------------------------------------------------------------
(* What a step may not do.                                                 *)

\* No step takes an authenticated key past the quota in force at that step,
\* although the role check and the body read happened under an earlier state.
THEOREM QuotaHolds == Spec => QuotaRespected
<1>1. ASSUME TypeOK, [Next]_vars,
             NEW u \in User, used'[u] > used[u], quota[u] # Unlimited
      PROVE  used'[u] <= quota[u]
  <2> USE SizeAssumption, ConfigAssumption, PrincipalAssumption DEF TypeOK
  <2>1. CASE UNCHANGED <<uploads, owners, used>>
    BY <1>1, <2>1
  <2>2. ASSUME NEW h \in Hash, NEW p \in Principal, QuotaChecked(h, p),
               RecordUpload(h, p)
        PROVE  used'[u] <= quota[u]
    <3>1. p = u /\ used'[u] = used[u] + AdditionalBytes(h, u)
      BY <1>1, <2>2 DEF RecordUpload
    <3> QED BY <1>1, <2>2, <3>1 DEF QuotaChecked, QuotaAllows
  <2>3. ASSUME NEW h \in Hash, NEW p \in User, DeleteUploadOwner(h, p)
        PROVE  FALSE
    BY <1>1, <2>3 DEF DeleteUploadOwner, SaturatingSub
  <2>4. ASSUME NEW h \in Hash, DeleteUpload(h) PROVE FALSE
    BY <1>1, <2>4 DEF DeleteUpload, SaturatingSub
  <2> QED BY <1>1, <2>1, <2>2, <2>3, <2>4, NextIsDbStep DEF DbStep
<1>2. ASSUME TypeOK, [Next]_vars
      PROVE  [\A u \in User : used'[u] > used[u] /\ quota[u] # Unlimited
                                 => used'[u] <= quota[u]]_vars
  BY <1>1, <1>2
<1> QED BY <1>2, TypeCorrect, PTL DEF Spec, QuotaRespected

\* Unless the S3 test router is mounted, no step of any other route removes the
\* bytes of a blob that two keys own, as long as nobody is an administrator.
THEOREM SharedBlobsKept == ~S3Compat => (Spec => SharedBlobSurvives)
<1> SUFFICES ASSUME ~S3Compat PROVE Spec => SharedBlobSurvives
  OBVIOUS
<1>1. ASSUME TypeOK, [Next]_vars, NEW h \in stored,
             Cardinality(owners[h]) > 1, \A u \in User : role[u] # "admin"
      PROVE  h \in stored'
  <2>1. IsFiniteSet(Principal) /\ owners[h] \in SUBSET Principal
    BY <1>1, PrincipalAssumption, FS_AddElement DEF TypeOK
  <2>2. Cardinality(owners[h]) \in Nat
    BY <2>1, FS_Subset, FS_CardinalityType
  <2>3. CASE UploadNext
    BY <2>3 DEF UploadNext, Admit, Abandon, HandleUpload, HandleMirror,
       HandleMediaUpload, HandleNip96Upload, IrohUpload, StoreAndRecord
  <2>4. CASE DeleteNext
    <3>1. ASSUME NEW u \in User, NEW g \in Hash, DeleteAs(u, g)
          PROVE  h \in stored'
      BY <1>1, <2>2, <3>1 DEF DeleteAs, RemoveBlob
    <3>2. ASSUME NEW u \in User, NEW g \in Hash, HandleAdminDeleteBlob(u, g)
          PROVE  FALSE
      BY <1>1, <3>2 DEF HandleAdminDeleteBlob
    <3> QED BY <2>4, <3>1, <3>2
          DEF DeleteNext, HandleDeleteBlob, HandleNip96Delete, IrohDelete
  <2>5. CASE AdminNext
    BY <2>5 DEF AdminNext, HandleSetQuota, HandleSetRole
  <2>6. CASE \E g \in Hash : S3Put(g) \/ S3Delete(g)
    BY <2>6 DEF S3Put, S3Delete
  <2>7. CASE Restart
    BY <2>7 DEF Restart
  <2>8. CASE UNCHANGED vars
    BY <2>8 DEF vars
  <2> QED BY <1>1, <2>3, <2>4, <2>5, <2>6, <2>7, <2>8 DEF Next
<1>2. ASSUME TypeOK, [Next]_vars
      PROVE  [\A h \in stored : /\ Cardinality(owners[h]) > 1
                                /\ \A u \in User : role[u] # "admin"
                                => h \in stored']_vars
  BY <1>1, <1>2
<1> QED BY <1>2, TypeCorrect, PTL DEF Spec, SharedBlobSurvives
-----------------------------------------------------------------------------
(* Backend and database agree when nothing fails.                          *)

\* The deployment of StoresAgree: no failing write, no S3 router, no anonymous
\* uploads, and a u64 wide enough for everything anybody could own.
Calm ==
    /\ Faults = {} /\ ~S3Compat /\ RequireAuth
    /\ \A S \in SUBSET Hash : Total(S) <= U64Max

\* With require_auth every open request carries a public key.
OpenAreUsers == \A c \in Conn : conn[c] # Idle => conn[c].user # Anonymous

\* What a step may then do to the two stores together.
StoreStep ==
    \/ UNCHANGED <<stored, owners>>
    \/ \E h \in Hash, p \in Principal :
          stored' = stored \cup {h} /\ RecordUpload(h, p)
    \/ \E h \in Hash, p \in User :
          /\ Cardinality(owners[h]) > 1 /\ DeleteUploadOwner(h, p)
          /\ UNCHANGED stored
    \/ \E h \in Hash : stored' = stored \ {h} /\ DeleteUpload(h)

LEMMA CheckedIsNotRefused ==
    ASSUME Calm, Accounting, NEW h \in Hash, NEW p \in User, QuotaChecked(h, p)
    PROVE  ~RecordRefused(h, p)
<1> SUFFICES ASSUME RecordRefused(h, p) PROVE FALSE
  OBVIOUS
<1>1. Owned(p) \in SUBSET Hash /\ h \in Hash \ Owned(p) /\ p \in Principal
  BY DEF RecordRefused
<1>2. used[p] + Size[h] = Total(Owned(p) \cup {h})
  BY <1>1, TotalAssumption DEF Accounting, UsedIsOwnedTotal
<1>3. used[p] + Size[h] <= U64Max
  BY <1>1, <1>2 DEF Calm
<1>4. used[p] \in Nat /\ Size[h] \in Nat /\ U64Max \in Nat
      /\ quota[p] \in Nat \cup {Unlimited}
  BY <1>1, SizeAssumption, ConfigAssumption DEF Accounting, TypeOK
<1> QED BY <1>3, <1>4, PrincipalAssumption
        DEF RecordRefused, QuotaChecked, QuotaAllows, AdditionalBytes

LEMMA CalmStep ==
    ASSUME Calm, Accounting, OpenAreUsers, [Next]_vars
    PROVE  StoreStep /\ OpenAreUsers'
<1> USE DEF StoreStep, OpenAreUsers
<1>1. ASSUME NEW c \in Conn, NEW via, Finish(c, via)
      PROVE  /\ conn[c].user \in User /\ conn[c].hash \in Hash
             /\ OpenAreUsers'
  BY <1>1 DEF Accounting, TypeOK, Finish, Request, Idle
<1>2. ASSUME NEW h \in Hash, NEW p \in User, QuotaChecked(h, p),
             StoreAndRecord(h, p)
      PROVE  StoreStep
  BY <1>2, CheckedIsNotRefused DEF StoreAndRecord, RecordFails, Calm
<1>3. ASSUME NEW h \in Hash, RemoveBlob(h) PROVE StoreStep
  BY <1>3 DEF RemoveBlob, Calm
<1>4. CASE UploadNext
  <2>1. ASSUME NEW c \in Conn, NEW p \in Principal, NEW h \in Hash,
               NEW via \in Via, Admit(c, p, h, via)
        PROVE  StoreStep /\ OpenAreUsers'
    <3>1. p # Anonymous
      BY <2>1 DEF Admit, MayAdmit, Calm, Via
    <3> QED BY <2>1, <3>1 DEF Admit, dbVars, Accounting, TypeOK
  <2>2. ASSUME NEW c \in Conn, Abandon(c) PROVE StoreStep /\ OpenAreUsers'
    BY <2>2 DEF Abandon, dbVars, Accounting, TypeOK
  <2>3. ASSUME NEW c \in Conn,
               \/ HandleUpload(c) \/ HandleMirror(c) \/ HandleMediaUpload(c)
               \/ HandleNip96Upload(c) \/ IrohUpload(c)
        PROVE  StoreStep /\ OpenAreUsers'
    <3>1. PICK via : /\ Finish(c, via)
                     /\ QuotaChecked(conn[c].hash, conn[c].user)
                     /\ StoreAndRecord(conn[c].hash, conn[c].user)
      BY <2>3 DEF HandleUpload, HandleMirror, HandleMediaUpload,
                  HandleNip96Upload, IrohUpload, QuotaChecked
    <3> QED BY <3>1, <1>1, <1>2
  <2> QED BY <1>4, <2>1, <2>2, <2>3 DEF UploadNext
<1>5. CASE DeleteNext
  <2>1. ASSUME NEW u \in User, NEW h \in Hash, DeleteAs(u, h)
        PROVE  StoreStep /\ OpenAreUsers'
    BY <2>1, <1>3 DEF DeleteAs
  <2>2. ASSUME NEW u \in User, NEW h \in Hash, HandleAdminDeleteBlob(u, h)
        PROVE  StoreStep /\ OpenAreUsers'
    BY <2>2, <1>3 DEF HandleAdminDeleteBlob
  <2> QED BY <1>5, <2>1, <2>2
        DEF DeleteNext, HandleDeleteBlob, HandleNip96Delete, IrohDelete
<1>6. CASE AdminNext
  BY <1>6 DEF AdminNext, HandleSetQuota, HandleSetRole, dbVars
<1>7. CASE \E h \in Hash : S3Put(h) \/ S3Delete(h)
  BY <1>7 DEF S3Put, S3Delete, Calm
<1>8. CASE Restart
  BY <1>8 DEF Restart, dbVars
<1>9. CASE UNCHANGED vars
  BY <1>9 DEF vars
<1> QED BY <1>4, <1>5, <1>6, <1>7, <1>8, <1>9 DEF Next

\* In a calm deployment a blob is stored exactly while somebody owns it, after
\* every sequence of uploads and deletions over every route.
THEOREM StoresStayInStep == Calm => (Spec => []StoresAgree)
<1> SUFFICES ASSUME Calm PROVE Spec => []StoresAgree
  OBVIOUS
<1>1. Init => StoresAgree /\ OpenAreUsers
  BY DEF Init, StoresAgree, OpenAreUsers
<1>2. ASSUME TypeOK, UsedIsOwnedTotal /\ UploadRowsHaveOwners,
             StoresAgree /\ OpenAreUsers, [Next]_vars
      PROVE  (StoresAgree /\ OpenAreUsers)'
  <2>1. Accounting
    BY <1>2 DEF Accounting
  <2> USE <1>2 DEF StoresAgree, TypeOK
  <2>2. ASSUME UNCHANGED <<stored, owners>> PROVE StoresAgree'
    BY <2>2
  <2>3. ASSUME NEW h \in Hash, NEW p \in Principal,
               stored' = stored \cup {h}, RecordUpload(h, p)
        PROVE  StoresAgree'
    BY <2>3 DEF RecordUpload
  <2>4. ASSUME NEW h \in Hash, NEW p \in User, Cardinality(owners[h]) > 1,
               DeleteUploadOwner(h, p), UNCHANGED stored
        PROVE  StoresAgree'
    <3>1. owners[h] \ {p} # {}
      BY <2>4, OtherOwnerRemains DEF DeleteUploadOwner
    <3> QED BY <2>4, <3>1 DEF DeleteUploadOwner
  <2>5. ASSUME NEW h \in Hash, stored' = stored \ {h}, DeleteUpload(h)
        PROVE  StoresAgree'
    <3>1. owners'[h] = {}
      BY <2>5 DEF DeleteUpload, UploadRowsHaveOwners
    <3>2. \A g \in Hash \ {h} : owners'[g] = owners[g]
      BY <2>5 DEF DeleteUpload
    <3> QED BY <2>5, <3>1, <3>2
  <2>6. StoresAgree'
    BY <2>1, <2>2, <2>3, <2>4, <2>5, CalmStep DEF StoreStep
  <2> QED BY <2>1, <2>6, CalmStep
<1> QED BY <1>1, <1>2, TypeCorrect, AccountingHolds, PTL DEF Spec
=============================================================================
