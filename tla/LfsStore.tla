------------------------------ MODULE LfsStore ------------------------------
(***************************************************************************)
(* What the bytes of a blob look like: LFS-aware storage (BUD-20) over the *)
(* blob backend.  An LFS upload is kept zstd-compressed, or as a           *)
(* compressed xdelta3 delta against a base blob, and a version record says *)
(* which.  GET undoes it.  The module models every handler that writes the *)
(* backend or the version records, each a single step under the server's   *)
(* mutex, and GET as the operator Get.  Who may call them is the subject   *)
(* of BlobOwnership; here an administrator may always delete.              *)
(***************************************************************************)
EXTENDS ContentAddresses, Naturals, Sequences, FiniteSetsExt

CONSTANTS
    File,         \* (repo_id, path) pairs
    Size,         \* Size[h]: length of the content h
    DeltaLen,     \* DeltaLen[b, h]: length of xdelta3's delta from b to h
    MaxDepth,     \* MAX_DELTA_CHAIN_DEPTH
    Configs,      \* set-ups of server, clients and faults; see config
    MaxLayers     \* bound: zstd layers a failing rebase may pile up

RequestKinds == {"lfs", "lfs_untagged", "manifest", "plain",
                 "overwrite", "delete", "bare_delete"}
FaultKinds == {"insert", "update", "remove", "metadata"}
Config == [hashes : SUBSET Hash,               \* the contents clients have
           frames : SUBSET Hash,               \* those that are valid zstd frames
           wrongSource : {"error", "junk"},    \* xdelta3 against a wrong source
           db : {"memory", "sqlite"},          \* the version database
           requests : SUBSET RequestKinds,     \* what clients ask for
           faults : SUBSET FaultKinds,         \* which writes of a deletion may fail
           max : Nat]                          \* bound: records, and version numbers

\* Bytes, up to what the code can tell apart: a body under z zstd layers.  A delta
\* names the content it yields and the content it was taken from (None when the
\* source was not the plain form of any content).
Bytes == [z : Nat, kind : {"plain", "delta", "junk"},
          of : Hash \cup {None}, base : Hash \cup {None}]

ASSUME LfsAssumption ==
    /\ None \notin Hash /\ None \notin File /\ None \notin Bytes
    /\ Size \in [Hash -> Nat] /\ DeltaLen \in [Hash \X Hash -> Nat]
    /\ \A c \in Configs : c \in Config
    /\ MaxDepth \in Nat \ {0} /\ MaxLayers \in Nat

VARIABLES
    config,    \* the set-up, which does not change
    backend,   \* backend[h]: the bytes stored under h, or None
    versions   \* lfs_file_versions, in insertion order

lfsVars == <<config, backend, versions>>

Asked(request) == request \in config.requests
MayFail(write) == write \in config.faults

-----------------------------------------------------------------------------
(* Codecs.                                                                 *)

Plain(h) == [z |-> 0, kind |-> "plain", of |-> h, base |-> None]
Delta(h, b) == [z |-> 0, kind |-> "delta", of |-> h, base |-> b]
Junk == [z |-> 0, kind |-> "junk", of |-> None, base |-> None]

Compress(x) == [x EXCEPT !.z = @ + 1]

\* decompress(x).unwrap_or(x): bytes that are no zstd frame stay as they are.
Decompress(x) ==
    IF x.z > 0 THEN [x EXCEPT !.z = @ - 1]
    ELSE IF x.kind = "plain" /\ x.of \in config.frames THEN Junk ELSE x

EncodeDelta(src, b, h) == Delta(h, IF src = Plain(b) THEN b ELSE None)

\* decode allocates 2 * (delta + source) bytes for its output and fails when
\* the content does not fit.
DecodeFits(b, h) == Size[h] <= 2 * (DeltaLen[b, h] + Size[b])

DecodeDelta(src, d) ==
    IF d.z > 0 \/ d.kind # "delta" THEN None
    ELSE IF d.base # None /\ src = Plain(d.base)
           THEN IF DecodeFits(d.base, d.of) THEN Plain(d.of) ELSE None
           ELSE IF config.wrongSource = "junk" THEN Junk ELSE None

DeltaIsWorthwhile(b, h) == Size[h] > 0 /\ 10 * DeltaLen[b, h] < 8 * Size[h]

-----------------------------------------------------------------------------
(* Version records.                                                        *)

Records == [file : File, version : Nat \ {0}, sha : Hash,
            base : Hash \cup {None}, storage : {"raw", "compressed", "delta"}]

NoRecord == [storage |-> "none", base |-> None]

\* The position of the oldest record of h, or 0.
Oldest(vs, h) ==
    LET I == {i \in 1..Len(vs) : vs[i].sha = h} IN IF I # {} THEN Min(I) ELSE 0

\* get_by_sha256, for each content.
GetBySha256(vs) ==
    [h \in Hash |-> IF Oldest(vs, h) = 0 THEN NoRecord ELSE vs[Oldest(vs, h)]]

GetLatestVersion(vs, f) ==
    Max({0} \cup {vs[i].version : i \in {j \in DOMAIN vs : vs[j].file = f}})

\* The records at the given positions, in order.
Pick(vs, positions) ==
    LET picked[n \in 0..Len(vs)] ==
            IF n = 0 THEN <<>>
            ELSE IF n \in positions THEN Append(picked[n-1], vs[n]) ELSE picked[n-1]
    IN  picked[Len(vs)]

GetDeltasForBase(vs, h) ==
    Pick(vs, {i \in DOMAIN vs : vs[i].storage = "delta" /\ vs[i].base = h})

\* update_version(h, Compressed, None): the in-memory database changes the
\* first record of h, SQLite all of them.
UpdateVersion(vs, h) ==
    [i \in DOMAIN vs |->
        IF vs[i].sha = h /\ (config.db = "memory" => i = Oldest(vs, h))
          THEN [vs[i] EXCEPT !.storage = "compressed", !.base = None]
          ELSE vs[i]]

\* Mutant: like update_version, only the first record of h goes.
DeleteFirstRecord(vs, h) == Pick(vs, DOMAIN vs \ {Oldest(vs, h)})

DeleteBySha256(vs, h) == Pick(vs, {i \in DOMAIN vs : vs[i].sha # h})

-----------------------------------------------------------------------------
(* Reading.                                                                *)

\* The bytes under a hash that is read without a base.
ReadBase(be, rec, h) ==
    IF rec[h].storage = "compressed" /\ be[h] # None THEN Decompress(be[h]) ELSE be[h]

\* The bytes under a hash whose base was read as src.
ReadDelta(be, h, src) ==
    IF src = None \/ be[h] = None THEN None ELSE DecodeDelta(src, Decompress(be[h]))

\* reconstruct_blob walks at most MaxDepth records towards the base, then applies
\* the deltas on the way back: Reads(be, rec)[n][h] is what it makes of h when n
\* records may still be looked at.
Reads(be, rec) ==
    LET read[n \in 0..MaxDepth] ==
            [h \in Hash |->
                IF n = 0 THEN ReadBase(be, rec, h)
                ELSE IF rec[h].storage = "none" THEN None
                ELSE IF rec[h].storage = "delta" THEN ReadDelta(be, h, read[n-1][rec[h].base])
                ELSE ReadBase(be, rec, h)]
    IN  read

ReconstructBlob(be, rec, h) == Reads(be, rec)[MaxDepth][h]

\* What GET answers with 200 for a stored h; a failed reconstruction is
\* answered with the stored bytes.
Get(be, rec, h) ==
    CASE rec[h].storage = "compressed" -> Decompress(be[h])
      [] rec[h].storage = "delta" ->
            LET r == ReconstructBlob(be, rec, h) IN IF r = None THEN be[h] ELSE r
      [] OTHER -> be[h]

-----------------------------------------------------------------------------
(* Writing.                                                                *)

LfsInit ==
    /\ config \in Configs
    /\ backend = [h \in Hash |-> None]
    /\ versions = <<>>

\* The upload pipeline: the bytes to store and the record's storage and base.
\* base is read as GET would read it, by its own record.
Encoded(h, base) ==
    LET rec == GetBySha256(versions) IN
    IF base = None \/ rec[base] = NoRecord \/ backend[base] = None
       \/ ~DeltaIsWorthwhile(base, h)
    THEN [data |-> Compress(Plain(h)), storage |-> "compressed", base |-> None]
    ELSE [data |-> Compress(EncodeDelta(Get(backend, rec, base), base, h)),
          storage |-> "delta", base |-> base]

AsIs(h) == [data |-> Plain(h), storage |-> "raw", base |-> None]

\* An upload never replaces the bytes of an existing blob...
InsertIfAbsent(h, data) ==
    backend' = IF backend[h] = None THEN [backend EXCEPT ![h] = data] ELSE backend

\* Mutant: versions are numbered by counting the file's records.
RecordVersionCounted(f, h, enc) ==
    /\ Len(versions) < config.max
    /\ versions' = Append(versions,
          [file |-> f, sha |-> h, base |-> enc.base, storage |-> enc.storage,
           version |-> Len(SelectSeq(versions, LAMBDA v : v.file = f)) + 1])

\* ...but appends a record describing what it would have stored.
RecordVersion(f, h, enc) ==
    /\ Len(versions) < config.max /\ GetLatestVersion(versions, f) < config.max
    /\ versions' = Append(versions,
          [file |-> f, version |-> GetLatestVersion(versions, f) + 1,
           sha |-> h, base |-> enc.base, storage |-> enc.storage])

UploadLfs(h, f, base) ==
    /\ Asked("lfs")
    /\ LET enc == Encoded(h, base) IN
         InsertIfAbsent(h, enc.data) /\ RecordVersion(f, h, enc)

\* Without a path or a repo tag there is no record.
UploadLfsUntagged(h, base) ==
    /\ Asked("lfs_untagged")
    /\ InsertIfAbsent(h, Encoded(h, base).data)
    /\ UNCHANGED versions

UploadManifest(h, f) ==
    /\ Asked("manifest")
    /\ InsertIfAbsent(h, Plain(h))
    /\ RecordVersion(f, h, AsIs(h))

UploadPlain(h) ==
    /\ Asked("plain")
    /\ InsertIfAbsent(h, Plain(h))
    /\ UNCHANGED versions

\* Mirror, media and NIP-96 uploads write the plain bytes over what is there.
Overwrite(h) ==
    /\ Asked("overwrite")
    /\ backend' = [backend EXCEPT ![h] = Plain(h)]
    /\ UNCHANGED versions

\* Mutant: dependents are left as they are.
RebasedNone(h, n) == [be |-> backend, vs |-> versions]

\* Mutant: the base's content is written where the dependent's belongs.
RebasedToBase(h, n) ==
    LET deltas == GetDeltasForBase(versions, h)
        shas == {deltas[k].sha : k \in 1..n}
    IN  [be |-> [d \in Hash |-> IF d \in shas THEN Compress(Plain(h)) ELSE backend[d]],
         vs |-> [i \in DOMAIN versions |->
                    IF versions[i].sha \in shas
                      THEN [versions[i] EXCEPT !.storage = "compressed", !.base = None]
                      ELSE versions[i]]]

\* The state after the first k deltas that depend on h were rewritten as full
\* compressed blobs.
Rebased(h, n) ==
    LET deltas == GetDeltasForBase(versions, h)
        after[k \in 0..n] ==
            IF k = 0 THEN [be |-> backend, vs |-> versions]
            ELSE LET s == after[k-1]
                     d == deltas[k].sha
                     r == ReconstructBlob(s.be, GetBySha256(s.vs), d)
                 IN  IF s.be[d] = None \/ r = None THEN s
                     ELSE [be |-> [s.be EXCEPT ![d] = Compress(r)],
                           vs |-> UpdateVersion(s.vs, d)]
    IN  after[n]

\* DELETE over HTTP or iroh by the last owner or an administrator: rebase every
\* dependent delta, remove the blob, its metadata, its version records.
HandleDeleteBlob(h) ==
    /\ Asked("delete")
    /\ LET s == Rebased(h, Len(GetDeltasForBase(versions, h))) IN
         \/ /\ backend[h] = None \/ MayFail("remove")
            /\ backend' = s.be /\ versions' = s.vs
         \/ /\ backend[h] # None
            /\ backend' = [s.be EXCEPT ![h] = None]
            /\ \/ versions' = DeleteBySha256(s.vs, h)
               \/ MayFail("metadata") /\ versions' = s.vs

\* The rebase stops at the first failing write.
DeleteInterrupted(h) ==
    /\ Asked("delete")
    /\ \E k \in 1..Len(GetDeltasForBase(versions, h)) :
         LET before == Rebased(h, k - 1)  after == Rebased(h, k) IN
         /\ before # after
         /\ \/ MayFail("insert") /\ backend' = before.be
            \/ /\ MayFail("update") /\ backend' = after.be
               /\ after.be[GetDeltasForBase(versions, h)[k].sha].z <= MaxLayers
         /\ versions' = before.vs

\* The administrator API and NIP-96 delete the blob and its metadata only.
BareDelete(h) ==
    /\ Asked("bare_delete")
    /\ backend[h] # None
    /\ backend' = [backend EXCEPT ![h] = None]
    /\ UNCHANGED versions

LfsNext ==
    /\ UNCHANGED config
    /\ \E h \in config.hashes :
         \/ \E f \in File, b \in config.hashes \cup {None} : UploadLfs(h, f, b)
         \/ \E b \in config.hashes \cup {None} : UploadLfsUntagged(h, b)
         \/ \E f \in File : UploadManifest(h, f)
         \/ UploadPlain(h) \/ Overwrite(h)
         \/ HandleDeleteBlob(h) \/ DeleteInterrupted(h) \/ BareDelete(h)

LfsSpec == LfsInit /\ [][LfsNext]_lfsVars

-----------------------------------------------------------------------------
(* Properties.                                                             *)

\* Types of the backend and the version table.
LfsTypeOK ==
    /\ config \in Configs
    /\ backend \in [Hash -> Bytes \cup {None}]
    /\ versions \in Seq(Records)

\* GET of every stored blob returns exactly its content: "The GET /<sha256>
\* endpoint returns the full decompressed blob regardless of how it is stored"
\* (BUD-20), however many versions, deltas, rebases and deletions came before.
GetReturnsContent ==
    \A h \in Hash : backend[h] # None => Get(backend, GetBySha256(versions), h) = Plain(h)

\* What is stored under a hash was made from its content.
MadeFromContent == \A h \in Hash : backend[h] # None => backend[h].of = h

\* Clients keep to LFS uploads, manifests and DELETE, and a deletion fails before
\* it has changed a record, if at all.
Undisturbed ==
    config.requests \subseteq {"lfs", "manifest", "delete"} /\ config.faults \subseteq {"insert", "remove"}

\* The contents from which more than n deltas in a row lead towards the base.
Deeper(rec) ==
    LET deeper[n \in 0..MaxDepth] ==
            {h \in Hash : rec[h].storage = "delta" /\ (n > 0 => rec[h].base \in deeper[n-1])}
    IN  deeper

\* No chain is longer than MAX_DELTA_CHAIN_DEPTH, and no content too long for the
\* buffer that decode allocates.
WithinLimits ==
    LET rec == GetBySha256(versions) IN
    /\ Deeper(rec)[MaxDepth] = {}
    /\ \A h \in Hash : rec[h].storage = "delta" => DecodeFits(rec[h].base, h)

\* As long as chains and deltas stay within the limits of reconstruct_blob and no
\* other request writes below the version records, GET returns the content of every
\* stored blob, through rebases, interrupted deletions and re-uploads.
ChainsKeepContent ==
    Undisturbed /\ []WithinLimits => [](GetReturnsContent /\ MadeFromContent)

\* "Delete the blob and its version records": there, no version record outlives its
\* blob, so a later upload of the same content is not read by a stale record.
NoStaleRecords ==
    Undisturbed => \A i \in DOMAIN versions : backend[versions[i].sha] # None

\* xdelta3 refuses a delta whose source is not the one it was taken from, and no
\* content looks like a zstd frame.
CodecsTell == config.wrongSource = "error" /\ config.frames = {}

\* Where the codecs tell, nothing is ever stored under a hash that was not made
\* from its content, whatever requests and failing writes came before: the rebase
\* loop of a deletion stores whatever reconstruct_blob returned.
StoredFromContent == CodecsTell => MadeFromContent

\* The primary key (repo_id, path, version) of SQLite, which the in-memory
\* table does not enforce: no two live records of a file share a number.
VersionsUnique ==
    \A i, j \in DOMAIN versions :
        versions[i].file = versions[j].file /\ versions[i].version = versions[j].version
        => i = j
=============================================================================
