--------------------------- MODULE StorageBackends ---------------------------
(***************************************************************************)
(* The three blob backends: the in-memory map, the directory of <sha256>   *)
(* files written through a temporary file, and the S3 bucket, the last two *)
(* with an in-memory index built when the backend is opened.  The server   *)
(* calls them under its mutex, so there is one call at a time; what can    *)
(* come in between is a failing system call or request, the end of the     *)
(* process, a power cut, and another process on the same storage.          *)
(***************************************************************************)
EXTENDS ContentAddresses, Naturals

CONSTANTS Form, Torn,   \* as in BlobStore
    Raw,    \* the content itself, what insert and insert_stream store
    Kinds   \* the backends considered

ASSUME StorageAssumption ==
    /\ Raw \in Form /\ None \notin Form /\ Torn \notin Form /\ None # Torn
    /\ Kinds \subseteq {"memory", "filesystem", "s3"}

VARIABLES blobs, loose, call, answer, shared,   \* as in BlobStore
    kind,    \* which backend runs
    index,   \* the hashes in the backend's index
    task,    \* where the current call is, and what it remembers
    temp     \* the temporary file of the current call, or None

vars == <<blobs, loose, call, answer, shared, kind, index, task, temp>>

Store == INSTANCE BlobStore WITH volatile <- (kind = "memory")

ASSUME CallAssumption == None \notin Store!Calls
Tasks == [pc : {"idle", "start", "temp", "synced", "removed"},
          told : BOOLEAN, existed : BOOLEAN]
NoTask == [pc |-> "idle", told |-> FALSE, existed |-> FALSE]

\* new and rebuild_index: names that end in .blob, temporary files are not seen.
Listed(b) == {h \in Hash : b[h] # None}

Init ==
    /\ kind \in Kinds
    /\ blobs \in [Hash -> {None}] \cup (IF kind = "memory" THEN {} ELSE [Hash -> {None, Raw}])
    /\ loose = [h \in Hash |-> {}]
    /\ call = None /\ task = NoTask /\ temp = None
    /\ answer = [h \in Hash |-> "none"]
    /\ shared \in (IF kind = "memory" THEN {FALSE} ELSE BOOLEAN)
    /\ index = Listed(blobs)

-----------------------------------------------------------------------------
(* Calls.  The infallible forms do not tell their caller about an error.   *)

Start(do, h, f, told) ==
    /\ call = None
    /\ call' = [do |-> do, hash |-> h, form |-> f, applied |-> FALSE]
    /\ task' = [pc |-> "start", told |-> told, existed |-> FALSE]
    /\ UNCHANGED <<blobs, loose, answer, shared, kind, index, temp>>

Insert(h) == Start("insert", h, Raw, FALSE)
TryInsert(h) == Start("insert", h, Raw, TRUE)
InsertWithHash(h, f) == Start("insert", h, f, FALSE)
TryInsertWithHash(h, f) == Start("insert", h, f, TRUE)
InsertStream(h) == Start("stream", h, Raw, TRUE)
Delete(h) == Start("delete", h, Raw, FALSE)
TryDelete(h) == Start("delete", h, Raw, TRUE)

At(k, dos, pcs) == kind = k /\ call # None /\ call.do \in dos /\ task.pc \in pcs

Return(res) ==
    /\ answer' = [answer EXCEPT ![call.hash] = IF task.told THEN res ELSE "unsure"]
    /\ call' = None /\ task' = NoTask

\* What the call leaves under its hash, and in the index.
Put(v) == blobs' = [blobs EXCEPT ![call.hash] = v]
Indexed == index' = index \cup {call.hash}
Unindexed == index' = index \ {call.hash}

\* What a power cut may undo: a rename or a removal, and unsynced bytes.
Loosen(torn) == loose' = [loose EXCEPT ![call.hash] = @ \cup {blobs[call.hash]} \cup torn]

-----------------------------------------------------------------------------
(* The in-memory map.                                                      *)

MemoryInsert ==
    /\ At("memory", {"insert", "stream"}, {"start"})
    /\ Put(call.form) /\ Indexed /\ Return("ok")
    /\ UNCHANGED <<loose, shared, kind, temp>>

MemoryReadFails ==
    /\ At("memory", {"stream"}, {"start"})
    /\ Return("unsure")
    /\ UNCHANGED <<blobs, loose, shared, kind, index, temp>>

MemoryDelete ==
    /\ At("memory", {"delete"}, {"start"})
    /\ Put(None) /\ Unindexed
    /\ Return(IF call.hash \in index THEN "ok" ELSE "absent")
    /\ UNCHANGED <<loose, shared, kind, temp>>

-----------------------------------------------------------------------------
(* The directory.                                                          *)

\* Mutant: the blob is written under its final name.
FsWriteInPlace ==
    /\ At("filesystem", {"insert", "stream"}, {"start"})
    /\ temp' = call.form
    /\ task' = [task EXCEPT !.pc = "temp"]
    /\ Put(Torn)
    /\ UNCHANGED <<loose, call, answer, shared, kind, index>>

FsWriteTemp ==
    /\ At("filesystem", {"insert", "stream"}, {"start"})
    /\ temp' = call.form
    /\ task' = [task EXCEPT !.pc = "temp"]
    /\ UNCHANGED <<blobs, loose, call, answer, shared, kind, index>>

\* atomic_write syncs before it renames; insert_stream only flushes.
FsSync ==
    /\ At("filesystem", {"insert"}, {"temp"})
    /\ task' = [task EXCEPT !.pc = "synced"]
    /\ UNCHANGED <<blobs, loose, call, answer, shared, kind, index, temp>>

FsRename ==
    /\ At("filesystem", {"insert"}, {"synced"}) \/ At("filesystem", {"stream"}, {"temp"})
    /\ Put(temp) /\ temp' = None
    /\ Loosen(IF call.do = "stream" THEN {Torn} ELSE {})
    /\ Indexed /\ Return("ok")
    /\ UNCHANGED <<shared, kind>>

\* Mutant: insert enters the hash whether the write worked or not.
FsFailsIndexed ==
    /\ At("filesystem", {"insert", "stream"}, {"start", "temp", "synced"})
    /\ temp' = None /\ Indexed /\ Return("unsure")
    /\ UNCHANGED <<blobs, loose, shared, kind>>

\* Any of the steps fails; the temporary file is removed.
FsFails ==
    /\ At("filesystem", {"insert", "stream"}, {"start", "temp", "synced"})
    /\ temp' = None /\ Return("unsure")
    /\ UNCHANGED <<blobs, loose, shared, kind, index>>

FsExists(h) == h \in index \/ blobs[h] # None

\* A hash that is indexed but has no file cannot be deleted: removing the file
\* fails, and the entry stays.
FsDelete ==
    /\ At("filesystem", {"delete"}, {"start"})
    /\ \/ /\ ~FsExists(call.hash)
          /\ Return("absent") /\ UNCHANGED <<blobs, loose, index>>
       \/ /\ blobs[call.hash] # None
          /\ Put(None) /\ Loosen({}) /\ Unindexed /\ Return("ok")
       \/ /\ FsExists(call.hash)
          /\ Return("unsure") /\ UNCHANGED <<blobs, loose, index>>
    /\ UNCHANGED <<shared, kind, temp>>

-----------------------------------------------------------------------------
(* The bucket.  A request that fails may have been carried out.            *)

S3WriteTemp ==
    /\ At("s3", {"stream"}, {"start"})
    /\ \/ temp' = call.form /\ task' = [task EXCEPT !.pc = "temp"] /\ UNCHANGED <<call, answer>>
       \/ Return("unsure") /\ UNCHANGED temp
    /\ UNCHANGED <<blobs, loose, shared, kind, index>>

S3Put ==
    /\ At("s3", {"insert"}, {"start"}) \/ At("s3", {"stream"}, {"temp"})
    /\ \/ Put(call.form) /\ Indexed /\ Return("ok")
       \/ /\ Put(call.form) \/ UNCHANGED blobs
          /\ Return("unsure") /\ UNCHANGED index
    /\ temp' = None
    /\ UNCHANGED <<loose, shared, kind>>

\* exists asks the bucket only about a hash that is not indexed, and takes a
\* failing request for an absent object.
S3Exists(h) == IF h \in index THEN {TRUE} ELSE {blobs[h] # None, FALSE}

\* The bucket may acknowledge a removal and keep the object.
S3Delete ==
    /\ At("s3", {"delete"}, {"start"})
    /\ \E existed \in S3Exists(call.hash), removed \in BOOLEAN :
         /\ IF removed THEN Put(None) ELSE UNCHANGED blobs
         /\ \/ /\ task' = [task EXCEPT !.pc = "removed", !.existed = existed]
               /\ call' = [call EXCEPT !.applied = removed] /\ UNCHANGED answer
            \/ Return("unsure")
    /\ UNCHANGED <<loose, shared, kind, index, temp>>

\* Mutant: the entry goes before the bucket confirms.
S3VerifyUnchecked ==
    /\ At("s3", {"delete"}, {"removed"})
    /\ Unindexed
    /\ Return(IF task.existed THEN "ok" ELSE "absent")
    /\ UNCHANGED <<blobs, loose, shared, kind, temp>>

\* Mutant: a failing verification is tried again, without end.
S3VerifyRetries ==
    /\ At("s3", {"delete"}, {"removed"})
    /\ \/ /\ blobs[call.hash] = None
          /\ Unindexed /\ Return(IF task.existed THEN "ok" ELSE "absent")
       \/ blobs[call.hash] # None /\ UNCHANGED <<index, answer, call, task>>
    /\ UNCHANGED <<blobs, loose, shared, kind, temp>>

\* The entry is kept until the object is seen to be absent.
S3Verify ==
    /\ At("s3", {"delete"}, {"removed"})
    /\ \/ /\ blobs[call.hash] = None
          /\ Unindexed /\ Return(IF task.existed THEN "ok" ELSE "absent")
       \/ Return("unsure") /\ UNCHANGED index
    /\ UNCHANGED <<blobs, loose, shared, kind, temp>>

-----------------------------------------------------------------------------
(* The world.                                                              *)

\* The process ends, and a new one opens the storage.  A temporary file stays
\* behind and is never looked at.
Restart(b) ==
    /\ blobs' = b /\ index' = Listed(b)
    /\ call' = None /\ task' = NoTask /\ temp' = None
    /\ answer' = [h \in Hash |-> "none"]
    /\ UNCHANGED <<shared, kind>>

Kill ==
    /\ Restart(IF kind = "memory" THEN [h \in Hash |-> None] ELSE blobs)
    /\ UNCHANGED loose

PowerCut ==
    /\ kind = "filesystem"
    /\ \E b \in [Hash -> Form \cup {None, Torn}] :
         /\ \A h \in Hash : b[h] \in {blobs[h]} \cup loose[h]
         /\ Restart(b)
    /\ loose' = [h \in Hash |-> {}]

Settle(h) ==
    /\ loose[h] # {}
    /\ loose' = [loose EXCEPT ![h] = {}]
    /\ UNCHANGED <<blobs, call, answer, shared, kind, index, task, temp>>

Outside(h, v) ==
    /\ shared /\ blobs[h] # v
    /\ blobs' = [blobs EXCEPT ![h] = v]
    /\ UNCHANGED <<loose, call, answer, shared, kind, index, task, temp>>

Step == \/ MemoryInsert \/ MemoryReadFails \/ MemoryDelete
        \/ FsWriteTemp \/ FsSync \/ FsRename \/ FsFails \/ FsDelete
        \/ S3WriteTemp \/ S3Put \/ S3Delete \/ S3Verify

Next ==
    \/ \E h \in Hash :
         \/ Insert(h) \/ TryInsert(h) \/ InsertStream(h) \/ Delete(h) \/ TryDelete(h)
         \/ \E f \in Form : InsertWithHash(h, f) \/ TryInsertWithHash(h, f)
         \/ Settle(h)
         \/ \E v \in {None, Raw} : Outside(h, v)
    \/ Step \/ Kill \/ PowerCut

\* System calls and SDK requests return, with a result or an error.
Spec == Init /\ [][Next]_vars /\ WF_vars(Step)

-----------------------------------------------------------------------------
(* Properties.                                                             *)

\* Types; the local state belongs to a call.
TypeOK ==
    /\ blobs \in [Hash -> Form \cup {None, Torn}]
    /\ loose \in [Hash -> SUBSET (Form \cup {None, Torn})]
    /\ call \in Store!Calls \cup {None} /\ answer \in [Hash -> Store!Answers]
    /\ shared \in BOOLEAN /\ kind \in Kinds /\ index \subseteq Hash
    /\ task \in Tasks /\ temp \in Form \cup {None}
    /\ call = None <=> task = NoTask

\* The backends keep the promise of the trait: however a call is cut short,
\* whatever request fails, and whoever else writes, a call takes effect at most
\* once and before its answer, and get returns whole bytes of the right hash,
\* except for a streamed blob after a power cut.
KeepsThePromise == Store!StoreSpec

\* Between calls the index names exactly the stored blobs, so that exists, len
\* and get agree.  On S3 a hash may differ after a call on it that returned an
\* error: a failed verification leaves an entry without an object, and until
\* the deletion is repeated or the server restarted an upload of that blob is
\* answered without storing it.
IndexDescribesStore ==
    (call = None /\ ~shared) =>
        \A h \in Hash : \/ h \in index <=> blobs[h] # None
                        \/ kind = "s3" /\ answer[h] = "unsure"

\* Every call comes back: no path of a backend waits or loops for ever.
EveryCallReturns == call # None ~> call = None
=============================================================================
