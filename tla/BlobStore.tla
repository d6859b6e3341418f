----------------------------- MODULE BlobStore -----------------------------
(***************************************************************************)
(* What a blob backend promises its caller (trait BlobBackend): calls come *)
(* one at a time, a call takes effect at most once between its start and   *)
(* its answer, a positive answer says that it did, an error leaves open    *)
(* whether it did, no call touches another blob, and a crash leaves every  *)
(* blob whole.  The one exception is a power cut shortly after a streamed  *)
(* insert.  StorageBackends shows that the three backends keep the promise.*)
(***************************************************************************)
CONSTANTS
    Hash,   \* content addresses
    Form,   \* byte sequences stored under a hash: its content or an encoding
    None,   \* no blob, no call
    Torn    \* bytes that were only partly written

VARIABLES
    blobs,     \* blobs[h]: the bytes a get of h returns, or None
    loose,     \* loose[h]: what a power cut may still bring back for h
    call,      \* the call in progress, or None
    answer,    \* answer[h]: how the last call on h since the start ended
    volatile,  \* TRUE when a crash loses every blob
    shared     \* TRUE when another process uses the same storage

storeVars == <<blobs, loose, call, answer, volatile, shared>>

Calls == [do : {"insert", "stream", "delete"}, hash : Hash, form : Form,
          applied : BOOLEAN]
\* "unsure": an error, or a call that does not report one.
Answers == {"none", "ok", "absent", "unsure"}

StoreInit ==
    /\ blobs \in [Hash -> Form \cup {None}]
    /\ loose = [h \in Hash |-> {}]
    /\ call = None
    /\ answer = [h \in Hash |-> "none"]
    /\ volatile \in BOOLEAN /\ shared \in BOOLEAN

\* insert, insert_with_hash, insert_stream or delete is called.
Begin(do, h, f) ==
    /\ call = None
    /\ call' = [do |-> do, hash |-> h, form |-> f, applied |-> FALSE]
    /\ UNCHANGED <<blobs, loose, answer, volatile, shared>>

\* The call takes effect.  A power cut may undo it for a while, and may tear
\* what was streamed.
TakeEffect ==
    LET h == call.hash
        v == IF call.do = "delete" THEN None ELSE call.form
        back == {blobs[h]} \cup (IF call.do = "stream" THEN {Torn} ELSE {})
    IN  /\ ~call.applied
        /\ blobs' = [blobs EXCEPT ![h] = v]
        /\ loose' \in {loose, [loose EXCEPT ![h] = @ \cup back]}

\* The call goes on (res = "pending") or ends with the answer res.
Work(effect, res) ==
    /\ call # None
    /\ IF effect THEN TakeEffect ELSE UNCHANGED <<blobs, loose>>
    /\ res = "ok" => call.applied \/ effect
    /\ res = "absent" => call.do = "delete"
    /\ IF res = "pending"
         THEN call' = [call EXCEPT !.applied = @ \/ effect] /\ UNCHANGED answer
         ELSE call' = None /\ answer' = [answer EXCEPT ![call.hash] = res]
    /\ UNCHANGED <<volatile, shared>>

\* The operating system has written everything of h.
Settle(h) ==
    /\ loose' = [loose EXCEPT ![h] = {}]
    /\ UNCHANGED <<blobs, call, answer, volatile, shared>>

\* The process ends and a new one opens the storage.
Crash ==
    /\ \/ volatile /\ blobs' = [h \in Hash |-> None] /\ UNCHANGED loose
       \/ ~volatile /\ UNCHANGED <<blobs, loose>>
       \/ /\ ~volatile
          /\ \A h \in Hash : blobs'[h] \in {blobs[h]} \cup loose[h]
          /\ blobs' \in [Hash -> Form \cup {None, Torn}]
          /\ loose' = [h \in Hash |-> {}]
    /\ call' = None
    /\ answer' = [h \in Hash |-> "none"]
    /\ UNCHANGED <<volatile, shared>>

\* Another process on the same directory or bucket.
Outside(h, v) ==
    /\ shared
    /\ blobs' = [blobs EXCEPT ![h] = v]
    /\ UNCHANGED <<loose, call, answer, volatile, shared>>

StoreNext ==
    \/ \E h \in Hash :
         \/ \E do \in {"insert", "stream", "delete"}, f \in Form : Begin(do, h, f)
         \/ \E v \in Form \cup {None} : Outside(h, v)
         \/ Settle(h)
    \/ \E effect \in BOOLEAN, res \in {"pending", "ok", "absent", "unsure"} :
         Work(effect, res)
    \/ Crash

StoreSpec == StoreInit /\ [][StoreNext]_storeVars
=============================================================================
