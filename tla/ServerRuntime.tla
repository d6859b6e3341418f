---------------------------- MODULE ServerRuntime ----------------------------
(***************************************************************************)
(* The life of the server process (blossom-server/src/main.rs): start with *)
(* the iroh key file, the whitelist with its reload loop and its           *)
(* administration, the rate limiter, egress statistics with their flush    *)
(* loop, the check of the release manifest, and shutdown.  The files and   *)
(* the database outlive a process; the rest is memory.                     *)
(***************************************************************************)
EXTENDS RateLimiter, BuildIntegrity

CONSTANTS
    Conn, Blob,
    Configs,     \* what of a server is followed, and how it is run
    Lists,       \* contents the operator gives the whitelist file
    None,
    MaxEgress,   \* bound: accesses of a blob
    MaxStarts,   \* bound: processes, with the starts of a configuration
    MaxEdits     \* bound: changes of the list by operator and administrators

Parts == {"admission", "stats", "release", "source"}

ASSUME RuntimeAssumption ==
    /\ Configs \subseteq [parts : SUBSET Parts, tls : BOOLEAN, starts : 0..MaxStarts]
    /\ Lists \subseteq SUBSET Key
    /\ {MaxEgress, MaxStarts, MaxEdits} \subseteq Nat

VARIABLES
    config,    \* how the server is run
    pc,        \* "down", "creating" its key, "serving", "draining"
    starts,
    keyFile,   \* 0: none, -1: created and not written, or the key
    node,      \* the key this process uses, 0 before it has one
    file,      \* the whitelist file
    list,      \* Whitelist.pubkeys
    reading,   \* what the reload loop has read of the file, or None
    edits,
    stats,     \* stats[b]: accesses accumulated in memory
    db,        \* db[b]: file_stats.egress_bytes
    egress,    \* history: accesses ever
    late,      \* history: accesses since the last flush of a draining server
    conn       \* conn[c]: None, a blob asked for, or "sending" it

keyVars == <<starts, keyFile, node>>
listVars == <<file, list, reading, edits>>
statsVars == <<stats, db, egress, late, conn>>
vars == <<config, pc, keyVars, listVars, statsVars, limiterVars, integrityVars>>

Zero == [b \in Blob |-> 0]
Has(part) == part \in config.parts
Up == pc \in {"serving", "draining"}

Init ==
    /\ config \in Configs
    /\ pc = "down" /\ starts = 0 /\ keyFile = 0 /\ node = 0
    /\ file \in Lists /\ list = {} /\ reading = None /\ edits = 0
    /\ stats = Zero /\ db = Zero /\ egress = Zero /\ late = Zero
    /\ conn = [c \in Conn |-> None]
    /\ LimiterInit /\ IntegrityInit(config.parts)

-----------------------------------------------------------------------------
(* Start and end of a process.                                             *)

NewProcess ==
    /\ pc = "down" /\ starts < config.starts
    /\ starts' = starts + 1
    /\ list' = file
    /\ LimiterRestart /\ IntegrityRestart
    /\ UNCHANGED <<config, file, reading, edits, statsVars>>

\* Mutant: a key is made for every process.
StartWithNewKey ==
    /\ NewProcess
    /\ pc' = "serving" /\ keyFile' = starts' /\ node' = starts'

\* A file that does not hold 32 bytes stops the start.
StartWithKey ==
    /\ keyFile > 0
    /\ NewProcess
    /\ pc' = "serving" /\ node' = keyFile /\ UNCHANGED keyFile

\* create_new: the file is there, empty.
CreateKey ==
    /\ keyFile = 0
    /\ NewProcess
    /\ pc' = "creating" /\ keyFile' = -1 /\ UNCHANGED node

\* Only a key that was written and synced is used.  starts names a fresh key.
WriteKey ==
    /\ pc = "creating"
    /\ pc' = "serving" /\ keyFile' = starts /\ node' = starts
    /\ UNCHANGED <<config, starts, listVars, statsVars, limiterVars, integrityVars>>

ProcessEnds ==
    /\ pc' = "down" /\ node' = 0
    /\ list' = {} /\ reading' = None
    /\ stats' = Zero /\ late' = Zero /\ conn' = [c \in Conn |-> None]
    /\ UNCHANGED <<config, starts, keyFile, file, edits, db, egress, limiterVars, integrityVars>>

Crash == pc # "down" /\ ProcessEnds

\* Mutant: connections are waited for without a limit.
ExitWhenIdle ==
    /\ pc = "draining"
    /\ \A c \in Conn : conn[c] = None
    /\ ProcessEnds

\* With TLS open connections have ten seconds, without it all they want.
Exit ==
    /\ pc = "draining"
    /\ config.tls \/ \A c \in Conn : conn[c] = None
    /\ ProcessEnds

-----------------------------------------------------------------------------
(* Statistics.                                                             *)

\* Mutant: what is written stays in memory.
FlushUndrained(failed) ==
    /\ db' = [b \in Blob |-> IF b \in failed THEN db[b] ELSE db[b] + stats[b]]
    /\ late' = Zero
    /\ UNCHANGED <<stats, egress, conn>>

\* drain empties the accumulator; what the database does not take is gone.
Flush(failed) ==
    /\ db' = [b \in Blob |-> IF b \in failed THEN db[b] ELSE db[b] + stats[b]]
    /\ stats' = Zero /\ late' = Zero
    /\ UNCHANGED <<egress, conn>>

Pending == {b \in Blob : stats[b] > 0}

StatsFlushLoop(failed) ==
    /\ Up
    /\ Flush(failed)
    /\ UNCHANGED <<config, pc, keyVars, listVars, limiterVars, integrityVars>>

\* Ctrl+C: flush, then no new connections.
ShutdownSignal(failed) ==
    /\ pc = "serving"
    /\ pc' = "draining"
    /\ Flush(failed)
    /\ UNCHANGED <<config, keyVars, listVars, limiterVars, integrityVars>>

OpenGet(c, b) ==
    /\ Has("stats") /\ pc = "serving" /\ conn[c] = None
    /\ conn' = [conn EXCEPT ![c] = b]
    /\ UNCHANGED <<config, pc, keyVars, listVars, limiterVars, integrityVars, stats, db, egress, late>>

\* Under the mutex, before the first byte is sent.
HandleGetBlob(c) ==
    /\ Up /\ conn[c] \in Blob /\ egress[conn[c]] < MaxEgress
    /\ stats' = [stats EXCEPT ![conn[c]] = @ + 1]
    /\ egress' = [egress EXCEPT ![conn[c]] = @ + 1]
    /\ late' = IF pc = "draining" THEN [late EXCEPT ![conn[c]] = @ + 1] ELSE late
    /\ conn' = [conn EXCEPT ![c] = "sending"]
    /\ UNCHANGED <<config, pc, keyVars, listVars, limiterVars, integrityVars, db>>

\* The client has taken the answer, or is gone.
Close(c) ==
    /\ conn[c] # None
    /\ conn' = [conn EXCEPT ![c] = None]
    /\ UNCHANGED <<config, pc, keyVars, listVars, limiterVars, integrityVars, stats, db, egress, late>>

\* delete_upload takes the row of file_stats along, not what is in memory.
DeleteUpload(b) ==
    /\ Has("stats") /\ Up
    /\ db' = [db EXCEPT ![b] = 0]
    /\ UNCHANGED <<config, pc, keyVars, listVars, limiterVars, integrityVars, stats, egress, late, conn>>

-----------------------------------------------------------------------------
(* Admission: the whitelist, then the rate limiter.                        *)

AdmissionStep == Has("admission") /\ UNCHANGED <<config, pc, keyVars, statsVars, integrityVars>>

\* A whitelist allows its members every action.  A request that meets the reload
\* at the set is refused, which changes nothing.
WhitelistAllows(k) == pc = "serving" /\ k \in list

Upload(k) ==
    /\ AdmissionStep
    /\ WhitelistAllows(k)
    /\ CheckGrants(k) \/ CheckRefuses(k)
    /\ UNCHANGED listVars

Clock == AdmissionStep /\ (TimePasses \/ ClockSetBack) /\ UNCHANGED listVars

OperatorEditsFile(content) ==
    /\ AdmissionStep
    /\ edits < MaxEdits /\ edits' = edits + 1
    /\ file' = content
    /\ UNCHANGED <<list, reading, limiterVars>>

ExtractAdminPubkey(by) == WhitelistAllows(by)

HandleWhitelistAdd(by, k) ==
    /\ AdmissionStep
    /\ edits < MaxEdits /\ edits' = edits + 1
    /\ ExtractAdminPubkey(by)
    /\ list' = list \cup {k}
    /\ UNCHANGED <<file, reading, limiterVars>>

HandleWhitelistRemove(by, k) ==
    /\ AdmissionStep
    /\ edits < MaxEdits /\ edits' = edits + 1
    /\ ExtractAdminPubkey(by)
    /\ list' = list \ {k}
    /\ UNCHANGED <<file, reading, limiterVars>>

\* reload reads the file, waits, then replaces the set.  A failed read is tried
\* again at the next tick.
ReloadReads ==
    /\ AdmissionStep
    /\ Up /\ reading = None
    /\ reading' = file
    /\ UNCHANGED <<file, list, edits, limiterVars>>

\* Mutant: keys of the file are added, none is taken off.
ReloadAdds ==
    /\ AdmissionStep
    /\ Up /\ reading # None
    /\ list' = list \cup reading /\ reading' = None
    /\ UNCHANGED <<file, edits, limiterVars>>

ReloadApplies ==
    /\ AdmissionStep
    /\ Up /\ reading # None
    /\ list' = reading /\ reading' = None
    /\ UNCHANGED <<file, edits, limiterVars>>

-----------------------------------------------------------------------------
(* The package and the sources, in the hands of whoever releases them.     *)

IntegrityStep == UNCHANGED <<config, pc, keyVars, listVars, statsVars, limiterVars>>

SourceStep ==
    /\ Has("source") /\ IntegrityStep
    /\ \/ \E p \in SourcePath, c \in Content \cup {Absent} : EditSource(p, c)
       \/ XtaskSourceMerkleTree

ReleaseStep ==
    /\ Has("release") /\ IntegrityStep
    /\ \/ \E c \in Content : Install("bin", c)
       \/ \E c \in Content \cup {Absent} : Install("data", c)
       \/ \E slot \in Slots : RemoveManifest(slot) \/ \E s \in Signer : SignReleaseManifest(s, slot)

\* At the end of the start, or by GET /status, whichever asks first.
HandleStatus == Has("release") /\ Up /\ RuntimeIntegrityInfo /\ IntegrityStep

-----------------------------------------------------------------------------
Next ==
    \/ StartWithKey \/ CreateKey \/ WriteKey \/ Crash \/ Exit
    \/ \E failed \in SUBSET Pending : StatsFlushLoop(failed) \/ ShutdownSignal(failed)
    \/ \E c \in Conn : (\E b \in Blob : OpenGet(c, b)) \/ HandleGetBlob(c) \/ Close(c)
    \/ \E b \in Blob : DeleteUpload(b)
    \/ \E k \in Key : Upload(k)
    \/ Clock
    \/ \E content \in Lists : OperatorEditsFile(content)
    \/ \E by, k \in Key : HandleWhitelistAdd(by, k) \/ HandleWhitelistRemove(by, k)
    \/ ReloadReads \/ ReloadApplies
    \/ SourceStep \/ ReleaseStep \/ HandleStatus

\* Timers fire; clients need not do anything.
Fairness == WF_vars(Exit) /\ WF_vars(ReloadReads) /\ WF_vars(ReloadApplies)

Spec == Init /\ [][Next]_vars /\ Fairness

-----------------------------------------------------------------------------
(* Properties.                                                             *)

TypeOK ==
    /\ config \in Configs /\ LimiterTypeOK /\ IntegrityTypeOK
    /\ pc \in {"down", "creating", "serving", "draining"} /\ starts \in 0..MaxStarts
    /\ keyFile \in -1..MaxStarts /\ node \in 0..MaxStarts
    /\ file \in Lists /\ list \subseteq Key /\ reading \in Lists \cup {None} /\ edits \in 0..MaxEdits
    /\ {stats, db, egress, late} \subseteq [Blob -> 0..MaxEgress]
    /\ conn \in [Conn -> Blob \cup {None, "sending"}]

\* In every stretch of time a key gets at most the burst and the refill of that
\* stretch, and not one whole token more: not by a table that overflows and drops
\* its bucket, not by a clock that is set back, not by leaving and re-joining the
\* whitelist.  (Up to one token more, since a refill counts from the last one.)
RateHeld == \A k \in Key : ideal[k] > -TicksPerToken

\* Every access is in memory or in the database, exactly once, until the
\* database refuses a flush, the blob is deleted or the process dies; a clean
\* exit loses at most the accesses that came after the last flush.
Missing(b) == egress[b] - db[b] - stats[b]

EgressAccounted ==
    [][\A b \in Blob :
          \/ Missing(b)' = Missing(b)
          \/ /\ Missing(b)' > Missing(b)
             /\ \/ \E failed \in SUBSET Pending :
                     b \in failed /\ (StatsFlushLoop(failed) \/ ShutdownSignal(failed))
                \/ DeleteUpload(b)
                \/ Crash
                \/ Exit /\ Missing(b)' - Missing(b) <= late[b]]_vars

\* "same key = same ID across restarts" (docs/iroh-transport.md), whenever the
\* process is killed: two processes that served used the same key.
IdentityStable ==
    [][(node' # 0 => node' = keyFile') /\ (keyFile > 0 => keyFile' = keyFile)]_vars

\* Once operator and administrators leave it alone, the list of a running server
\* is the file's for good: what an administrator adds or removes is undone, and
\* what the operator takes off is off, even if a reload had read the old file.
ListFollowsFile == <>[](Up => list = file)

\* A server told to stop stops, if it speaks TLS, whatever its clients do.
ShutdownEnds == config.tls /\ pc = "draining" ~> pc = "down"

\* "A signer declared only by the manifest proves consistency, not publisher
\* authenticity, and must never produce a runtime verified status": whichever
\* manifest is found, and whatever was installed, signed and re-signed before, a
\* process comes to report verified only over a binary a trusted key released.
VerifiedIsReleased ==
    [][(status # "verified" /\ status' = "verified") => package.bin \in released]_vars

\* verify-source-file accepts exactly the files as they were when the tree was
\* built, for any number of files, and the proof of a file fits no other content.
TreeAttests ==
    tree # NoTree =>
        \A p \in SourcePath :
            LET i == Position(tree, p) IN
            /\ VerifySourceFile(tree, p, sources[p]) <=> (i # 0 /\ tree[i].sha256 = HashFile(sources[p]))
            /\ \A c \in Content :
                 i # 0 => (VerifyMerkleProof(HashFile(c), MerkleProof(Leaves(tree), i - 1),
                                             ComputeMerkleRoot(Leaves(tree)))
                           <=> tree[i].sha256 = HashFile(c))
=============================================================================
