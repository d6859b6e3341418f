------------------------- MODULE ServerRuntimeProofs -------------------------
(***************************************************************************)
(* Proofs about ServerRuntime, for any keys, limits, blobs and releases:   *)
(* the rate is held, accesses are accounted for, the identity is stable, a *)
(* verified binary was released, and the Merkle tree attests its files.    *)
(***************************************************************************)
EXTENDS ServerRuntime, WellFoundedInduction, TLAPS

-----------------------------------------------------------------------------
(* The rate limiter.                                                       *)

Bucket == [tokens : 0..MaxTokens, last : 1..MaxClock]

\* What bucket b would hold, in ticks, if parts of tokens counted.
Level(b) == b.tokens * TicksPerToken + IF clock > b.last THEN clock - b.last ELSE 0

\* A level of key k up to l is backed by the ideal bucket, to less than a token.
Backed(k, l) == ideal[k] >= Full \/ l < ideal[k] + TicksPerToken

\* A key that is not tracked would be given a full bucket.
RateInv ==
    /\ LimiterTypeOK
    /\ \A k \in DOMAIN buckets : Backed(k, Level(buckets[k]))
    /\ \A k \in Key \ DOMAIN buckets : Backed(k, Full)

\* The arithmetic of a refill.
LEMMA Quotient ==
    ASSUME NEW d \in Nat, NEW t \in Nat \ {0}
    PROVE  /\ d \div t \in Nat
           /\ (d \div t) * t <= d
           /\ d < (d \div t) * t + t
OBVIOUS

LEMMA FullIsNat == Full \in Nat /\ IdleLimit >= Full + TicksPerToken - 1
BY LimiterAssumption DEF Full

-----------------------------------------------------------------------------
(* The rest of the inductive invariant.                                    *)

\* After the flush at the signal all that is in memory is late.
StatsInv ==
    /\ stats \in [Blob -> Nat] /\ db \in [Blob -> Nat]
    /\ egress \in [Blob -> Nat] /\ late \in [Blob -> Nat]
    /\ pc = "draining" => stats = late

\* A process has a key once it serves, the one in the file.
KeyInv ==
    /\ node # 0 => node = keyFile
    /\ pc \in {"down", "creating"} => node = 0
    /\ pc = "creating" => keyFile = -1

\* A manifest of a trusted key covers a binary that was released with it.
TrustedManifest(m) ==
    m.kind = "release" /\ m.signer \in Trusted =>
        "bin" \in DOMAIN m.entries /\ m.entries["bin"] \in released

ReleaseInv ==
    /\ Has("release") => package \in [bin : Content, data : Content \cup {Absent}]
    /\ DOMAIN manifests = Slots
    /\ \A s \in Slots : TrustedManifest(manifests[s])

Inv == RateInv /\ StatsInv /\ KeyInv /\ ReleaseInv

-----------------------------------------------------------------------------
(* The rate limiter's steps.                                               *)

\* A refill counts no more than the time that passed, and leaves less than a
\* token to be counted.
LEMMA RefillIsEarned ==
    ASSUME clock \in 1..MaxClock, NEW b \in Bucket
    PROVE  /\ Refill(b) \in Bucket
           /\ Level(Refill(b)) <= Level(b)
           /\ Level(Refill(b)) < Full + TicksPerToken
<1> DEFINE d == IF clock > b.last THEN clock - b.last ELSE 0
           new == IF clock > b.last THEN (clock - b.last) \div TicksPerToken ELSE 0
           sum == IF b.tokens + new < MaxTokens THEN b.tokens + new ELSE MaxTokens
<1>1. TicksPerToken \in Nat \ {0} /\ MaxTokens \in Nat /\ MaxClock \in Nat /\ clock \in Nat
  BY LimiterAssumption
<1>2. b.tokens \in 0..MaxTokens /\ b.last \in 1..MaxClock
  BY DEF Bucket
<1>3. d \in Nat /\ new \in Nat /\ new * TicksPerToken <= d /\ d < new * TicksPerToken + TicksPerToken
  <2>1. CASE clock > b.last
    <3>1. clock - b.last \in Nat
      BY <1>1, <1>2, <2>1
    <3>2. d = clock - b.last /\ new = (clock - b.last) \div TicksPerToken
      BY <2>1
    <3> HIDE DEF d, new
    <3> QED
      BY <1>1, <3>1, <3>2, Quotient
  <2>2. CASE ~ clock > b.last
    BY <1>1, <2>2
  <2> QED
    BY <2>1, <2>2
<1>4. Level(b) = b.tokens * TicksPerToken + d
  BY DEF Level
<1>5. Refill(b) = IF new = 0 THEN b ELSE [tokens |-> sum, last |-> clock]
  BY DEF Refill
<1>6. \A x, y \in Nat : x <= y => x * TicksPerToken <= y * TicksPerToken
  BY <1>1
<1>7. CASE new = 0
  <2>1. b.tokens * TicksPerToken <= Full
    BY <1>1, <1>2, <1>6 DEF Full
  <2>2. d < TicksPerToken
    <3> HIDE DEF d, new
    <3> QED
      BY <1>1, <1>3, <1>7
  <2>3. Full \in Nat /\ b.tokens * TicksPerToken \in Nat
    BY <1>1, <1>2, FullIsNat
  <2> HIDE DEF d, new
  <2> QED
    BY <1>1, <1>3, <1>4, <1>5, <1>7, <2>1, <2>2, <2>3
<1>8. CASE new # 0
  <2>1. sum \in 0..MaxTokens /\ sum <= b.tokens + new
    BY <1>1, <1>2, <1>3
  <2>2. Refill(b) \in Bucket /\ Level(Refill(b)) = sum * TicksPerToken
    BY <1>1, <1>5, <1>8, <2>1 DEF Level, Bucket
  <2>3. /\ sum * TicksPerToken <= Full
        /\ sum * TicksPerToken <= (b.tokens + new) * TicksPerToken
    BY <1>1, <1>2, <1>3, <1>6, <2>1 DEF Full
  <2>4. (b.tokens + new) * TicksPerToken = b.tokens * TicksPerToken + new * TicksPerToken
    BY <1>1, <1>2, <1>3
  <2> DEFINE p == b.tokens * TicksPerToken
             q == new * TicksPerToken
             r == sum * TicksPerToken
  <2>5. p \in Nat /\ q \in Nat /\ r \in Nat /\ Full \in Nat
    BY <1>1, <1>2, <1>3, <2>1, FullIsNat
  <2>6. r <= Full /\ r <= p + q /\ q <= d /\ Level(b) = p + d /\ Level(Refill(b)) = r
    BY <1>3, <1>4, <2>2, <2>3, <2>4
  <2> HIDE DEF d, new, sum, p, q, r
  <2> QED
    BY <1>1, <1>3, <2>2, <2>5, <2>6
<1> QED
  BY <1>7, <1>8

\* What is in a table is backed, and so is a full bucket for what is not.
BackedTable(t) ==
    /\ DOMAIN t \subseteq Key
    /\ \A k \in DOMAIN t : t[k] \in Bucket /\ Backed(k, Level(t[k]))
    /\ \A k \in Key \ DOMAIN t : Backed(k, Full)

\* A bucket is only forgotten once it is due to be full.
LEMMA TableIsBacked ==
    ASSUME RateInv, NEW k \in Key
    PROVE  BackedTable(Table(k))
<1>1. BackedTable(buckets)
  BY DEF RateInv, LimiterTypeOK, BackedTable, Bucket
<1>2. BackedTable(Cleanup(buckets))
  <2> DEFINE keep == {x \in DOMAIN buckets : buckets[x].last > clock - IdleLimit}
  <2>1. DOMAIN Cleanup(buckets) = keep /\ \A x \in keep : Cleanup(buckets)[x] = buckets[x]
    BY DEF Cleanup, Restrict
  <2>2. ASSUME NEW x \in DOMAIN buckets, x \notin keep
        PROVE  Backed(x, Full)
    <3>1. /\ buckets[x].tokens \in 0..MaxTokens /\ buckets[x].last \in 1..MaxClock
          /\ Backed(x, Level(buckets[x])) /\ x \in Key
      BY <1>1 DEF BackedTable, Bucket
    <3>2. clock \in Nat /\ MaxClock \in Nat /\ IdleLimit \in Nat \ {0} /\ TicksPerToken \in Nat \ {0}
          /\ MaxTokens \in Nat /\ ideal[x] \in Int
      BY <3>1, LimiterAssumption DEF RateInv, LimiterTypeOK
    <3>3. clock - buckets[x].last >= IdleLimit
      BY <2>2, <3>1, <3>2
    <3>4. buckets[x].tokens * TicksPerToken \in Nat
      BY <3>1, <3>2
    <3>5. Level(buckets[x]) >= Full
      BY <3>1, <3>2, <3>3, <3>4, FullIsNat DEF Level
    <3>6. Level(buckets[x]) \in Int
      BY <3>1, <3>2, <3>4 DEF Level
    <3> QED
      BY <3>1, <3>2, <3>5, <3>6, FullIsNat DEF Backed
  <2> QED
    BY <1>1, <2>1, <2>2 DEF BackedTable
<1> QED
  BY <1>1, <1>2 DEF Table

\* Whatever bucket a check works with, the ideal one backs it.
LEMMA BucketIsBacked ==
    ASSUME RateInv, NEW k \in Key
    PROVE  BucketOf(k) \in Bucket /\ Level(BucketOf(k)) < ideal[k] + TicksPerToken
<1> DEFINE b == IF k \in DOMAIN Table(k) THEN Table(k)[k] ELSE [tokens |-> MaxTokens, last |-> clock]
<1>1. /\ clock \in 1..MaxClock /\ clock \in Nat /\ ideal[k] \in Int /\ MaxTokens \in Nat
      /\ TicksPerToken \in Nat \ {0} /\ MaxClock \in Nat
  BY LimiterAssumption DEF RateInv, LimiterTypeOK
<1>2. BackedTable(Table(k))
  BY TableIsBacked
<1>3. b \in Bucket /\ Backed(k, Level(b))
  <2>1. CASE k \in DOMAIN Table(k)
    BY <1>2, <2>1 DEF BackedTable
  <2>2. CASE k \notin DOMAIN Table(k)
    <3>1. b = [tokens |-> MaxTokens, last |-> clock]
      BY <2>2
    <3>2. b \in Bucket
      BY <1>1, <3>1 DEF Bucket
    <3>3. Level(b) = Full
      BY <1>1, <3>1, FullIsNat DEF Level, Full
    <3> QED
      BY <1>2, <2>2, <3>2, <3>3 DEF BackedTable
  <2> QED
    BY <2>1, <2>2
<1>4. BucketOf(k) = Refill(b)
  BY DEF BucketOf
<1> HIDE DEF b
<1>5. /\ Refill(b) \in Bucket /\ Level(Refill(b)) <= Level(b)
      /\ Level(Refill(b)) < Full + TicksPerToken
  BY <1>1, <1>3, RefillIsEarned
<1>6. \A c \in Bucket : Level(c) \in Int
  BY <1>1 DEF Bucket, Level
<1> QED
  BY <1>1, <1>3, <1>4, <1>5, <1>6, FullIsNat DEF Backed

\* Storing a backed bucket for k keeps the table backed.
LEMMA StoreKeepsRate ==
    ASSUME RateInv, NEW k \in Key, NEW b \in Bucket, Store(k, b), UNCHANGED clock,
           ideal' \in [Key -> Int], \A x \in Key \ {k} : ideal'[x] = ideal[x],
           Level(b) < ideal'[k] + TicksPerToken
    PROVE  RateInv'
<1>1. BackedTable(Table(k))
  BY TableIsBacked
<1>2. /\ DOMAIN buckets' = DOMAIN Table(k) \cup {k}
      /\ buckets'[k] = b
      /\ \A x \in DOMAIN Table(k) \ {k} : buckets'[x] = Table(k)[x]
  BY DEF Store
<1>3. LimiterTypeOK'
  BY <1>1, <1>2 DEF RateInv, LimiterTypeOK, BackedTable, Bucket
<1>4. ASSUME NEW x \in DOMAIN buckets' PROVE Backed(x, Level(buckets[x]))'
  <2>1. Level(buckets[x])' = Level(buckets'[x])
    BY DEF Level
  <2>2. CASE x = k
    BY <1>2, <2>1, <2>2 DEF Backed
  <2>3. CASE x # k
    BY <1>1, <1>2, <2>1, <2>3 DEF Backed, BackedTable, Full
  <2> QED
    BY <2>2, <2>3
<1>5. ASSUME NEW x \in Key \ DOMAIN buckets' PROVE Backed(x, Full)'
  BY <1>1, <1>2 DEF Backed, BackedTable, Full
<1> QED
  BY <1>3, <1>4, <1>5 DEF RateInv

\* A check grants or refuses; a process is replaced; the clock moves.
LEMMA GrantsKeepRate ==
    ASSUME RateInv, NEW k \in Key, CheckGrants(k)
    PROVE  RateInv'
<1> DEFINE b == BucketOf(k)
           c == [b EXCEPT !.tokens = @ - 1]
<1>1. b \in Bucket /\ Level(b) < ideal[k] + TicksPerToken
  BY BucketIsBacked
<1>2. b.tokens > 0 /\ Store(k, c) /\ ideal' = [ideal EXCEPT ![k] = @ - TicksPerToken] /\ UNCHANGED clock
  BY DEF CheckGrants
<1>3. /\ clock \in Nat /\ ideal \in [Key -> Int] /\ TicksPerToken \in Nat \ {0} /\ MaxTokens \in Nat
  BY LimiterAssumption DEF RateInv, LimiterTypeOK
<1> HIDE DEF b
<1>4. c \in Bucket
  BY <1>1, <1>2, <1>3 DEF Bucket
<1>5. Level(c) = Level(b) - TicksPerToken
  <2>1. b.tokens \in Nat /\ b.last \in Int /\ c.tokens = b.tokens - 1 /\ c.last = b.last
    BY <1>1, <1>3, LimiterAssumption DEF Bucket
  <2>2. c.tokens * TicksPerToken = b.tokens * TicksPerToken - TicksPerToken
    BY <1>3, <2>1
  <2> HIDE DEF c
  <2> QED
    BY <1>3, <2>1, <2>2 DEF Level
<1>6. Level(b) \in Int
  BY <1>1, <1>3, LimiterAssumption DEF Level, Bucket
<1>7. ideal' \in [Key -> Int] /\ ideal'[k] = ideal[k] - TicksPerToken /\ \A x \in Key \ {k} : ideal'[x] = ideal[x]
  BY <1>2, <1>3
<1> HIDE DEF c
<1>8. Level(c) < ideal'[k] + TicksPerToken
  BY <1>1, <1>3, <1>5, <1>6, <1>7
<1> QED
  BY <1>2, <1>4, <1>7, <1>8, StoreKeepsRate

LEMMA RefusalsKeepRate ==
    ASSUME RateInv, NEW k \in Key, CheckRefuses(k)
    PROVE  RateInv'
<1>1. BucketOf(k) \in Bucket /\ Level(BucketOf(k)) < ideal[k] + TicksPerToken
  BY BucketIsBacked
<1>2. UNCHANGED <<clock, ideal>> /\ ideal \in [Key -> Int]
  BY DEF CheckRefuses, RateInv, LimiterTypeOK
<1>3. CASE Store(k, BucketOf(k))
  <2>1. ideal' \in [Key -> Int] /\ \A x \in Key \ {k} : ideal'[x] = ideal[x]
    BY <1>2
  <2>2. Level(BucketOf(k)) < ideal'[k] + TicksPerToken
    BY <1>1, <1>2
  <2> QED
    BY <1>1, <1>2, <1>3, <2>1, <2>2, StoreKeepsRate
<1>4. CASE buckets' = Table(k)
  <2>1. BackedTable(buckets')
    BY <1>4, TableIsBacked
  <2> QED
    BY <1>2, <2>1 DEF RateInv, LimiterTypeOK, BackedTable, Bucket, Backed, Full, Level
<1> QED
  BY <1>3, <1>4 DEF CheckRefuses

LEMMA ClockKeepsRate ==
    ASSUME RateInv, TimePasses \/ ClockSetBack \/ LimiterRestart
    PROVE  RateInv'
<1>1. /\ clock \in 1..MaxClock /\ ideal \in [Key -> Int] /\ TicksPerToken \in Nat \ {0}
      /\ MaxClock \in Nat /\ MaxTokens \in Nat /\ IdleLimit \in Nat \ {0}
  BY LimiterAssumption DEF RateInv, LimiterTypeOK
<1>2. ASSUME NEW x \in DOMAIN buckets
      PROVE  /\ x \in Key /\ ideal[x] \in Int
             /\ buckets[x].tokens * TicksPerToken \in Nat /\ buckets[x].last \in 1..MaxClock
             /\ Backed(x, Level(buckets[x]))
  BY <1>1 DEF RateInv, LimiterTypeOK
<1>3. CASE LimiterRestart
  BY <1>1, <1>3, FullIsNat DEF LimiterRestart, RateInv, LimiterTypeOK, Backed, Full
<1>4. CASE TimePasses
  <2>1. \A x \in Key : ideal'[x] \in Int /\ ideal'[x] = IF ideal[x] < Full THEN ideal[x] + 1 ELSE Full
    BY <1>1, <1>4, FullIsNat DEF TimePasses
  <2>2. LimiterTypeOK'
    BY <1>1, <1>4, <2>1, FullIsNat DEF TimePasses, RateInv, LimiterTypeOK
  <2>3. ASSUME NEW x \in DOMAIN buckets PROVE Backed(x, Level(buckets[x]))'
    BY <1>1, <1>2, <1>4, <2>1, FullIsNat DEF TimePasses, Backed, Level, Full
  <2>4. ASSUME NEW x \in Key \ DOMAIN buckets PROVE Backed(x, Full)'
    BY <1>1, <1>4, <2>1, FullIsNat DEF TimePasses, Backed, RateInv, Full
  <2> QED
    BY <1>4, <2>2, <2>3, <2>4 DEF TimePasses, RateInv
<1>5. CASE ClockSetBack
  <2>1. LimiterTypeOK'
    BY <1>1, <1>5 DEF ClockSetBack, RateInv, LimiterTypeOK
  <2>2. ASSUME NEW x \in DOMAIN buckets PROVE Backed(x, Level(buckets[x]))'
    BY <1>1, <1>2, <1>5, FullIsNat DEF ClockSetBack, Backed, Level, Full
  <2> QED
    BY <1>5, <2>1, <2>2 DEF ClockSetBack, RateInv, Backed, Full
<1> QED
  BY <1>3, <1>4, <1>5

LEMMA LimiterUnchanged ==
    ASSUME RateInv, UNCHANGED limiterVars
    PROVE  RateInv'
BY DEF RateInv, limiterVars, LimiterTypeOK, Backed, Full, Level

-----------------------------------------------------------------------------
(* The invariant is inductive: one lemma per part of it, each with the     *)
(* steps that can disturb that part.                                       *)

LEMMA InvInit ==
    ASSUME Init
    PROVE  Inv
<1>1. RateInv
  BY LimiterAssumption, FullIsNat DEF Init, LimiterInit, RateInv, LimiterTypeOK, Backed, Full
<1>2. StatsInv /\ KeyInv
  BY DEF Init, Zero, StatsInv, KeyInv
<1>3. ReleaseInv
  BY DEF Init, IntegrityInit, ReleaseInv, TrustedManifest, NoManifest, Has
<1> QED
  BY <1>1, <1>2, <1>3 DEF Inv

LEMMA RateStep ==
    ASSUME RateInv, [Next]_vars
    PROVE  RateInv'
<1>1. CASE StartWithKey \/ CreateKey
  BY <1>1, ClockKeepsRate DEF StartWithKey, CreateKey, NewProcess
<1>2. ASSUME NEW k \in Key, Upload(k) PROVE RateInv'
  BY <1>2, GrantsKeepRate, RefusalsKeepRate DEF Upload
<1>3. CASE Clock
  BY <1>3, ClockKeepsRate DEF Clock
<1>4. CASE UNCHANGED limiterVars
  BY <1>4, LimiterUnchanged
<1> QED
  BY <1>1, <1>2, <1>3, <1>4
     DEF Next, vars, WriteKey, Crash, Exit, ProcessEnds, StatsFlushLoop, ShutdownSignal, OpenGet,
         HandleGetBlob, Close, DeleteUpload, OperatorEditsFile, HandleWhitelistAdd,
         HandleWhitelistRemove, ReloadReads, ReloadApplies, SourceStep, ReleaseStep, HandleStatus,
         IntegrityStep

LEMMA StatsStep ==
    ASSUME StatsInv, [Next]_vars
    PROVE  StatsInv'
<1>1. CASE Crash \/ Exit
  BY <1>1 DEF Crash, Exit, ProcessEnds, Zero, StatsInv
<1>2. ASSUME NEW failed \in SUBSET Pending, StatsFlushLoop(failed) \/ ShutdownSignal(failed)
      PROVE  StatsInv'
  BY <1>2 DEF StatsFlushLoop, ShutdownSignal, Flush, Zero, StatsInv
<1>3. ASSUME NEW c \in Conn, HandleGetBlob(c) PROVE StatsInv'
  <2>1. /\ conn[c] \in Blob /\ pc' = pc /\ db' = db
        /\ stats' = [stats EXCEPT ![conn[c]] = @ + 1]
        /\ egress' = [egress EXCEPT ![conn[c]] = @ + 1]
    BY <1>3 DEF HandleGetBlob
  <2>2. stats' \in [Blob -> Nat] /\ egress' \in [Blob -> Nat]
    BY <2>1 DEF StatsInv
  <2>3. CASE pc = "draining"
    <3>1. late' = [late EXCEPT ![conn[c]] = @ + 1]
      BY <1>3, <2>3 DEF HandleGetBlob
    <3>2. late' = stats'
      BY <2>1, <2>3, <3>1 DEF StatsInv
    <3> QED
      BY <2>1, <2>2, <3>2 DEF StatsInv
  <2>4. CASE pc # "draining"
    BY <1>3, <2>1, <2>2, <2>4 DEF HandleGetBlob, StatsInv
  <2> QED
    BY <2>3, <2>4
<1>4. ASSUME NEW b \in Blob, DeleteUpload(b) PROVE StatsInv'
  BY <1>4 DEF DeleteUpload, StatsInv
<1>5. CASE StartWithKey \/ CreateKey \/ WriteKey
  BY <1>5 DEF StartWithKey, CreateKey, WriteKey, NewProcess, statsVars, StatsInv
<1>6. CASE UNCHANGED <<pc, stats, db, egress, late>>
  BY <1>6 DEF StatsInv
<1> QED
  BY <1>1, <1>2, <1>3, <1>4, <1>5, <1>6
     DEF Next, vars, statsVars, OpenGet, Close, Upload, Clock, AdmissionStep, OperatorEditsFile,
         HandleWhitelistAdd, HandleWhitelistRemove, ReloadReads, ReloadApplies, SourceStep,
         ReleaseStep, HandleStatus, IntegrityStep

LEMMA KeyStep ==
    ASSUME KeyInv, [Next]_vars
    PROVE  KeyInv'
<1>1. CASE StartWithKey \/ CreateKey \/ WriteKey
  BY <1>1 DEF StartWithKey, CreateKey, WriteKey, NewProcess, KeyInv
<1>2. CASE Crash \/ Exit
  BY <1>2 DEF Crash, Exit, ProcessEnds, KeyInv
<1>3. ASSUME NEW failed \in SUBSET Pending, StatsFlushLoop(failed) \/ ShutdownSignal(failed)
      PROVE  KeyInv'
  BY <1>3 DEF StatsFlushLoop, ShutdownSignal, keyVars, KeyInv
<1>4. CASE UNCHANGED <<pc, keyVars>>
  BY <1>4 DEF keyVars, KeyInv
<1> QED
  BY <1>1, <1>2, <1>3, <1>4
     DEF Next, vars, OpenGet, HandleGetBlob, Close, DeleteUpload, Upload, Clock, AdmissionStep,
         OperatorEditsFile, HandleWhitelistAdd, HandleWhitelistRemove, ReloadReads, ReloadApplies,
         SourceStep, ReleaseStep, HandleStatus, IntegrityStep

\* A manifest is generated over the binary, whatever else is in the package.
LEMMA SignedIsReleased ==
    ASSUME ReleaseInv, Has("release"), NEW signer \in Signer, NEW slot \in Slots,
           SignReleaseManifest(signer, slot), UNCHANGED config
    PROVE  ReleaseInv'
<1> DEFINE paths == IF slot = "named" THEN {"bin"} ELSE Present(package)
           m == IF slot = "named" THEN GenerateReleaseManifest(signer, {"bin"}, FALSE)
                ELSE GenerateReleaseManifest(signer, Present(package), manifests.named # NoManifest)
<1>1. /\ DOMAIN manifests = Slots /\ UNCHANGED package /\ released \subseteq released'
      /\ \/ /\ manifests' = [manifests EXCEPT ![slot] = m]
            /\ signer \in Trusted => package.bin \in released'
         \/ manifests' = [manifests EXCEPT ![slot] = Torn]
  BY DEF SignReleaseManifest, ReleaseInv
<1>2. "bin" \in DOMAIN package /\ package["bin"] \in Content
  BY DEF ReleaseInv
<1>3. "bin" \in paths
  BY <1>2, IntegrityAssumption DEF Present
<1>4. m.kind = "release" /\ m.signer = signer /\ m.entries = [p \in paths |-> package[p]]
  BY DEF GenerateReleaseManifest
<1> HIDE DEF m, paths
<1>5. ASSUME NEW s \in Slots PROVE TrustedManifest(manifests[s])'
  <2>1. CASE manifests'[s] = manifests[s]
    BY <1>1, <2>1 DEF ReleaseInv, TrustedManifest
  <2>2. CASE manifests'[s] = Torn
    BY <2>2 DEF Torn, TrustedManifest
  <2>3. CASE manifests'[s] = m /\ (signer \in Trusted => package.bin \in released')
    BY <1>2, <1>3, <1>4, <2>3 DEF TrustedManifest
  <2> QED
    BY <1>1, <2>1, <2>2, <2>3
<1>6. DOMAIN manifests' = Slots
  BY <1>1
<1> QED
  BY <1>1, <1>5, <1>6 DEF ReleaseInv, Has

LEMMA ReleaseInvStep ==
    ASSUME ReleaseInv, [Next]_vars
    PROVE  ReleaseInv'
<1>1. ASSUME NEW p \in {"bin", "data"}, NEW c \in Content \cup {Absent}, p = "bin" => c \in Content,
             Install(p, c), UNCHANGED config
      PROVE  ReleaseInv'
  BY <1>1 DEF Install, ReleaseInv, TrustedManifest, Has
<1>2. ASSUME NEW slot \in Slots, RemoveManifest(slot), UNCHANGED config PROVE ReleaseInv'
  BY <1>2 DEF RemoveManifest, ReleaseInv, TrustedManifest, NoManifest, Has
<1>3. CASE ReleaseStep
  BY <1>1, <1>2, <1>3, SignedIsReleased DEF ReleaseStep, IntegrityStep
<1>4. CASE UNCHANGED <<config, releaseVars>>
  BY <1>4 DEF releaseVars, ReleaseInv, TrustedManifest, Has
<1> QED
  BY <1>3, <1>4
     DEF Next, vars, integrityVars, StartWithKey, CreateKey, NewProcess, IntegrityRestart, WriteKey,
         Crash, Exit, ProcessEnds, StatsFlushLoop, ShutdownSignal, OpenGet, HandleGetBlob, Close,
         DeleteUpload, Upload, Clock, AdmissionStep, OperatorEditsFile, HandleWhitelistAdd,
         HandleWhitelistRemove, ReloadReads, ReloadApplies, SourceStep, EditSource,
         XtaskSourceMerkleTree, HandleStatus, RuntimeIntegrityInfo, IntegrityStep

\* The invariant holds in every state of the server.
THEOREM Invariance == Spec => []Inv
<1>1. Inv /\ [Next]_vars => Inv'
  BY RateStep, StatsStep, KeyStep, ReleaseInvStep DEF Inv
<1> QED
  BY <1>1, InvInit, PTL DEF Spec

-----------------------------------------------------------------------------
(* Recursive functions.                                                    *)

\* A set of naturals with a member has a least one: proofs by induction look at the
\* least counterexample.
LEMMA LeastNatural ==
    ASSUME NEW S, S \subseteq Nat, S # {}
    PROVE  \E m \in S : \A k \in S : m <= k
<1>1. PICK m \in S : \A k \in S : ~(<<k, m>> \in OpToRel(<, Nat))
  BY NatLessThanWellFounded, WFMin
<1>2. \A k \in S : ~(k < m)
  BY <1>1 DEF OpToRel
<1> QED BY <1>2

\* A recursive function over 0..N exists when its step maps S into S.
Iterates(f, S, N, first, step) ==
    f \in [0..N -> S] /\ f[0] = first /\ \A n \in 1..N : f[n] = step[n][f[n-1]]

LEMMA IterationExists ==
    ASSUME NEW S, NEW N \in Nat, NEW first \in S, NEW step \in [1..N -> [S -> S]]
    PROVE  \E f : Iterates(f, S, N, first, step)
<1> DEFINE Good(n) == {f \in [0..n -> S] : f[0] = first /\ \A k \in 1..n : f[k] = step[k][f[k-1]]}
           Bad == {n \in 0..N : Good(n) = {}}
<1>1. SUFFICES ASSUME Bad # {} PROVE FALSE
  <2>1. ASSUME Bad = {} PROVE \E f : Iterates(f, S, N, first, step)
    <3>1. N \in 0..N /\ N \notin Bad
      <4> HIDE DEF Bad
      <4> QED BY <2>1
    <3>2. Good(N) # {}
      BY <3>1
    <3> QED BY <3>2 DEF Iterates
  <2> HIDE DEF Bad
  <2> QED BY <2>1
<1>2. PICK m \in Bad : \A k \in Bad : m <= k
  <2>1. Bad \subseteq Nat
    OBVIOUS
  <2> HIDE DEF Bad
  <2> QED BY <1>1, <2>1, LeastNatural
<1>3. m \in 0..N /\ Good(m) = {}
  OBVIOUS
<1>4. m # 0
  <2>1. [k \in 0..0 |-> first] \in Good(0)
    OBVIOUS
  <2> QED BY <1>3, <2>1
<1>5. m - 1 \in 0..N /\ m \in 1..N /\ m - 1 \notin Bad
  <2>1. m \in 0..N
    BY <1>3
  <2> HIDE DEF Bad
  <2> QED BY <1>2, <1>4, <2>1
<1>6. PICK g \in [0..(m-1) -> S] : g[0] = first /\ \A k \in 1..(m-1) : g[k] = step[k][g[k-1]]
  BY <1>5
<1> DEFINE f == [k \in 0..m |-> IF k = m THEN step[m][g[m-1]] ELSE g[k]]
<1>7. step[m][g[m-1]] \in S
  BY <1>5, <1>6
<1>8. f \in [0..m -> S] /\ f[0] = first
  BY <1>5, <1>6, <1>7
<1>9. ASSUME NEW k \in 1..m PROVE f[k] = step[k][f[k-1]]
  <2>1. CASE k = m
    BY <1>5, <2>1
  <2>2. CASE k # m
    BY <1>5, <1>6, <2>2
  <2> QED BY <2>1, <2>2
<1>10. f \in Good(m)
  BY <1>8, <1>9
<1> QED BY <1>3, <1>10

\* What follows such a recursion is one.
LEMMA FollowsIterates ==
    ASSUME NEW S, NEW N \in Nat, NEW first \in S, NEW step \in [1..N -> [S -> S]],
           NEW g, g = [n \in 0..N |-> g[n]], g[0] = first,
           \A n \in 1..N : g[n-1] \in S => g[n] = step[n][g[n-1]]
    PROVE  Iterates(g, S, N, first, step)
<1> DEFINE B == {n \in 0..N : g[n] \notin S}
<1>1. ASSUME B # {} PROVE FALSE
  <2>1. PICK m \in B : \A k \in B : m <= k
    <3>1. B \subseteq Nat
      OBVIOUS
    <3> HIDE DEF B
    <3> QED BY <1>1, <3>1, LeastNatural
  <2>2. m \in 0..N /\ g[m] \notin S /\ m # 0
    OBVIOUS
  <2>3. m - 1 \in 0..N /\ m \in 1..N /\ m - 1 \notin B
    <3> HIDE DEF B
    <3> QED BY <2>1, <2>2
  <2>4. g[m-1] \in S
    BY <2>3
  <2>5. g[m] = step[m][g[m-1]] /\ step[m] \in [S -> S]
    BY <2>3, <2>4
  <2> HIDE DEF B
  <2> QED BY <2>2, <2>4, <2>5
<1>2. \A n \in 0..N : g[n] \in S
  BY <1>1
<1>3. \A n \in 1..N : n - 1 \in 0..N
  OBVIOUS
<1> HIDE DEF B
<1>4. g \in [0..N -> S]
  BY <1>2
<1>5. \A n \in 1..N : g[n] = step[n][g[n-1]]
  BY <1>2, <1>3
<1> QED BY <1>4, <1>5 DEF Iterates

-----------------------------------------------------------------------------
(* Hashes and levels of the Merkle tree.                                   *)

Hashes == Seq(Content \cup {Absent, "pair", "zero"})

\* j is s followed by r.
Joins(j, s, r, X) ==
    /\ j \in Seq(X) /\ Len(j) = Len(s) + Len(r)
    /\ \A i \in 1..Len(s) : j[i] = s[i]
    /\ \A i \in 1..Len(r) : j[Len(s) + i] = r[i]

LEMMA Concatenated ==
    ASSUME NEW X, NEW s \in Seq(X), NEW r \in Seq(X)
    PROVE  Joins(s \o r, s, r, X)
<1>1. s \o r \in Seq(X)
  OBVIOUS
<1>2. Len(s \o r) = Len(s) + Len(r)
  OBVIOUS
<1>3. ASSUME NEW i \in 1..Len(s) PROVE (s \o r)[i] = s[i]
  OBVIOUS
<1>4. ASSUME NEW i \in 1..Len(r) PROVE (s \o r)[Len(s) + i] = r[i]
  OBVIOUS
<1> QED BY <1>1, <1>2, <1>3, <1>4 DEF Joins

\* h holds a and b.
Holds(h, a, b) ==
    /\ h \in Hashes /\ Len(h) = 1 + Len(a) + Len(b)
    /\ \A i \in 1..Len(a) : h[1 + i] = a[i]
    /\ \A i \in 1..Len(b) : h[1 + Len(a) + i] = b[i]

LEMMA PairHolds ==
    ASSUME NEW a \in Hashes, NEW b \in Hashes
    PROVE  HashPair(a, b) \in Hashes /\ Holds(HashPair(a, b), a, b)
<1> DEFINE X == Content \cup {Absent, "pair", "zero"}
           P == <<"pair">>
           Q == P \o a
           R == Q \o b
<1>1. P \in Seq(X) /\ Len(P) = 1
  OBVIOUS
<1>2. a \in Seq(X) /\ b \in Seq(X) /\ Len(a) \in Nat /\ Len(b) \in Nat
  BY DEF Hashes
<1>3. HashPair(a, b) = R /\ Hashes = Seq(X)
  BY DEF HashPair, Hashes
<1> HIDE DEF X, P
<1>4. Joins(Q, P, a, X)
  BY <1>1, <1>2, Concatenated
<1> HIDE DEF Q
<1>5. Q \in Seq(X) /\ Len(Q) = 1 + Len(a) /\ \A i \in 1..Len(a) : Q[1 + i] = a[i]
  BY <1>1, <1>4 DEF Joins
<1>6. Joins(R, Q, b, X)
  BY <1>2, <1>5, Concatenated
<1> HIDE DEF R
<1>7. \A i \in 1..Len(a) : 1 + i \in 1..Len(Q)
  BY <1>2, <1>5
<1>8. \A i \in 1..Len(a) : R[1 + i] = a[i]
  BY <1>5, <1>6, <1>7 DEF Joins
<1>9. R \in Seq(X) /\ Len(R) = 1 + Len(a) + Len(b) /\ \A i \in 1..Len(b) : R[1 + Len(a) + i] = b[i]
  BY <1>2, <1>5, <1>6 DEF Joins
<1> QED BY <1>3, <1>8, <1>9 DEF Holds

\* A pair tells its halves, given one of them.
LEMMA PairTells ==
    ASSUME NEW a \in Hashes, NEW b \in Hashes, NEW c \in Hashes
    PROVE  /\ HashPair(a, c) = HashPair(b, c) => a = b
           /\ HashPair(c, a) = HashPair(c, b) => a = b
<1>1. ASSUME Len(a) = Len(b), \A i \in 1..Len(a) : a[i] = b[i] PROVE a = b
  <2>1. a = [i \in 1..Len(a) |-> a[i]] /\ b = [i \in 1..Len(b) |-> b[i]]
    BY DEF Hashes
  <2> QED BY <1>1, <2>1
<1>2. Len(a) \in Nat /\ Len(b) \in Nat /\ Len(c) \in Nat
  BY DEF Hashes
<1>3. ASSUME HashPair(a, c) = HashPair(b, c) PROVE a = b
  <2>1. PICK h : Holds(h, a, c) /\ Holds(h, b, c)
    BY <1>3, PairHolds
  <2>2. Len(a) = Len(b)
    BY <1>2, <2>1 DEF Holds
  <2>3. \A i \in 1..Len(a) : a[i] = b[i]
    BY <2>1, <2>2 DEF Holds
  <2> QED BY <1>1, <2>2, <2>3
<1>4. ASSUME HashPair(c, a) = HashPair(c, b) PROVE a = b
  <2>1. PICK h : Holds(h, c, a) /\ Holds(h, c, b)
    BY <1>4, PairHolds
  <2>2. Len(a) = Len(b)
    BY <1>2, <2>1 DEF Holds
  <2>3. \A i \in 1..Len(a) : a[i] = b[i]
    BY <2>1, <2>2 DEF Holds
  <2> QED BY <1>1, <2>2, <2>3
<1> QED BY <1>3, <1>4

LEMMA UpOfHashes ==
    ASSUME NEW hs \in Seq(Hashes)
    PROVE  /\ LevelUp(hs) \in Seq(Hashes) /\ Len(LevelUp(hs)) = (Len(hs) + 1) \div 2
           /\ \A i \in 1..((Len(hs) + 1) \div 2) :
                LevelUp(hs)[i] = HashPair(hs[2*i - 1], hs[IF 2*i <= Len(hs) THEN 2*i ELSE 2*i - 1])
<1> DEFINE M == (Len(hs) + 1) \div 2
           E(i) == HashPair(hs[2*i - 1], hs[IF 2*i <= Len(hs) THEN 2*i ELSE 2*i - 1])
<1>1. Len(hs) \in Nat /\ M \in Nat
  OBVIOUS
<1>2. ASSUME NEW i \in 1..M PROVE E(i) \in Hashes
  <2>1. 2*i - 1 \in 1..Len(hs) /\ (IF 2*i <= Len(hs) THEN 2*i ELSE 2*i - 1) \in 1..Len(hs)
    BY <1>1
  <2>2. hs[2*i - 1] \in Hashes /\ hs[IF 2*i <= Len(hs) THEN 2*i ELSE 2*i - 1] \in Hashes
    BY <2>1
  <2> QED BY <2>2, PairHolds
<1>3. LevelUp(hs) = [i \in 1..M |-> E(i)]
  BY DEF LevelUp
<1> HIDE DEF M, E
<1>4. [i \in 1..M |-> E(i)] \in Seq(Hashes) /\ Len([i \in 1..M |-> E(i)]) = M
  BY <1>1, <1>2
<1> QED BY <1>3, <1>4 DEF M, E

\* level is the recursion that Levels defines.
Follows(level, leaves) ==
    /\ level \in [0..Len(leaves) -> Seq(Hashes)] /\ level[0] = leaves
    /\ \A n \in 1..Len(leaves) :
         level[n] = IF Len(level[n - 1]) <= 1 THEN level[n - 1] ELSE LevelUp(level[n - 1])

LEMMA LevelsFollow ==
    ASSUME NEW leaves \in Seq(Hashes)
    PROVE  Follows(Levels(leaves), leaves)
<1> DEFINE N == Len(leaves)
           S == Seq(Hashes)
           Above(s) == IF Len(s) <= 1 THEN s ELSE LevelUp(s)
           Is(f) == f = [n \in 0..N |-> IF n = 0 THEN leaves ELSE Above(f[n-1])]
           step == [n \in 1..N |-> [s \in S |-> Above(s)]]
           level == CHOOSE f : Is(f)
<1>1. N \in Nat /\ leaves \in S
  OBVIOUS
<1>2. \A s \in S : Above(s) \in S
  BY UpOfHashes
<1>3. Levels(leaves) = level
  BY DEF Levels
<1> HIDE DEF N, S, Above
<1>4. step \in [1..N -> [S -> S]]
  BY <1>2
<1>5. PICK f \in [0..N -> S] : f[0] = leaves /\ \A n \in 1..N : f[n] = step[n][f[n-1]]
  <2> HIDE DEF step
  <2>1. \E f : Iterates(f, S, N, leaves, step)
    BY <1>1, <1>4, IterationExists
  <2> QED BY <2>1 DEF Iterates
<1>6. Is(f)
  <2>1. ASSUME NEW n \in 0..N PROVE f[n] = IF n = 0 THEN leaves ELSE Above(f[n-1])
    <3>1. CASE n = 0
      BY <1>5, <3>1
    <3>2. CASE n # 0
      <4>1. n \in 1..N /\ n - 1 \in 0..N
        BY <1>1, <3>2
      <4>2. f[n-1] \in S
        BY <1>5, <4>1
      <4>3. f[n] = step[n][f[n-1]]
        BY <1>5, <4>1
      <4> QED BY <3>2, <4>1, <4>2, <4>3
    <3> QED BY <3>1, <3>2
  <2> HIDE DEF step
  <2> QED BY <1>5, <2>1
<1>7. Is(level)
  BY <1>6, Zenon
<1> HIDE DEF level, step
<1>8. \A n \in 0..N : level[n] = IF n = 0 THEN leaves ELSE Above(level[n-1])
  BY <1>7
<1>9. /\ level = [n \in 0..N |-> level[n]] /\ level[0] = leaves
      /\ \A n \in 1..N : level[n] = Above(level[n-1])
  <2>1. 0 \in 0..N /\ \A n \in 1..N : n # 0 /\ n \in 0..N
    BY <1>1
  <2> QED BY <1>7, <1>8, <2>1
<1>10. Iterates(level, S, N, leaves, step)
  <2>1. \A n \in 1..N : level[n-1] \in S => level[n] = step[n][level[n-1]]
    BY <1>9 DEF step
  <2> QED BY <1>1, <1>4, <1>9, <2>1, FollowsIterates
<1> QED BY <1>3, <1>9, <1>10 DEF Iterates, N, S, Above, Follows

\* Every level has nodes, and fewer than the one below it while there are two.
Shrinks(level, N) ==
    \A n \in 0..N : Len(level[n]) >= 1 /\ (Len(level[n]) = 1 \/ Len(level[n]) <= N - n)

LEMMA LevelsShrink ==
    ASSUME NEW leaves \in Seq(Hashes), leaves # <<>>, NEW level, Follows(level, leaves)
    PROVE  Shrinks(level, Len(leaves))
<1> DEFINE N == Len(leaves)
           Good(n) == Len(level[n]) >= 1 /\ (Len(level[n]) = 1 \/ Len(level[n]) <= N - n)
           B == {n \in 0..N : ~Good(n)}
<1>1. N \in Nat /\ N >= 1
  OBVIOUS
<1>2. ASSUME B # {} PROVE FALSE
  <2>1. PICK m \in B : \A k \in B : m <= k
    <3>1. B \subseteq Nat
      OBVIOUS
    <3> HIDE DEF B
    <3> QED BY <1>2, <3>1, LeastNatural
  <2>2. m \in 0..N /\ ~Good(m)
    OBVIOUS
  <2>3. m # 0
    <3>1. level[0] = leaves
      BY DEF Follows
    <3> QED BY <1>1, <2>2, <3>1
  <2>4. m - 1 \in 0..N /\ m \in 1..N /\ m - 1 \notin B
    <3> HIDE DEF B, Good
    <3> QED BY <1>1, <2>1, <2>2, <2>3
  <2>5. Good(m - 1)
    BY <2>4
  <2>6. level[m - 1] \in Seq(Hashes)
    <3>1. level \in [0..N -> Seq(Hashes)]
      BY DEF Follows
    <3> QED BY <2>4, <3>1
  <2>7. level[m] = IF Len(level[m - 1]) <= 1 THEN level[m - 1] ELSE LevelUp(level[m - 1])
    BY <2>4 DEF Follows
  <2>8. Len(level[m]) = IF Len(level[m - 1]) <= 1 THEN Len(level[m - 1])
                                                  ELSE (Len(level[m - 1]) + 1) \div 2
    BY <2>6, <2>7, UpOfHashes
  <2>9. Len(level[m - 1]) \in Nat
    BY <2>6
  <2> DEFINE a == Len(level[m - 1])
             b == Len(level[m])
  <2>10. a \in Nat /\ a >= 1 /\ (a = 1 \/ a <= N - (m - 1)) /\ b = IF a <= 1 THEN a ELSE (a + 1) \div 2
    BY <2>5, <2>8, <2>9
  <2>11. ~(b >= 1 /\ (b = 1 \/ b <= N - m))
    BY <2>2
  <2> HIDE DEF B, N, a, b
  <2> QED BY <1>1, <2>4, <2>10, <2>11
<1> QED BY <1>2 DEF Shrinks

\* The root is reached at height h, and the levels above h repeat it.
Tops(h, level, N) ==
    /\ h \in 0..N /\ Len(level[h]) = 1 /\ level[N] = level[h]
    /\ \A n \in 0..(h - 1) : Len(level[n]) > 1

LEMMA HeightTops ==
    ASSUME NEW leaves \in Seq(Hashes), leaves # <<>>, NEW level, Follows(level, leaves)
    PROVE  Tops(Height(level), level, Len(leaves))
<1> DEFINE N == Len(leaves)
           S == {n \in DOMAIN level : Len(level[n]) <= 1}
           h == Height(level)
<1>1. N \in Nat /\ N >= 1 /\ N \in 0..N /\ DOMAIN level = 0..N
  BY DEF Follows
<1>2. Shrinks(level, N)
  BY LevelsShrink
<1>3. \A n \in 0..N : Len(level[n]) \in Nat
  BY DEF Follows
<1>4. N \in S
  <2> DEFINE l == Len(level[N])
  <2>1. l \in Nat /\ (l = 1 \/ l <= N - N)
    BY <1>1, <1>2, <1>3 DEF Shrinks
  <2> HIDE DEF l
  <2>2. l <= 1
    BY <1>1, <2>1
  <2> QED BY <1>1, <2>2 DEF l
<1>5. h \in S /\ \A n \in S : h <= n
  <2>1. S \subseteq Nat
    BY <1>1
  <2>2. h = CHOOSE x \in S : \A y \in S : x <= y
    BY DEF Height, Min
  <2> HIDE DEF S, h
  <2>3. \E x \in S : \A y \in S : x <= y
    BY <1>4, <2>1, LeastNatural
  <2> QED BY <2>2, <2>3
<1>6. h \in 0..N /\ Len(level[h]) <= 1
  BY <1>1, <1>5
<1>7. \A n \in 0..(h - 1) : n \in 0..N /\ n \notin S
  <2> HIDE DEF S, h
  <2> QED BY <1>1, <1>5, <1>6
<1>8. \A n \in 0..(h - 1) : Len(level[n]) > 1
  <2>1. \A n \in 0..(h - 1) : ~(Len(level[n]) <= 1)
    BY <1>1, <1>7
  <2> HIDE DEF S, h
  <2> QED BY <1>3, <1>7, <2>1
<1>9. Len(level[h]) = 1
  <2> HIDE DEF S, h
  <2> DEFINE l == Len(level[h])
  <2>1. l >= 1 /\ l \in Nat /\ l <= 1
    BY <1>2, <1>3, <1>6 DEF Shrinks
  <2> HIDE DEF l
  <2>2. l = 1
    BY <2>1
  <2> QED BY <2>2 DEF l
<1> HIDE DEF S, h
<1> DEFINE B == {n \in h..N : level[n] # level[h]}
<1>10. ASSUME B # {} PROVE FALSE
  <2>1. PICK m \in B : \A k \in B : m <= k
    <3>1. B \subseteq Nat
      BY <1>6
    <3> HIDE DEF B
    <3> QED BY <1>10, <3>1, LeastNatural
  <2>2. m \in h..N /\ level[m] # level[h]
    OBVIOUS
  <2>3. m - 1 \in h..N /\ m \in 1..N /\ m - 1 \notin B
    <3> HIDE DEF B
    <3> QED BY <1>1, <1>6, <2>1, <2>2
  <2>4. level[m - 1] = level[h]
    BY <2>3
  <2>5. level[m] = level[m - 1]
    <3>1. level[m] = IF Len(level[m - 1]) <= 1 THEN level[m - 1] ELSE LevelUp(level[m - 1])
      BY <2>3 DEF Follows
    <3> QED BY <1>9, <2>4, <3>1
  <2> QED BY <2>2, <2>4, <2>5
<1>11. level[N] = level[h]
  <2>1. N \in h..N
    BY <1>1, <1>6
  <2> QED BY <1>10, <2>1
<1> QED BY <1>6, <1>8, <1>9, <1>11 DEF Tops, h

\* One level: what merkle_proof pushes completes the pair on the level above.
LEMMA SiblingCompletes ==
    ASSUME NEW hs \in Seq(Hashes), Len(hs) > 1, NEW i \in Nat, i < Len(hs)
    PROVE  /\ Sibling(hs, i) \in Hashes /\ hs[i + 1] \in Hashes
           /\ i \div 2 \in Nat /\ i \div 2 < Len(LevelUp(hs))
           /\ LevelUp(hs)[(i \div 2) + 1] = IF i % 2 = 0 THEN HashPair(hs[i + 1], Sibling(hs, i))
                                                          ELSE HashPair(Sibling(hs, i), hs[i + 1])
<1> DEFINE k == i \div 2
           M == (Len(hs) + 1) \div 2
<1>1. Len(hs) \in Nat /\ k \in Nat /\ k < M /\ k + 1 \in 1..M /\ M = Len(LevelUp(hs))
  <2>1. Len(hs) \in Nat /\ Len(LevelUp(hs)) = M
    BY UpOfHashes
  <2>2. k \in Nat /\ k < M /\ M \in Nat
    BY <2>1
  <2> HIDE DEF k, M
  <2> QED BY <2>1, <2>2
<1>2. /\ i + 1 \in 1..Len(hs) /\ hs[i + 1] \in Hashes
  BY <1>1
<1>3. LevelUp(hs)[k + 1] = HashPair(hs[2*(k+1) - 1], hs[IF 2*(k+1) <= Len(hs) THEN 2*(k+1) ELSE 2*(k+1) - 1])
  <2> HIDE DEF k
  <2> QED BY <1>1, UpOfHashes
<1>4. CASE i % 2 = 0
  <2>1. 2*(k+1) - 1 = i + 1 /\ 2*(k+1) = i + 2
    BY <1>4
  <2>2. Sibling(hs, i) = hs[IF i + 1 < Len(hs) THEN i + 2 ELSE i + 1]
    <3>1. i + 1 + 1 = i + 2
      OBVIOUS
    <3> QED BY <1>4, <3>1 DEF Sibling
  <2>3. (IF i + 1 < Len(hs) THEN i + 2 ELSE i + 1) \in 1..Len(hs)
    BY <1>1, <1>2
  <2>4. (IF 2*(k+1) <= Len(hs) THEN 2*(k+1) ELSE 2*(k+1) - 1) = IF i + 1 < Len(hs) THEN i + 2 ELSE i + 1
    BY <1>1, <2>1
  <2>5. Sibling(hs, i) \in Hashes
    BY <2>2, <2>3
  <2>6. LevelUp(hs)[k + 1] = HashPair(hs[i + 1], Sibling(hs, i))
    BY <1>3, <2>1, <2>2, <2>4, Zenon
  <2> HIDE DEF M
  <2> QED BY <1>1, <1>2, <1>4, <2>5, <2>6
<1>5. CASE i % 2 # 0
  <2>1. 2*(k+1) - 1 = i /\ 2*(k+1) = i + 1
    BY <1>5
  <2>2. i - 1 < Len(hs) /\ i \in 1..Len(hs) /\ i - 1 + 1 = i
    BY <1>1, <2>1
  <2>3. Sibling(hs, i) = hs[i]
    BY <1>5, <2>2 DEF Sibling
  <2>4. (IF 2*(k+1) <= Len(hs) THEN 2*(k+1) ELSE 2*(k+1) - 1) = i + 1
    BY <1>2, <2>1
  <2>5. Sibling(hs, i) \in Hashes
    BY <2>2, <2>3
  <2>6. LevelUp(hs)[k + 1] = HashPair(Sibling(hs, i), hs[i + 1])
    BY <1>3, <2>1, <2>3, <2>4, Zenon
  <2> HIDE DEF M
  <2> QED BY <1>1, <1>2, <1>5, <2>5, <2>6
<1> QED BY <1>4, <1>5

-----------------------------------------------------------------------------
(* Climbing from a leaf to the root.                                       *)

\* p is the recursion in Path.
Ascends(p, index, h) ==
    p \in [0..h -> Nat] /\ p[0] = index /\ \A n \in 1..h : p[n] = p[n - 1] \div 2

LEMMA PathAscends ==
    ASSUME NEW index \in Nat, NEW h \in Nat
    PROVE  Ascends(Path(index, h), index, h)
<1> DEFINE Is(f) == f = [n \in 0..h |-> IF n = 0 THEN index ELSE f[n-1] \div 2]
           step == [n \in 1..h |-> [i \in Nat |-> i \div 2]]
           at == CHOOSE f : Is(f)
<1>1. Path(index, h) = at
  BY DEF Path
<1>2. step \in [1..h -> [Nat -> Nat]]
  OBVIOUS
<1>3. PICK f \in [0..h -> Nat] : f[0] = index /\ \A n \in 1..h : f[n] = step[n][f[n-1]]
  <2> HIDE DEF step
  <2>1. \E f : Iterates(f, Nat, h, index, step)
    BY <1>2, IterationExists
  <2> QED BY <2>1 DEF Iterates
<1>4. Is(f)
  <2>1. ASSUME NEW n \in 0..h PROVE f[n] = IF n = 0 THEN index ELSE f[n-1] \div 2
    <3>1. CASE n = 0
      BY <1>3, <3>1
    <3>2. CASE n # 0
      <4>1. n \in 1..h /\ n - 1 \in 0..h
        BY <3>2
      <4>2. f[n-1] \in Nat /\ f[n] = step[n][f[n-1]]
        BY <1>3, <4>1
      <4> QED BY <3>2, <4>1, <4>2
    <3> QED BY <3>1, <3>2
  <2> HIDE DEF step
  <2> QED BY <1>3, <2>1
<1>5. Is(at)
  BY <1>4, Zenon
<1> HIDE DEF at, step
<1>6. \A n \in 0..h : at[n] = IF n = 0 THEN index ELSE at[n-1] \div 2
  BY <1>5
<1>7. /\ at = [n \in 0..h |-> at[n]] /\ at[0] = index
      /\ \A n \in 1..h : at[n] = at[n-1] \div 2
  <2>1. 0 \in 0..h /\ \A n \in 1..h : n # 0 /\ n \in 0..h
    OBVIOUS
  <2> QED BY <1>5, <1>6, <2>1
<1>8. Iterates(at, Nat, h, index, step)
  <2>1. \A n \in 1..h : at[n-1] \in Nat => at[n] = step[n][at[n-1]]
    BY <1>7 DEF step
  <2> QED BY <1>2, <1>7, <2>1, FollowsIterates
<1> QED BY <1>1, <1>7, <1>8 DEF Iterates, Ascends

\* A proof: hashes and the sides they stand on.
ProofSteps == [hash : Hashes, right : BOOLEAN]
Joined(current, s) == IF s.right THEN HashPair(current, s.hash) ELSE HashPair(s.hash, current)

\* f is the recursion in VerifyMerkleProof.
Climbs(f, leaf, proof) ==
    /\ f \in [0..Len(proof) -> Hashes] /\ f[0] = leaf
    /\ \A k \in 1..Len(proof) : f[k] = Joined(f[k - 1], proof[k])

LEMMA VerifyClimbs ==
    ASSUME NEW leaf \in Hashes, NEW proof \in Seq(ProofSteps), NEW root
    PROVE  \E f : Climbs(f, leaf, proof) /\ (VerifyMerkleProof(leaf, proof, root) <=> f[Len(proof)] = root)
<1> DEFINE N == Len(proof)
           Is(f) == f = [k \in 0..N |-> IF k = 0 THEN leaf
                                        ELSE IF proof[k].right THEN HashPair(f[k-1], proof[k].hash)
                                                               ELSE HashPair(proof[k].hash, f[k-1])]
           Onward(k, c) == IF proof[k].right THEN HashPair(c, proof[k].hash) ELSE HashPair(proof[k].hash, c)
           step == [k \in 1..N |-> [c \in Hashes |-> Onward(k, c)]]
           current == CHOOSE f : Is(f)
<1>1. N \in Nat
  OBVIOUS
<1>2. \A k \in 1..N : \A c \in Hashes : Onward(k, c) \in Hashes
  <2> SUFFICES ASSUME NEW k \in 1..N, NEW c \in Hashes PROVE Onward(k, c) \in Hashes
    OBVIOUS
  <2>1. proof[k] \in ProofSteps
    OBVIOUS
  <2>2. proof[k].hash \in Hashes
    BY <2>1 DEF ProofSteps
  <2>3. HashPair(c, proof[k].hash) \in Hashes /\ HashPair(proof[k].hash, c) \in Hashes
    BY <2>2, PairHolds
  <2> QED BY <2>3
<1>3. VerifyMerkleProof(leaf, proof, root) <=> current[N] = root
  BY Zenon DEF VerifyMerkleProof
<1>4. \A f : Is(f) <=> f = [k \in 0..N |-> IF k = 0 THEN leaf ELSE Onward(k, f[k-1])]
  OBVIOUS
<1> HIDE DEF Is
<1>5. \A c : \A k \in 1..N : Onward(k, c) = Joined(c, proof[k])
  BY DEF Joined
<1> HIDE DEF N, Onward
<1>6. step \in [1..N -> [Hashes -> Hashes]]
  BY <1>2
<1>7. PICK f \in [0..N -> Hashes] : f[0] = leaf /\ \A n \in 1..N : f[n] = step[n][f[n-1]]
  <2> HIDE DEF step
  <2>1. \E f : Iterates(f, Hashes, N, leaf, step)
    BY <1>1, <1>6, IterationExists
  <2> QED BY <2>1 DEF Iterates
<1>8. Is(f)
  <2>1. ASSUME NEW n \in 0..N PROVE f[n] = IF n = 0 THEN leaf ELSE Onward(n, f[n-1])
    <3>1. CASE n = 0
      BY <1>7, <3>1
    <3>2. CASE n # 0
      <4>1. n \in 1..N /\ n - 1 \in 0..N
        BY <1>1, <3>2
      <4>2. f[n-1] \in Hashes
        BY <1>7, <4>1
      <4>3. f[n] = step[n][f[n-1]]
        BY <1>7, <4>1
      <4> QED BY <3>2, <4>1, <4>2, <4>3
    <3> QED BY <3>1, <3>2
  <2> HIDE DEF step
  <2>2. f = [k \in 0..N |-> IF k = 0 THEN leaf ELSE Onward(k, f[k-1])]
    BY <1>7, <2>1
  <2> QED BY <1>4, <2>2
<1>9. Is(current)
  BY <1>8, Zenon
<1> HIDE DEF current, step
<1>10. current = [k \in 0..N |-> IF k = 0 THEN leaf ELSE Onward(k, current[k-1])]
  BY <1>4, <1>9
<1>11. \A n \in 0..N : current[n] = IF n = 0 THEN leaf ELSE Onward(n, current[n-1])
  BY <1>10
<1>12. /\ current = [n \in 0..N |-> current[n]] /\ current[0] = leaf
       /\ \A n \in 1..N : current[n] = Onward(n, current[n-1])
  <2>1. 0 \in 0..N /\ \A n \in 1..N : n # 0 /\ n \in 0..N
    BY <1>1
  <2> QED BY <1>10, <1>11, <2>1
<1>13. Iterates(current, Hashes, N, leaf, step)
  <2>1. \A n \in 1..N : current[n-1] \in Hashes => current[n] = step[n][current[n-1]]
    BY <1>12 DEF step
  <2> QED BY <1>1, <1>6, <1>12, <2>1, FollowsIterates
<1>14. Climbs(current, leaf, proof)
  BY <1>5, <1>12, <1>13 DEF Iterates, Climbs, N
<1> QED BY <1>3, <1>14 DEF N

\* A node of level k - 1 and what merkle_proof pushes for it make the node above.
Rises(level, k, i) ==
    /\ Sibling(level[k - 1], i) \in Hashes /\ level[k - 1][i + 1] \in Hashes
    /\ i \div 2 \in Nat /\ i \div 2 < Len(level[k])
    /\ level[k][(i \div 2) + 1] = Joined(level[k - 1][i + 1],
                                         [hash |-> Sibling(level[k - 1], i), right |-> i % 2 = 0])

LEMMA StepUp ==
    ASSUME NEW leaves \in Seq(Hashes), NEW level, Follows(level, leaves), NEW k \in 1..Len(leaves),
           Len(level[k - 1]) > 1, NEW i \in Nat, i < Len(level[k - 1])
    PROVE  Rises(level, k, i)
<1> DEFINE hs == level[k - 1]
           s == Sibling(hs, i)
<1>1. k - 1 \in 0..Len(leaves) /\ Len(leaves) \in Nat
  OBVIOUS
<1>2. hs \in Seq(Hashes) /\ level[k] = IF Len(hs) <= 1 THEN hs ELSE LevelUp(hs)
  BY <1>1 DEF Follows
<1>3. level[k] = LevelUp(hs)
  <2>1. Len(hs) > 1 /\ Len(hs) \in Nat
    BY <1>2
  <2> HIDE DEF hs
  <2> QED BY <1>2, <2>1
<1>4. /\ s \in Hashes /\ hs[i + 1] \in Hashes /\ i \div 2 \in Nat /\ i \div 2 < Len(LevelUp(hs))
      /\ LevelUp(hs)[(i \div 2) + 1] = IF i % 2 = 0 THEN HashPair(hs[i + 1], s) ELSE HashPair(s, hs[i + 1])
  <2> HIDE DEF hs
  <2>1. Len(hs) > 1 /\ i < Len(hs)
    BY DEF hs
  <2> QED BY <1>2, <2>1, SiblingCompletes
<1>5. Joined(hs[i + 1], [hash |-> s, right |-> i % 2 = 0])
        = IF i % 2 = 0 THEN HashPair(hs[i + 1], s) ELSE HashPair(s, hs[i + 1])
  <2> HIDE DEF hs, s
  <2> QED BY DEF Joined
<1> HIDE DEF s
<1> QED BY <1>3, <1>4, <1>5 DEF s, Rises

\* A pair with a given half is the node above exactly if the other half is the node.
LEMMA JoinedTells ==
    ASSUME NEW a \in Hashes, NEW b \in Hashes, NEW s \in ProofSteps
    PROVE  Joined(a, s) = Joined(b, s) <=> a = b
<1>1. s.hash \in Hashes
  BY DEF ProofSteps
<1>2. /\ HashPair(a, s.hash) = HashPair(b, s.hash) => a = b
      /\ HashPair(s.hash, a) = HashPair(s.hash, b) => a = b
  BY <1>1, PairTells
<1> QED BY <1>2 DEF Joined

\* The proof made for the leaf at index verifies that leaf and no other, for any
\* number of leaves.
LEMMA ProofAttests ==
    ASSUME NEW leaves \in Seq(Hashes), NEW index \in Nat, index < Len(leaves), NEW leaf \in Hashes
    PROVE  VerifyMerkleProof(leaf, MerkleProof(leaves, index), ComputeMerkleRoot(leaves))
             <=> leaf = leaves[index + 1]
<1> DEFINE N == Len(leaves)
           level == Levels(leaves)
           h == Height(level)
           at == Path(index, h)
           proof == MerkleProof(leaves, index)
           root == ComputeMerkleRoot(leaves)
<1>1. N \in Nat /\ N >= 1 /\ leaves # <<>>
  OBVIOUS
<1>2. Follows(level, leaves)
  BY LevelsFollow
<1>3. proof = [k \in 1..h |-> [hash |-> Sibling(level[k - 1], at[k - 1]), right |-> at[k - 1] % 2 = 0]]
  BY DEF MerkleProof
<1>4. root = level[N][1]
  BY <1>1 DEF ComputeMerkleRoot
<1> HIDE DEF level, at, proof, root
<1>5. Tops(h, level, N)
  BY <1>1, <1>2, HeightTops
<1>6. h \in Nat /\ h \in 0..N
  BY <1>1, <1>5 DEF Tops
<1> HIDE DEF h
<1>7. Ascends(at, index, h)
  BY <1>6, PathAscends DEF at
<1>8. ASSUME NEW k \in 1..h
      PROVE  k \in 1..N /\ k - 1 \in 0..h /\ k \in 0..h /\ at[k - 1] \in Nat /\ at[k] = at[k - 1] \div 2
             /\ Len(level[k - 1]) > 1
  <2>1. k \in 1..N /\ k - 1 \in 0..h /\ k - 1 \in 0..(h - 1) /\ k \in 0..h
    BY <1>1, <1>6
  <2> QED BY <1>5, <1>7, <2>1 DEF Tops, Ascends
<1> DEFINE Inside(n) == at[n] \in Nat /\ at[n] < Len(level[n])
           A == {n \in 0..h : ~Inside(n)}
<1>9. ASSUME A # {} PROVE FALSE
  <2>1. PICK m \in A : \A k \in A : m <= k
    <3>1. A \subseteq Nat
      BY <1>6
    <3> HIDE DEF A
    <3> QED BY <1>9, <3>1, LeastNatural
  <2>2. m \in 0..h /\ ~Inside(m)
    OBVIOUS
  <2>3. m # 0
    <3>1. level[0] = leaves /\ at[0] = index
      BY <1>2, <1>7 DEF Follows, Ascends
    <3> QED BY <2>2, <3>1
  <2>4. m \in 1..h /\ m - 1 \in 0..h /\ m - 1 \notin A
    <3> HIDE DEF A, Inside
    <3> QED BY <1>6, <2>1, <2>2, <2>3
  <2>5. Inside(m - 1)
    BY <2>4
  <2>6. at[m - 1] \div 2 \in Nat /\ at[m - 1] \div 2 < Len(level[m])
    <3>1. Rises(level, m, at[m - 1])
      BY <1>2, <1>8, <2>4, <2>5, StepUp
    <3> QED BY <3>1 DEF Rises
  <2> QED BY <1>8, <2>2, <2>4, <2>6
<1>10. \A n \in 0..h : Inside(n)
  BY <1>9
<1> HIDE DEF A
<1>11. ASSUME NEW k \in 1..h
       PROVE  /\ proof[k] = [hash |-> Sibling(level[k - 1], at[k - 1]), right |-> at[k - 1] % 2 = 0]
              /\ proof[k] \in ProofSteps /\ level[k - 1][at[k - 1] + 1] \in Hashes
              /\ level[k][at[k] + 1] = Joined(level[k - 1][at[k - 1] + 1], proof[k])
  <2>1. proof[k] = [hash |-> Sibling(level[k - 1], at[k - 1]), right |-> at[k - 1] % 2 = 0]
    BY <1>3
  <2>2. /\ Sibling(level[k - 1], at[k - 1]) \in Hashes /\ level[k - 1][at[k - 1] + 1] \in Hashes
        /\ level[k][(at[k - 1] \div 2) + 1] = Joined(level[k - 1][at[k - 1] + 1],
             [hash |-> Sibling(level[k - 1], at[k - 1]), right |-> at[k - 1] % 2 = 0])
    <3>1. k \in 1..N /\ Len(level[k - 1]) > 1 /\ at[k - 1] \in Nat /\ at[k - 1] < Len(level[k - 1])
      BY <1>8, <1>10
    <3>2. Rises(level, k, at[k - 1])
      BY <1>2, <3>1, StepUp
    <3> QED BY <3>2 DEF Rises
  <2>3. proof[k] \in ProofSteps
    BY <2>1, <2>2 DEF ProofSteps
  <2>4. level[k][at[k] + 1] = level[k][(at[k - 1] \div 2) + 1]
    BY <1>8
  <2> QED BY <2>1, <2>2, <2>3, <2>4
<1>12. proof \in Seq(ProofSteps) /\ Len(proof) = h
  <2>1. proof \in [1..h -> ProofSteps]
    BY <1>3, <1>11
  <2> QED BY <1>6, <2>1
<1>13. PICK f : Climbs(f, leaf, proof) /\ (VerifyMerkleProof(leaf, proof, root) <=> f[h] = root)
  BY <1>12, VerifyClimbs
<1> DEFINE Tells(n) == f[n] = level[n][at[n] + 1] <=> leaf = leaves[index + 1]
           B == {n \in 0..h : ~Tells(n)}
<1>14. ASSUME B # {} PROVE FALSE
  <2>1. PICK m \in B : \A k \in B : m <= k
    <3>1. B \subseteq Nat
      BY <1>6
    <3> HIDE DEF B
    <3> QED BY <1>14, <3>1, LeastNatural
  <2>2. m \in 0..h /\ ~Tells(m)
    OBVIOUS
  <2>3. m # 0
    <3>1. level[0] = leaves /\ at[0] = index /\ f[0] = leaf
      BY <1>2, <1>7, <1>13 DEF Follows, Ascends, Climbs
    <3> QED BY <2>2, <3>1
  <2>4. m \in 1..h /\ m - 1 \in 0..h /\ m - 1 \notin B
    <3> HIDE DEF B, Tells
    <3> QED BY <1>6, <2>1, <2>2, <2>3
  <2>5. Tells(m - 1)
    BY <2>4
  <2>6. f[m - 1] \in Hashes /\ f[m] = Joined(f[m - 1], proof[m])
    BY <1>12, <1>13, <2>4 DEF Climbs
  <2>7. Joined(f[m - 1], proof[m]) = level[m][at[m] + 1] <=> f[m - 1] = level[m - 1][at[m - 1] + 1]
    <3> DEFINE a == level[m - 1][at[m - 1] + 1]
    <3>1. a \in Hashes /\ proof[m] \in ProofSteps /\ level[m][at[m] + 1] = Joined(a, proof[m])
      BY <1>11, <2>4
    <3> HIDE DEF a
    <3>2. Joined(f[m - 1], proof[m]) = Joined(a, proof[m]) <=> f[m - 1] = a
      BY <2>6, <3>1, JoinedTells
    <3> QED BY <3>1, <3>2 DEF a
  <2> QED BY <2>2, <2>5, <2>6, <2>7
<1>15. Tells(h)
  <2>1. h \in 0..h
    BY <1>6
  <2> QED BY <1>14, <2>1
<1>16. at[h] = 0
  <2>1. at[h] \in Nat /\ at[h] < Len(level[h]) /\ Len(level[h]) = 1
    <3>1. h \in 0..h
      BY <1>6
    <3> QED BY <1>5, <1>10, <3>1 DEF Tops
  <2> DEFINE a == at[h]
  <2>2. a \in Nat /\ a < 1
    BY <2>1
  <2> HIDE DEF a
  <2>3. a = 0
    BY <2>2
  <2> QED BY <2>3 DEF a
<1>17. root = level[h][at[h] + 1]
  BY <1>4, <1>5, <1>16 DEF Tops
<1> QED BY <1>13, <1>15, <1>17 DEF proof, root

-----------------------------------------------------------------------------
(* The source tree on disk.                                                *)

Trees == Seq([path : SourcePath, sha256 : {HashFile(c) : c \in Content}])
SourceInv ==
    /\ sources \in [SourcePath -> Content \cup {Absent}]
    /\ tree = NoTree \/ tree \in Trees

\* SourceMerkleTree::build lists paths with the hashes of files.
LEMMA TreeIsBuilt ==
    ASSUME sources \in [SourcePath -> Content \cup {Absent}]
    PROVE  BuildTree \in Trees
<1> DEFINE E == [path : SourcePath, sha256 : {HashFile(c) : c \in Content}]
           S == Seq(E)
           Entry(p) == [path |-> p, sha256 |-> HashFile(sources[p])]
           More(p, s) == IF sources[p] = Absent THEN s ELSE Append(s, Entry(p))
           Is(f) == f = [p \in 0..Sources |-> IF p = 0 THEN <<>> ELSE More(p, f[p-1])]
           step == [p \in 1..Sources |-> [s \in S |-> More(p, s)]]
           entries == CHOOSE f : Is(f)
<1>1. Sources \in Nat
  BY IntegrityAssumption
<1>2. BuildTree = entries[Sources]
  BY Zenon DEF BuildTree
<1>3. <<>> \in S /\ \A p \in 1..Sources : \A s \in S : More(p, s) \in S
  <2>1. ASSUME NEW p \in 1..Sources, sources[p] # Absent PROVE Entry(p) \in E
    <3>1. sources[p] \in Content /\ p \in SourcePath
      BY <2>1 DEF SourcePath
    <3>2. HashFile(sources[p]) \in {HashFile(c) : c \in Content}
      BY <3>1
    <3> QED BY <3>1, <3>2
  <2> HIDE DEF E, Entry
  <2> QED BY <2>1
<1>4. Trees = S
  BY DEF Trees
<1> HIDE DEF S, More
<1>5. step \in [1..Sources -> [S -> S]]
  BY <1>3
<1>6. PICK f \in [0..Sources -> S] : f[0] = <<>> /\ \A n \in 1..Sources : f[n] = step[n][f[n-1]]
  <2> HIDE DEF step
  <2>1. \E f : Iterates(f, S, Sources, <<>>, step)
    BY <1>1, <1>3, <1>5, IterationExists
  <2> QED BY <2>1 DEF Iterates
<1>7. Is(f)
  <2>1. ASSUME NEW n \in 0..Sources PROVE f[n] = IF n = 0 THEN <<>> ELSE More(n, f[n-1])
    <3>1. CASE n = 0
      BY <1>6, <3>1
    <3>2. CASE n # 0
      <4>1. n \in 1..Sources /\ n - 1 \in 0..Sources
        BY <1>1, <3>2
      <4>2. f[n-1] \in S
        BY <1>6, <4>1
      <4>3. f[n] = step[n][f[n-1]]
        BY <1>6, <4>1
      <4> QED BY <3>2, <4>1, <4>2, <4>3
    <3> QED BY <3>1, <3>2
  <2> HIDE DEF step
  <2> QED BY <1>6, <2>1
<1>8. Is(entries)
  BY <1>7, Zenon
<1> HIDE DEF entries, step
<1>9. \A n \in 0..Sources : entries[n] = IF n = 0 THEN <<>> ELSE More(n, entries[n-1])
  BY <1>8
<1>10. /\ entries = [n \in 0..Sources |-> entries[n]] /\ entries[0] = <<>>
       /\ \A n \in 1..Sources : entries[n] = More(n, entries[n-1])
  <2>1. 0 \in 0..Sources /\ \A n \in 1..Sources : n # 0 /\ n \in 0..Sources
    BY <1>1
  <2> QED BY <1>8, <1>9, <2>1
<1>11. Iterates(entries, S, Sources, <<>>, step)
  <2>1. \A n \in 1..Sources : entries[n-1] \in S => entries[n] = step[n][entries[n-1]]
    BY <1>10 DEF step
  <2> QED BY <1>1, <1>3, <1>5, <1>10, <2>1, FollowsIterates
<1>12. entries[Sources] \in S
  <2>1. Sources \in 0..Sources
    BY <1>1
  <2> QED BY <1>11, <2>1 DEF Iterates
<1> QED BY <1>2, <1>4, <1>12

\* Where a path is found in a tree, if it is.
LEMMA PositionIs ==
    ASSUME NEW t \in Trees, NEW p
    PROVE  Position(t, p) # 0 => Position(t, p) \in 1..Len(t)
<1> DEFINE found == {i \in DOMAIN t : t[i].path = p}
<1> SUFFICES ASSUME found # {} PROVE Min(found) \in 1..Len(t)
  BY DEF Position
<1>1. DOMAIN t = 1..Len(t) /\ Len(t) \in Nat
  BY DEF Trees
<1>2. found \subseteq 1..Len(t) /\ found \subseteq Nat
  BY <1>1
<1> HIDE DEF found
<1>3. \E x \in found : \A y \in found : x <= y
  BY <1>2, LeastNatural
<1>4. Min(found) \in found
  BY <1>3 DEF Min
<1> QED BY <1>2, <1>4

\* verify-source-file on a tree that was built.
LEMMA TreeVerifies ==
    ASSUME NEW t \in Trees, NEW p, NEW c \in Content \cup {Absent}, Position(t, p) # 0
    PROVE  LET i == Position(t, p) IN
           /\ VerifyMerkleProof(t[i].sha256, MerkleProof(Leaves(t), i - 1), ComputeMerkleRoot(Leaves(t)))
           /\ VerifyMerkleProof(HashFile(c), MerkleProof(Leaves(t), i - 1), ComputeMerkleRoot(Leaves(t)))
                <=> t[i].sha256 = HashFile(c)
<1> DEFINE i == Position(t, p)
           L == Leaves(t)
<1>1. i \in 1..Len(t) /\ Len(t) \in Nat /\ DOMAIN t = 1..Len(t)
  BY PositionIs DEF Trees
<1>2. HashFile(c) \in Hashes /\ \A d \in Content : HashFile(d) \in Hashes
  BY DEF HashFile, Hashes
<1>3. ASSUME NEW j \in 1..Len(t) PROVE t[j].sha256 \in Hashes
  <2> DEFINE E == [path : SourcePath, sha256 : {HashFile(d) : d \in Content}]
  <2>1. t[j] \in E
    <3>1. t \in Seq(E)
      BY DEF Trees
    <3> HIDE DEF E
    <3> QED BY <3>1
  <2>2. PICK d \in Content : t[j].sha256 = HashFile(d)
    BY <2>1
  <2> QED BY <1>2, <2>2
<1>4. L \in Seq(Hashes) /\ Len(L) = Len(t) /\ \A j \in 1..Len(t) : L[j] = t[j].sha256
  <2>1. L = [j \in 1..Len(t) |-> t[j].sha256]
    BY <1>1 DEF Leaves
  <2>2. L \in [1..Len(t) -> Hashes]
    BY <1>3, <2>1
  <2>3. \A j \in 1..Len(t) : L[j] = t[j].sha256
    BY <2>1
  <2> HIDE DEF L
  <2> QED BY <1>1, <2>2, <2>3
<1> HIDE DEF i, L
<1>5. i - 1 \in Nat /\ i - 1 < Len(L) /\ i - 1 + 1 = i /\ L[i] = t[i].sha256 /\ t[i].sha256 \in Hashes
  BY <1>1, <1>3, <1>4
<1>6. \A leaf \in Hashes : VerifyMerkleProof(leaf, MerkleProof(L, i - 1), ComputeMerkleRoot(L)) <=> leaf = L[i - 1 + 1]
  BY <1>4, <1>5, ProofAttests
<1>7. \A leaf \in Hashes : VerifyMerkleProof(leaf, MerkleProof(L, i - 1), ComputeMerkleRoot(L)) <=> leaf = t[i].sha256
  BY <1>5, <1>6
<1>8. VerifyMerkleProof(t[i].sha256, MerkleProof(L, i - 1), ComputeMerkleRoot(L))
  BY <1>5, <1>7, Zenon
<1>9. VerifyMerkleProof(HashFile(c), MerkleProof(L, i - 1), ComputeMerkleRoot(L)) <=> t[i].sha256 = HashFile(c)
  BY <1>2, <1>7, Zenon
<1> QED BY <1>8, <1>9 DEF i, L

LEMMA SourceStepKeeps ==
    ASSUME SourceInv, [Next]_vars
    PROVE  SourceInv'
<1>1. CASE SourceStep
  <2>1. ASSUME NEW p \in SourcePath, NEW c \in Content \cup {Absent}, EditSource(p, c) PROVE SourceInv'
    BY <2>1 DEF EditSource, SourceInv, Trees, SourcePath, NoTree, HashFile
  <2>2. CASE XtaskSourceMerkleTree
    <3>1. tree' \in Trees /\ sources' = sources
      BY <2>2, TreeIsBuilt DEF XtaskSourceMerkleTree, SourceInv
    <3> QED BY <3>1 DEF SourceInv, Trees, SourcePath, HashFile
  <2> QED BY <1>1, <2>1, <2>2 DEF SourceStep
<1>2. CASE UNCHANGED sourceVars
  BY <1>2 DEF SourceInv, sourceVars, Trees, SourcePath, HashFile, NoTree
<1> QED
  BY <1>1, <1>2
     DEF Next, vars, integrityVars, StartWithKey, CreateKey, NewProcess, IntegrityRestart, WriteKey,
         Crash, Exit, ProcessEnds, StatsFlushLoop, ShutdownSignal, OpenGet, HandleGetBlob, Close,
         DeleteUpload, Upload, Clock, AdmissionStep, OperatorEditsFile, HandleWhitelistAdd,
         HandleWhitelistRemove, ReloadReads, ReloadApplies, ReleaseStep, Install, RemoveManifest,
         SignReleaseManifest, HandleStatus, RuntimeIntegrityInfo

-----------------------------------------------------------------------------
(* The theorems.                                                           *)

\* A key never gets a whole token more than burst and refill: no bucket that is
\* dropped, no clock set back and no whitelist makes check grant more.
THEOREM RateIsHeld == Spec => []RateHeld
<1>1. RateInv => RateHeld
  <2> SUFFICES ASSUME RateInv, NEW k \in Key PROVE ideal[k] > -TicksPerToken
    BY DEF RateHeld
  <2>1. ideal[k] \in Int /\ TicksPerToken \in Nat \ {0} /\ MaxTokens \in Nat
    BY LimiterAssumption DEF RateInv, LimiterTypeOK
  <2>2. CASE k \in DOMAIN buckets
    <3>1. Backed(k, Level(buckets[k]))
      BY <2>2 DEF RateInv
    <3>2. Level(buckets[k]) \in Nat
      BY <2>1, <2>2, LimiterAssumption DEF RateInv, LimiterTypeOK, Level
    <3> QED
      BY <2>1, <3>1, <3>2, FullIsNat DEF Backed
  <2>3. CASE k \notin DOMAIN buckets
    BY <2>1, <2>3, FullIsNat DEF RateInv, Backed
  <2> QED
    BY <2>2, <2>3
<1> QED
  BY <1>1, Invariance, PTL DEF Inv

\* Every access is in memory or in the database exactly once, until a flush
\* fails, the blob is deleted or the process dies.
THEOREM EgressIsAccounted == Spec => EgressAccounted
<1> DEFINE Lost(b) ==
             \/ \E failed \in SUBSET Pending :
                  b \in failed /\ (StatsFlushLoop(failed) \/ ShutdownSignal(failed))
             \/ DeleteUpload(b)
             \/ Crash
             \/ Exit /\ Missing(b)' - Missing(b) <= late[b]
           Accounted(b) == Missing(b)' = Missing(b) \/ (Missing(b)' > Missing(b) /\ Lost(b))
<1> HIDE DEF Lost, Accounted
<1>1. ASSUME StatsInv, [Next]_vars, NEW b \in Blob
      PROVE  Accounted(b)
  <2>1. stats[b] \in Nat /\ db[b] \in Nat /\ egress[b] \in Nat /\ late[b] \in Nat
    BY <1>1 DEF StatsInv
  <2>2. ASSUME ProcessEnds
        PROVE  Missing(b) \in Int /\ Missing(b)' = Missing(b) + stats[b]
    <3>1. stats'[b] = 0 /\ db' = db /\ egress' = egress
      BY <2>2 DEF ProcessEnds, Zero
    <3>2. Missing(b) = egress[b] - db[b] - stats[b] /\ Missing(b)' = egress[b] - db[b] - 0
      BY <3>1, Zenon DEF Missing
    <3> QED
      BY <2>1, <3>2
  <2>3. CASE Crash
    <3>1. Missing(b)' = Missing(b) \/ Missing(b)' > Missing(b)
      BY <2>1, <2>2, <2>3 DEF Crash
    <3> QED
      BY <2>3, <3>1 DEF Accounted, Lost
  <2>4. CASE Exit
    <3>1. stats[b] = late[b]
      BY <1>1, <2>4 DEF Exit, StatsInv
    <3>2. /\ Missing(b)' = Missing(b) \/ Missing(b)' > Missing(b)
          /\ Missing(b)' - Missing(b) <= late[b]
      BY <2>1, <2>2, <2>4, <3>1 DEF Exit
    <3> QED
      BY <2>4, <3>2 DEF Accounted, Lost
  <2>5. ASSUME NEW failed \in SUBSET Pending, StatsFlushLoop(failed) \/ ShutdownSignal(failed)
        PROVE  Accounted(b)
    <3>1. /\ db'[b] = IF b \in failed THEN db[b] ELSE db[b] + stats[b]
          /\ stats'[b] = 0 /\ egress' = egress
      BY <2>5 DEF StatsFlushLoop, ShutdownSignal, Flush, Zero
    <3>2. CASE b \in failed
      <4>1. stats[b] > 0
        BY <3>2 DEF Pending
      <4>2. Missing(b)' > Missing(b)
        BY <2>1, <3>1, <3>2, <4>1 DEF Missing
      <4> QED
        BY <2>5, <3>2, <4>2 DEF Accounted, Lost
    <3>3. CASE b \notin failed
      BY <2>1, <3>1, <3>3 DEF Missing, Accounted
    <3> QED
      BY <3>2, <3>3
  <2>6. ASSUME NEW c \in Conn, HandleGetBlob(c)
        PROVE  Accounted(b)
    <3>1. stats'[b] - stats[b] = egress'[b] - egress[b] /\ db' = db /\ stats'[b] \in Nat /\ egress'[b] \in Nat
      BY <1>1, <2>6 DEF HandleGetBlob, StatsInv
    <3> QED
      BY <2>1, <3>1 DEF Missing, Accounted
  <2>7. ASSUME NEW d \in Blob, DeleteUpload(d)
        PROVE  Accounted(b)
    <3>1. stats' = stats /\ egress' = egress /\ db'[b] = IF b = d THEN 0 ELSE db[b]
      BY <1>1, <2>7 DEF DeleteUpload, StatsInv
    <3>2. CASE b = d
      <4>1. Missing(b)' = Missing(b) \/ Missing(b)' > Missing(b)
        BY <2>1, <3>1, <3>2 DEF Missing
      <4> QED
        BY <2>7, <3>2, <4>1 DEF Accounted, Lost
    <3>3. CASE b # d
      BY <3>1, <3>3 DEF Missing, Accounted
    <3> QED
      BY <3>2, <3>3
  <2>8. CASE UNCHANGED <<stats, db, egress>>
    BY <2>8 DEF Missing, Accounted
  <2> QED
    BY <1>1, <2>3, <2>4, <2>5, <2>6, <2>7, <2>8
       DEF Next, vars, statsVars, StartWithKey, CreateKey, WriteKey, NewProcess, OpenGet, Close,
           Upload, Clock, AdmissionStep, OperatorEditsFile, HandleWhitelistAdd,
           HandleWhitelistRemove, ReloadReads, ReloadApplies, SourceStep, ReleaseStep, HandleStatus,
           IntegrityStep
<1>2. Inv /\ [Next]_vars =>
        [\A b \in Blob :
          \/ Missing(b)' = Missing(b)
          \/ /\ Missing(b)' > Missing(b)
             /\ \/ \E failed \in SUBSET Pending :
                     b \in failed /\ (StatsFlushLoop(failed) \/ ShutdownSignal(failed))
                \/ DeleteUpload(b)
                \/ Crash
                \/ Exit /\ Missing(b)' - Missing(b) <= late[b]]_vars
  BY <1>1 DEF Inv, Accounted, Lost
<1> QED
  BY <1>2, Invariance, PTL DEF Spec, EgressAccounted

\* Two processes that served used the same key, whenever one of them was killed.
THEOREM IdentityIsStable == Spec => IdentityStable
<1> DEFINE Same == (node' # 0 => node' = keyFile') /\ (keyFile > 0 => keyFile' = keyFile)
<1>1. ASSUME KeyInv, [Next]_vars
      PROVE  Same
  <2>1. CASE StartWithKey \/ CreateKey \/ WriteKey
    BY <1>1, <2>1 DEF StartWithKey, CreateKey, WriteKey, NewProcess, KeyInv
  <2>2. CASE keyFile' = keyFile
    BY <1>1, <2>2, KeyStep DEF KeyInv
  <2> QED
    BY <1>1, <2>1, <2>2
       DEF Next, vars, keyVars, Crash, Exit, ProcessEnds, StatsFlushLoop, ShutdownSignal, OpenGet,
           HandleGetBlob, Close, DeleteUpload, Upload, Clock, AdmissionStep, OperatorEditsFile,
           HandleWhitelistAdd, HandleWhitelistRemove, ReloadReads, ReloadApplies, SourceStep,
           ReleaseStep, HandleStatus, IntegrityStep
<1>2. Inv /\ [Next]_vars => [Same]_vars
  BY <1>1 DEF Inv
<1> QED
  BY <1>2, Invariance, PTL DEF Spec, IdentityStable

\* A process comes to report verified only over a binary that a trusted key
\* released, whichever manifest it finds.
THEOREM VerifiedWasReleased == Spec => VerifiedIsReleased
<1> DEFINE Released == (status # "verified" /\ status' = "verified") => package.bin \in released
<1>1. ASSUME ReleaseInv, [Next]_vars
      PROVE  Released
  <2>1. CASE HandleStatus
    <3> DEFINE m == manifests[ReleaseManifestPath]
    <3> SUFFICES ASSUME status' = "verified" PROVE package.bin \in released
      OBVIOUS
    <3>1. m.kind = "release" /\ m.signer \in Trusted /\ VerifyReleaseManifest(m)
      BY <2>1 DEF HandleStatus, RuntimeIntegrityInfo, LoadAndVerifyReleaseManifest
    <3>2. TrustedManifest(m)
      BY <1>1 DEF ReleaseInv, ReleaseManifestPath, Slots
    <3> HIDE DEF m
    <3> QED
      BY <3>1, <3>2 DEF TrustedManifest, VerifyReleaseManifest
  <2>2. CASE status' = status \/ status' = "unknown"
    BY <2>2
  <2> HIDE DEF Released
  <2> QED
    BY <1>1, <2>1, <2>2
       DEF Next, vars, integrityVars, StartWithKey, CreateKey, NewProcess, IntegrityRestart, WriteKey,
           Crash, Exit, ProcessEnds, StatsFlushLoop, ShutdownSignal, OpenGet, HandleGetBlob, Close,
           DeleteUpload, Upload, Clock, AdmissionStep, OperatorEditsFile, HandleWhitelistAdd,
           HandleWhitelistRemove, ReloadReads, ReloadApplies, SourceStep, EditSource,
           XtaskSourceMerkleTree, ReleaseStep, Install, RemoveManifest, SignReleaseManifest
<1>2. Inv /\ [Next]_vars => [Released]_vars
  BY <1>1 DEF Inv
<1> QED
  BY <1>2, Invariance, PTL DEF Spec, VerifiedIsReleased

\* verify-source-file accepts a file exactly if it is as it was when the tree was
\* built, and its Merkle proof fits no other content, for any number of files.
THEOREM TreeIsAttested == Spec => []TreeAttests
<1>1. Init => SourceInv
  <2> SUFFICES ASSUME Init PROVE SourceInv
    OBVIOUS
  <2>1. sources \in [SourcePath -> Content \cup {Absent}] /\ tree = NoTree
    BY DEF Init, IntegrityInit
  <2> QED BY <2>1 DEF SourceInv
<1>2. SourceInv /\ [Next]_vars => SourceInv'
  BY SourceStepKeeps
<1>3. SourceInv => TreeAttests
  <2> SUFFICES ASSUME SourceInv, tree # NoTree, NEW p \in SourcePath
               PROVE  LET i == Position(tree, p) IN
                      /\ VerifySourceFile(tree, p, sources[p])
                           <=> (i # 0 /\ tree[i].sha256 = HashFile(sources[p]))
                      /\ \A c \in Content :
                           i # 0 => (VerifyMerkleProof(HashFile(c), MerkleProof(Leaves(tree), i - 1),
                                                       ComputeMerkleRoot(Leaves(tree)))
                                     <=> tree[i].sha256 = HashFile(c))
    BY Zenon DEF TreeAttests
  <2>1. tree \in Trees /\ sources[p] \in Content \cup {Absent}
    BY DEF SourceInv
  <2> DEFINE i == Position(tree, p)
             Fits(x) == VerifyMerkleProof(x, MerkleProof(Leaves(tree), i - 1), ComputeMerkleRoot(Leaves(tree)))
  <2>2. i # 0 => Fits(tree[i].sha256)
    BY <2>1, TreeVerifies, Zenon
  <2>3. \A c \in Content : i # 0 => (Fits(HashFile(c)) <=> tree[i].sha256 = HashFile(c))
    BY <2>1, TreeVerifies, Zenon
  <2>4. VerifySourceFile(tree, p, sources[p])
          <=> (i # 0 /\ tree[i].sha256 = HashFile(sources[p]) /\ Fits(tree[i].sha256))
    BY Zenon DEF VerifySourceFile
  <2> HIDE DEF Fits
  <2>5. VerifySourceFile(tree, p, sources[p]) <=> (i # 0 /\ tree[i].sha256 = HashFile(sources[p]))
    BY <2>2, <2>4, Zenon
  <2> QED BY <2>3, <2>5, Zenon DEF Fits
<1> QED
  BY <1>1, <1>2, <1>3, PTL DEF Spec
=============================================================================
