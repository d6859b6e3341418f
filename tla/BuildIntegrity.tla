--------------------------- MODULE BuildIntegrity ---------------------------
(***************************************************************************)
(* Release manifests and the source Merkle tree (src/integrity.rs, written *)
(* by xtask, read by the server).  SHA-256 is taken to be injective: a     *)
(* hash is the sequence of what was hashed, in prefix order, and a         *)
(* manifest, whose aggregate hash and signature cover its entries, is its  *)
(* signer and its entries.                                                 *)
(***************************************************************************)
EXTENDS Integers, Sequences, FiniteSetsExt

CONSTANTS
    Content,      \* contents of files
    Absent,       \* no file
    Sources,      \* number of source paths; 1..Sources is their sorted order
    Signer,       \* keys that sign releases
    Trusted,      \* BLOSSOM_TRUSTED_RELEASE_SIGNERS of this build
    MaxChanges    \* bound: edits, installations, signatures, trees

ASSUME IntegrityAssumption ==
    /\ Absent \notin Content
    /\ Sources \in Nat /\ MaxChanges \in Nat
    /\ Trusted \subseteq Signer

VARIABLES
    sources,    \* sources[p]: the source file p, or Absent
    tree,       \* source-merkle-tree.json: its leaves, or NoTree
    package,    \* the binary and another file beside it
    manifests,  \* <binary>.manifest.json and release-manifest.json
    released,   \* history: binaries signed by a trusted key
    status,     \* the OnceLock of the process, or "unknown"
    changes

sourceVars == <<sources, tree>>
releaseVars == <<package, manifests, released>>
integrityVars == <<sourceVars, releaseVars, status, changes>>

SourcePath == 1..Sources
Change == changes < MaxChanges /\ changes' = changes + 1

-----------------------------------------------------------------------------
(* The Merkle tree.                                                        *)

HashFile(c) == <<c>>
HashPair(left, right) == <<"pair">> \o left \o right

\* Mutant: the last of an odd number goes up as it is.
LevelUpCarries(hashes) ==
    [i \in 1..((Len(hashes) + 1) \div 2) |->
        IF 2*i <= Len(hashes) THEN HashPair(hashes[2*i - 1], hashes[2*i]) ELSE hashes[2*i - 1]]

\* One level up; the last of an odd number is paired with itself.
LevelUp(hashes) ==
    [i \in 1..((Len(hashes) + 1) \div 2) |->
        HashPair(hashes[2*i - 1], hashes[IF 2*i <= Len(hashes) THEN 2*i ELSE 2*i - 1])]

\* The levels from the leaves to the root, which repeats once it is reached.
Levels(leaves) ==
    LET level[n \in 0..Len(leaves)] ==
            IF n = 0 THEN leaves
            ELSE IF Len(level[n - 1]) <= 1 THEN level[n - 1] ELSE LevelUp(level[n - 1])
    IN  level

ComputeMerkleRoot(leaves) ==
    IF leaves = <<>> THEN <<"zero">> ELSE Levels(leaves)[Len(leaves)][1]

\* Levels that are hashed, before the one that is the root.
Height(level) == Min({n \in DOMAIN level : Len(level[n]) <= 1})

\* Positions count from 0: where a leaf and the nodes above it stand.
Path(index, height) ==
    LET at[n \in 0..height] == IF n = 0 THEN index ELSE at[n - 1] \div 2
    IN  at

\* The neighbour of position i, or the node itself where it has none.
Sibling(hashes, i) ==
    LET sibling == IF i % 2 = 0 THEN i + 1 ELSE i - 1
    IN  hashes[IF sibling < Len(hashes) THEN sibling + 1 ELSE i + 1]

MerkleProof(leaves, index) ==
    LET level == Levels(leaves)
        at == Path(index, Height(level))
    IN  [k \in 1..Height(level) |-> [hash |-> Sibling(level[k - 1], at[k - 1]),
                                     right |-> at[k - 1] % 2 = 0]]

VerifyMerkleProof(leaf, proof, root) ==
    LET current[k \in 0..Len(proof)] ==
            IF k = 0 THEN leaf
            ELSE IF proof[k].right THEN HashPair(current[k - 1], proof[k].hash)
                                   ELSE HashPair(proof[k].hash, current[k - 1])
    IN  current[Len(proof)] = root

\* SourceMerkleTree::build: an entry for every file, sorted by path.
BuildTree ==
    LET entries[p \in 0..Sources] ==
            IF p = 0 THEN <<>>
            ELSE IF sources[p] = Absent THEN entries[p - 1]
            ELSE Append(entries[p - 1], [path |-> p, sha256 |-> HashFile(sources[p])])
    IN  entries[Sources]

Leaves(t) == [i \in DOMAIN t |-> t[i].sha256]
Position(t, p) ==
    LET found == {i \in DOMAIN t : t[i].path = p} IN IF found = {} THEN 0 ELSE Min(found)

\* The steps of xtask verify-source-file p, with content c on disk.
VerifySourceFile(t, p, c) ==
    LET i == Position(t, p) IN
    /\ i # 0 /\ t[i].sha256 = HashFile(c)
    /\ VerifyMerkleProof(t[i].sha256, MerkleProof(Leaves(t), i - 1), ComputeMerkleRoot(Leaves(t)))

-----------------------------------------------------------------------------
(* Release manifests.                                                      *)

NoTree == <<[path |-> 0, sha256 |-> <<>>]>>
NoManifest == [kind |-> "none"]
Torn == [kind |-> "torn"]     \* fs::write was cut short: not JSON
Slots == {"named", "generic"}
Present(f) == {p \in DOMAIN f : f[p] # Absent}

\* generate_release_manifest_for_entries.  lists: whether the other manifest,
\* which the walk of a package directory does not leave out, is an entry too.
GenerateReleaseManifest(signer, paths, lists) ==
    [kind |-> "release", signer |-> signer, lists |-> lists,
     entries |-> [p \in paths |-> package[p]]]

\* A named manifest comes first, even one that cannot be read.
ReleaseManifestPath == IF manifests.named # NoManifest THEN "named" ELSE "generic"

\* The generic manifest is only read where there is no named one to be hashed.
VerifyReleaseManifest(m) ==
    /\ \A p \in DOMAIN m.entries : package[p] = m.entries[p]
    /\ ~m.lists

\* Mutant: any signature that fits counts.
LoadAnySigner ==
    LET m == manifests[ReleaseManifestPath] IN
    IF m.kind # "release" THEN "unsigned"
    ELSE IF VerifyReleaseManifest(m) THEN "verified" ELSE "mismatch"

LoadAndVerifyReleaseManifest ==
    LET m == manifests[ReleaseManifestPath] IN
    IF m.kind # "release" THEN "unsigned"
    ELSE IF m.signer \in Trusted /\ VerifyReleaseManifest(m) THEN "verified" ELSE "mismatch"

-----------------------------------------------------------------------------
(* Steps.  "source" or "release" in parts says what is followed.           *)

IntegrityInit(parts) ==
    /\ sources \in IF "source" \in parts THEN [SourcePath -> Content \cup {Absent}]
                                         ELSE {[p \in SourcePath |-> Absent]}
    /\ package \in IF "release" \in parts THEN [bin : Content, data : Content \cup {Absent}]
                                          ELSE {[bin |-> Absent, data |-> Absent]}
    /\ tree = NoTree /\ manifests = [s \in Slots |-> NoManifest]
    /\ released = {} /\ status = "unknown" /\ changes = 0

EditSource(p, c) ==
    /\ Change
    /\ sources' = [sources EXCEPT ![p] = c]
    /\ UNCHANGED <<tree, releaseVars, status>>

XtaskSourceMerkleTree ==
    /\ Change
    /\ tree' = BuildTree
    /\ UNCHANGED <<sources, releaseVars, status>>

Install(p, c) ==
    /\ Change
    /\ package' = [package EXCEPT ![p] = c]
    /\ UNCHANGED <<sourceVars, manifests, released, status>>

RemoveManifest(slot) ==
    /\ Change
    /\ manifests' = [manifests EXCEPT ![slot] = NoManifest]
    /\ UNCHANGED <<sourceVars, package, released, status>>

\* xtask sign-release-manifest, for the binary or for the package directory;
\* the process may die while it writes the manifest.
SignReleaseManifest(signer, slot) ==
    LET m == IF slot = "named" THEN GenerateReleaseManifest(signer, {"bin"}, FALSE)
             ELSE GenerateReleaseManifest(signer, Present(package), manifests.named # NoManifest) IN
    /\ Change
    /\ \/ /\ manifests' = [manifests EXCEPT ![slot] = m]
          /\ released' = IF signer \in Trusted THEN released \cup {package.bin} ELSE released
       \/ /\ manifests' = [manifests EXCEPT ![slot] = Torn]
          /\ UNCHANGED released
    /\ UNCHANGED <<sourceVars, package, status>>

\* The first call decides what the process reports from then on.
RuntimeIntegrityInfo ==
    /\ status = "unknown"
    /\ status' = LoadAndVerifyReleaseManifest
    /\ UNCHANGED <<sourceVars, releaseVars, changes>>

IntegrityRestart == status' = "unknown" /\ UNCHANGED <<sourceVars, releaseVars, changes>>

IntegrityTypeOK ==
    /\ sources \in [SourcePath -> Content \cup {Absent}]
    /\ DOMAIN package = {"bin", "data"} /\ DOMAIN manifests = Slots
    /\ status \in {"unknown", "unsigned", "mismatch", "verified"}
    /\ changes \in 0..MaxChanges
=============================================================================
