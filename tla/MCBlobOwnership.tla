--------------------------- MODULE MCBlobOwnership ---------------------------
(* Small instance of BlobOwnership: two contents of different lengths, a    *)
(* quota that fits the larger one but not both.                             *)
EXTENDS BlobOwnership, FiniteSetsExt, TLC

CONSTANTS h1, h2

MCSize == (h1 :> 1) @@ (h2 :> 2)
MCTotal(S) == MapThenSumSet(LAMBDA h : MCSize[h], S)

Symmetric == Permutations(User) \cup Permutations(Conn)
=============================================================================
