-------------------------- MODULE MCStorageBackends --------------------------
(***************************************************************************)
(* One blob, stored as its content or in one encoding.  A call reads and   *)
(* writes what belongs to its own hash only, and there is one call at a    *)
(* time, so more blobs multiply the states and add no interaction.         *)
(***************************************************************************)
EXTENDS StorageBackends

CONSTANTS h1, raw, encoded, none, torn
=============================================================================
