-------------------------- MODULE ContentAddresses --------------------------
(* The names of blobs, shared by what stores them and what encodes them.    *)
CONSTANTS
    Hash,   \* content addresses
    None    \* an absent blob, tag, field, call or result
=============================================================================
