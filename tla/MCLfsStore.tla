----------------------------- MODULE MCLfsStore -----------------------------
(* Small instance of LfsStore: contents whose deltas are small.  h3 is      *)
(* longer: a delta from h1 is not worth storing, and one from h2 is too     *)
(* small for decode to allocate enough.                                     *)
EXTENDS LfsStore

CONSTANTS h1, h2, h3

MCSize == [h \in Hash |-> IF h = h3 THEN 30 ELSE 10]
MCDeltaLen == [p \in Hash \X Hash |-> IF p[1] = h1 /\ p[2] = h3 THEN 24 ELSE 3]

\* Long chains and the deletions that break them.
Chains == [hashes |-> Hash, frames |-> {h1}, wrongSource |-> "junk", db |-> "sqlite",
           requests |-> {"lfs", "manifest", "delete"}, faults |-> {"insert", "remove"}, max |-> 5]

\* Every request and every fault.
Everything == [hashes |-> {h1, h2}, frames |-> {}, wrongSource |-> "error", db |-> "memory",
               requests |-> RequestKinds, faults |-> FaultKinds, max |-> 3]

MCConfigs == {Chains, Everything}

\* Nothing but LFS uploads.
UploadsOnly == {[Chains EXCEPT !.frames = {}, !.wrongSource = "error", !.requests = {"lfs"},
                               !.faults = {}, !.max = 4]}
=============================================================================
