--------------------------- MODULE MCBlobClients ---------------------------
(* Two HTTP servers and a peer, under every configuration the builder makes. *)
EXTENDS BlobClients

CONSTANTS h1, h2, peer

MCHttpServers == <<h1, h2>>

\* http_only; new; new with iroh_only; new with force_http; http_only with iroh_only.
MCClients == {[iroh |-> FALSE, up |-> "Http", down |-> "Http"],
              [iroh |-> TRUE, up |-> "Iroh", down |-> "Http"],
              [iroh |-> TRUE, up |-> "Iroh", down |-> "Iroh"],
              [iroh |-> TRUE, up |-> "Http", down |-> "Http"],
              [iroh |-> FALSE, up |-> "Iroh", down |-> "Iroh"]}
=============================================================================
