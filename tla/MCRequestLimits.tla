-------------------------- MODULE MCRequestLimits --------------------------
(* Two HTTP requests, two streams, and more tasks than media permits. *)
EXTENDS RequestLimits

CONSTANTS h1, h2, s1, s2, w1, w2
=============================================================================
