--------------------------- MODULE MCReplayCache ---------------------------
(* A cache of three entries, two per principal, and two principals. *)
EXTENDS ReplayCache, TLC

CONSTANTS s1, s2

MCEvent == {"a1", "a2", "a3", "b1", "b2"}
MCPrincipalOf == [e \in MCEvent |-> IF e \in {"b1", "b2"} THEN "b" ELSE "a"]
MCCreatedAt == [e \in MCEvent |-> CASE e = "a1" -> 1 [] e = "a2" -> 1
                                    [] e = "a3" -> 2 [] e = "b1" -> 1 [] e = "b2" -> 4]

\* Requests in flight are alike.
SlotSymmetry == Permutations({s1, s2})
=============================================================================
