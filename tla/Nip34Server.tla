----------------------------- MODULE Nip34Server -----------------------------
(***************************************************************************)
(* The NIP-34 half of the server: the relay admits events under its write  *)
(* policy and stores them, and the git server checks pushes against the    *)
(* stored events.  A restart ends both.                                    *)
(***************************************************************************)
EXTENDS RelayPolicy, GitServer

CONSTANTS Pushing   \* configurations in which the repository is used (a bound)

ASSUME CompositionAssumption == Author \subseteq Key /\ {"announcement", "state"} \subseteq Kind

vars == <<policyVars, gitVars>>

Init == PolicyInit /\ GitInit

\* An event arrives over the WebSocket and passes the policy.
Publish(a, k) ==
    \/ \E ms \in Maintainers :
         /\ config \in Pushing /\ k = Owner
         /\ Admit(a, k, "announcement", TRUE) /\ StoreAnnouncement(ms)
    \/ \E at \in 1..MaxCreatedAt, rs \in StateRefs :
         /\ config \in Pushing /\ k \in Author
         /\ Admit(a, k, "state", TRUE) /\ StoreState(k, at, rs)
    \/ \E kind \in Kind \ {"announcement", "state"}, fits \in BOOLEAN :
         Admit(a, k, kind, fits) /\ UNCHANGED gitVars

Refuse(a, k) ==
    /\ \E kind \in Kind, fits \in BOOLEAN : Reject(a, k, kind, fits)
    /\ UNCHANGED gitVars

Restart == PolicyRestart /\ GitRestart

Next ==
    \/ \E a \in Addr, k \in Key : Publish(a, k) \/ Refuse(a, k)
    \/ (NextMinute \/ AdminStep) /\ UNCHANGED gitVars
    \/ config \in Pushing /\ GitStep /\ UNCHANGED policyVars
    \/ Restart

Spec == Init /\ [][Next]_vars /\ GitFairness

TypeOK == PolicyTypeOK /\ GitTypeOK
=============================================================================
