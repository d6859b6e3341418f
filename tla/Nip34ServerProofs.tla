-------------------------- MODULE Nip34ServerProofs --------------------------
(***************************************************************************)
(* Invariance proofs for the relay policy and the git server, for every    *)
(* set of keys, addresses, requests, refs and oids and every configuration *)
(* of the relay.  The two halves share no variable, so each has its own    *)
(* step relation and its own inductive invariants.                         *)
(***************************************************************************)
EXTENDS Nip34Server, FiniteSetTheorems, TLAPS

\* What a step of the server does to the variables of the policy.
PolicyStep ==
    \/ \E a \in Addr, k \in Key, kind \in Kind, fits \in BOOLEAN :
          Admit(a, k, kind, fits) \/ Reject(a, k, kind, fits)
    \/ NextMinute \/ AdminStep \/ PolicyRestart
    \/ UNCHANGED policyVars

\* What a step of the server does to the variables of the git server.
RepositoryStep ==
    \/ \E ms \in Maintainers : StoreAnnouncement(ms)
    \/ \E k \in Author, at \in 1..MaxCreatedAt, rs \in StateRefs : StoreState(k, at, rs)
    \/ GitStep \/ GitRestart
    \/ UNCHANGED gitVars

\* Every step of the composition is a step of both halves.
LEMMA NextIsBoth == ASSUME [Next]_vars PROVE PolicyStep /\ RepositoryStep
<1> USE DEF PolicyStep, RepositoryStep
<1>1. ASSUME NEW a \in Addr, NEW k \in Key, Publish(a, k)
      PROVE  PolicyStep /\ RepositoryStep
  BY <1>1, CompositionAssumption, GitAssumption DEF Publish
<1>2. ASSUME NEW a \in Addr, NEW k \in Key, Refuse(a, k)
      PROVE  PolicyStep /\ RepositoryStep
  BY <1>2 DEF Refuse
<1>3. CASE (NextMinute \/ AdminStep) /\ UNCHANGED gitVars
  BY <1>3
<1>4. CASE GitStep /\ UNCHANGED policyVars
  BY <1>4
<1>5. CASE Restart
  BY <1>5 DEF Restart
<1>6. CASE UNCHANGED vars
  BY <1>6 DEF vars
<1> QED BY <1>1, <1>2, <1>3, <1>4, <1>5, <1>6 DEF Next
-----------------------------------------------------------------------------
(* The relay policy.                                                       *)

\* What pruning leaves of the counts: an address is forgotten only when its
\* window is not the current one.
LEMMA PruneForgetsOldWindows ==
  ASSUME PolicyTypeOK
  PROVE  /\ Prune \in [Addr -> Rates \cup {None}]
         /\ \A a \in Addr : \/ Prune[a] = rates[a]
                            \/ Prune[a] = None /\ rates[a].window # minute
BY DEF Prune, PolicyTypeOK

\* The counter after an event: the allowance already used in this minute, with
\* the event itself when it is within the rate.
LEMMA CountedOnce ==
  ASSUME PolicyTypeOK, config.rate # 0, NEW a \in Addr, CountEvent(a)
  PROVE  /\ Count(a) \in Nat /\ Count(a) <= config.rate
         /\ rates' \in [Addr -> Rates \cup {None}]
         /\ rates'[a] # None /\ rates'[a].window = minute
         /\ rates'[a].count = IF WithinRate(a) THEN Count(a) + 1 ELSE Count(a)
         /\ \A b \in Addr \ {a} : rates'[b] = Prune[b]
<1> USE PolicyAssumption, PruneForgetsOldWindows
<1>1. config.rate \in Nat /\ minute \in Nat
  BY DEF PolicyTypeOK
<1>2. Count(a) \in Nat /\ Count(a) <= config.rate
  BY <1>1 DEF Count, PolicyTypeOK, Rates
<1>3. rates'[a] = [window |-> minute,
                   count |-> Count(a) + (IF WithinRate(a) THEN 1 ELSE 0)]
  BY DEF CountEvent
<1>4. Count(a) + (IF WithinRate(a) THEN 1 ELSE 0) \in Nat
  BY <1>2
<1>5. rates'[a] \in Rates
  BY <1>1, <1>3, <1>4 DEF Rates
<1> QED BY <1>1, <1>2, <1>3, <1>5 DEF CountEvent

\* The policy's state is well-typed: counts never pass the configured rate, and
\* no window lies ahead of the clock.
LEMMA PolicyTyping == ASSUME PolicyTypeOK, PolicyStep PROVE PolicyTypeOK'
<1> USE PolicyAssumption
<1>1. config.rate \in Nat /\ minute \in Nat /\ config.lists \subseteq Entry
  BY DEF PolicyTypeOK
<1>2. ASSUME NEW a \in Addr, NEW k \in Key, NEW kind \in Kind, NEW fits \in BOOLEAN,
             Admit(a, k, kind, fits) \/ Reject(a, k, kind, fits)
      PROVE  PolicyTypeOK'
  <2>1. CountEvent(a) /\ UNCHANGED <<config, policy, table, request, unsaved, minute>>
    BY <1>2 DEF Admit, Reject
  <2>2. admitted' \in [Addr -> Nat]
    BY <1>2 DEF Admit, Reject, PolicyTypeOK
  <2>3. CASE config.rate = 0
    BY <2>1, <2>2, <2>3 DEF CountEvent, PolicyTypeOK
  <2>4. CASE config.rate # 0
    <3>1. ASSUME NEW b \in Addr, rates'[b] # None
          PROVE  rates'[b].window <= minute /\ rates'[b].count <= config.rate
      <4>1. CASE b = a
        <5>1. /\ Count(a) \in Nat /\ Count(a) <= config.rate
              /\ rates'[a].window = minute
              /\ rates'[a].count = IF WithinRate(a) THEN Count(a) + 1 ELSE Count(a)
          BY <2>1, <2>4, CountedOnce
        <5> QED BY <1>1, <2>4, <4>1, <5>1 DEF WithinRate
      <4>2. CASE b # a
        BY <2>1, <2>4, <3>1, <4>2, CountedOnce, PruneForgetsOldWindows DEF PolicyTypeOK
      <4> QED BY <4>1, <4>2
    <3> QED BY <2>1, <2>2, <2>4, <3>1, CountedOnce DEF PolicyTypeOK
  <2> QED BY <2>3, <2>4
<1>3. CASE NextMinute
  BY <1>1, <1>3 DEF NextMinute, PolicyTypeOK, Rates
<1>4. CASE AdminStep
  <2> PICK r \in AdminReq :
        \/ \E op \in {"add", "remove"}, e \in Entry, k \in Key : RequireRelayAdmin(r, op, e, k)
        \/ ChangePolicy(r) \/ SavePolicy(r) \/ GiveUp(r)
    BY <1>4 DEF AdminStep
  <2>1. ASSUME NEW op \in {"add", "remove"}, NEW e \in Entry, NEW k \in Key,
               RequireRelayAdmin(r, op, e, k)
        PROVE  PolicyTypeOK'
    BY <2>1 DEF RequireRelayAdmin, PolicyTypeOK, Requests
  <2>2. CASE ChangePolicy(r)
    <3>1. request[r] \in Requests
      BY <2>2 DEF ChangePolicy, PolicyTypeOK
    <3> QED BY <2>2, <3>1 DEF ChangePolicy, Edited, PolicyTypeOK, Requests
  <2>3. CASE SavePolicy(r)
    BY <2>3 DEF SavePolicy, Row, PolicyTypeOK, Requests
  <2>4. CASE GiveUp(r)
    BY <2>4 DEF GiveUp, PolicyTypeOK, Requests
  <2> QED BY <2>1, <2>2, <2>3, <2>4
<1>5. CASE PolicyRestart
  BY <1>1, <1>5 DEF PolicyRestart, LoadInto, PolicyTypeOK
<1>6. CASE UNCHANGED policyVars
  BY <1>6 DEF policyVars, PolicyTypeOK
<1> QED BY <1>2, <1>3, <1>4, <1>5, <1>6 DEF PolicyStep

\* The configured state is well-typed.
LEMMA PolicyInitTyping == ASSUME PolicyInit PROVE PolicyTypeOK
BY PolicyAssumption DEF PolicyInit, LoadInto, PolicyTypeOK

\* The strengthening of EventRateHeld: what was admitted from an address in this
\* minute is covered by the count the table keeps for it.
AdmittedAreCounted ==
    config.rate # 0 =>
        \A a \in Addr : admitted[a] <= IF rates[a] # None /\ rates[a].window = minute
                                         THEN rates[a].count ELSE 0

LEMMA CountsCover ==
  ASSUME PolicyTypeOK, AdmittedAreCounted, PolicyStep PROVE AdmittedAreCounted'
<1> USE PolicyAssumption
<1>1. config.rate \in Nat /\ minute \in Nat /\ admitted \in [Addr -> Nat]
  BY DEF PolicyTypeOK
<1>2. ASSUME NEW a \in Addr, NEW k \in Key, NEW kind \in Kind, NEW fits \in BOOLEAN,
             Admit(a, k, kind, fits) \/ Reject(a, k, kind, fits), config.rate # 0,
             NEW b \in Addr
      PROVE  (admitted[b] <= IF rates[b] # None /\ rates[b].window = minute
                              THEN rates[b].count ELSE 0)'
  <2>1. CountEvent(a) /\ UNCHANGED <<config, minute>>
    BY <1>2 DEF Admit, Reject
  <2>2. CASE b # a
    <3>1. rates'[b] = Prune[b] /\ admitted'[b] = admitted[b]
      BY <1>1, <1>2, <2>1, <2>2, CountedOnce DEF Admit, Reject
    <3> QED BY <1>2, <2>1, <3>1, PruneForgetsOldWindows DEF AdmittedAreCounted
  <2>3. CASE b = a
    <3>1. /\ rates'[a] # None /\ rates'[a].window = minute
          /\ rates'[a].count = IF WithinRate(a) THEN Count(a) + 1 ELSE Count(a)
          /\ Count(a) \in Nat
      BY <1>1, <1>2, <2>1, CountedOnce DEF Rates
    <3>2. admitted[a] <= Count(a)
      BY <1>1, <1>2, PruneForgetsOldWindows DEF AdmittedAreCounted, Count
    <3>3. admitted'[a] = admitted[a] \/ (WithinRate(a) /\ admitted'[a] = admitted[a] + 1)
      BY <1>1, <1>2 DEF Admit, Reject
    <3> QED BY <1>1, <2>1, <2>3, <3>1, <3>2, <3>3
  <2> QED BY <2>2, <2>3
<1>3. CASE NextMinute
  BY <1>1, <1>3 DEF NextMinute, AdmittedAreCounted, PolicyTypeOK, Rates
<1>4. CASE AdminStep
  BY <1>4 DEF AdminStep, RequireRelayAdmin, ChangePolicy, SavePolicy, GiveUp, AdmittedAreCounted
<1>5. CASE PolicyRestart
  BY <1>5 DEF PolicyRestart, AdmittedAreCounted
<1>6. CASE UNCHANGED policyVars
  BY <1>6 DEF policyVars, AdmittedAreCounted
<1>7. ASSUME NEW a \in Addr, NEW k \in Key, NEW kind \in Kind, NEW fits \in BOOLEAN,
             Admit(a, k, kind, fits) \/ Reject(a, k, kind, fits)
      PROVE  AdmittedAreCounted'
  BY <1>2, <1>7 DEF AdmittedAreCounted, Admit, Reject
<1> QED BY <1>3, <1>4, <1>5, <1>6, <1>7 DEF PolicyStep

\* Requests that have changed the list for e and not yet written the table.
Saving(e) == {r \in AdminReq : request[r] # None /\ request[r].pc = "save" /\ request[r].entry = e}

\* The strengthening of PolicySurvivesRestart: while rows of an entry are being
\* written, they all say what the live list says already, and a removal is of an
\* entry that the configuration does not bring back.
RowsFollowPolicy ==
    \A e \in Entry \ unsaved :
        /\ Saving(e) = {} => (e \in policy <=> e \in LoadInto(config, table))
        /\ \A r \in Saving(e) : /\ request[r].op = "add" <=> e \in policy
                                /\ request[r].op = "remove" => e \notin config.lists

LEMMA PolicyIsWritten ==
  ASSUME PolicyTypeOK, RowsFollowPolicy, PolicyStep PROVE RowsFollowPolicy'
<1> USE PolicyAssumption
<1>1. CASE AdminStep
  <2> PICK r \in AdminReq :
        \/ \E op \in {"add", "remove"}, e \in Entry, k \in Key : RequireRelayAdmin(r, op, e, k)
        \/ ChangePolicy(r) \/ SavePolicy(r) \/ GiveUp(r)
    BY <1>1 DEF AdminStep
  <2> USE DEF RowsFollowPolicy, Saving, PolicyTypeOK
  <2>1. ASSUME NEW op \in {"add", "remove"}, NEW e \in Entry, NEW k \in Key,
               RequireRelayAdmin(r, op, e, k)
        PROVE  RowsFollowPolicy'
    BY <2>1 DEF RequireRelayAdmin, Requests
  <2>2. CASE ChangePolicy(r)
    BY <2>2 DEF ChangePolicy, Edited, Rivals, Requests, LoadInto
  <2>3. CASE SavePolicy(r)
    <3>1. request[r] \in Requests /\ r \in Saving(request[r].entry)
      BY <2>3 DEF SavePolicy
    <3>2. ASSUME NEW e \in Entry PROVE Saving(e)' = Saving(e) \ {r}
      BY <2>3 DEF SavePolicy
    <3>3. \A e \in Entry : \A q \in Saving(e)' : request'[q] = request[q]
      BY <2>3, <3>2 DEF SavePolicy
    <3> SUFFICES ASSUME NEW e \in Entry, e \notin unsaved
                 PROVE  /\ Saving(e)' = {} => (e \in policy <=> e \in LoadInto(config, table'))
                        /\ \A q \in Saving(e)' : /\ request[q].op = "add" <=> e \in policy
                                                 /\ request[q].op = "remove" => e \notin config.lists
      BY <2>3, <3>3 DEF SavePolicy, LoadInto
    <3> HIDE DEF Saving
    <3>4. CASE e = request[r].entry
      <4>1. /\ request[r].op \in {"add", "remove"}
            /\ request[r].op = "add" <=> e \in policy
            /\ request[r].op = "remove" => e \notin config.lists
        <5>1. r \in Saving(e)
          BY <3>1, <3>4
        <5>2. \A q \in Saving(e) : /\ request[q].op = "add" <=> e \in policy
                                   /\ request[q].op = "remove" => e \notin config.lists
          BY DEF RowsFollowPolicy
        <5>3. request[r].op \in {"add", "remove"}
          BY <3>1 DEF Requests
        <5> QED BY <5>1, <5>2, <5>3
      <4>2. e \in table' <=> request[r].op = "add"
        BY <2>3, <3>4, <4>1 DEF SavePolicy, Row
      <4>3. e \in policy <=> e \in LoadInto(config, table')
        BY <4>1, <4>2 DEF LoadInto
      <4> QED BY <3>2, <4>3
    <3>5. CASE e # request[r].entry
      <4>1. r \notin Saving(e)
        BY <3>5 DEF Saving
      <4>2. e \in table' <=> e \in table
        BY <2>3, <3>5 DEF SavePolicy, Row
      <4> QED BY <3>2, <4>1, <4>2 DEF LoadInto
    <3> QED BY <3>4, <3>5
  <2>4. CASE GiveUp(r)
    BY <2>4 DEF GiveUp, Requests
  <2> QED BY <2>1, <2>2, <2>3, <2>4
<1>2. CASE PolicyRestart
  BY <1>2 DEF PolicyRestart, RowsFollowPolicy, Saving
<1>3. CASE UNCHANGED <<config, policy, table, request, unsaved>>
  BY <1>3 DEF RowsFollowPolicy, Saving
<1> QED BY <1>1, <1>2, <1>3 DEF PolicyStep, Admit, Reject, NextMinute, policyVars

\* The relay's promises, for every number of addresses and administrators: the
\* rate of every address is kept (EventRateHeld), and an entry that no endpoint is
\* writing and that unsaved does not name survives a restart.
PolicyInv == PolicyTypeOK /\ AdmittedAreCounted /\ RowsFollowPolicy

LEMMA PolicyInvariant == Spec => []PolicyInv
<1>1. Init => PolicyInv
  <2> SUFFICES ASSUME PolicyInit PROVE PolicyInv
    BY DEF Init
  <2>1. PolicyTypeOK
    BY PolicyInitTyping
  <2>2. AdmittedAreCounted
    BY DEF PolicyInit, AdmittedAreCounted
  <2>3. RowsFollowPolicy
    BY DEF PolicyInit, RowsFollowPolicy, Saving
  <2> QED BY <2>1, <2>2, <2>3 DEF PolicyInv
<1>2. PolicyInv /\ [Next]_vars => PolicyInv'
  BY NextIsBoth, PolicyTyping, CountsCover, PolicyIsWritten DEF PolicyInv
<1> QED BY <1>1, <1>2, PTL DEF Spec

\* However windows turn and addresses are forgotten, none has more events admitted
\* in a minute than the configuration says.
THEOREM EventRateIsHeld == Spec => []EventRateHeld
<1>1. PolicyInv => EventRateHeld
  <2> SUFFICES ASSUME PolicyInv, config.rate # 0, NEW a \in Addr PROVE admitted[a] <= config.rate
    BY DEF EventRateHeld
  <2>1. config.rate \in Nat /\ admitted[a] \in Nat
    BY PolicyAssumption DEF PolicyInv, PolicyTypeOK
  <2> QED BY <2>1 DEF PolicyInv, PolicyTypeOK, AdmittedAreCounted, Rates
<1> QED BY <1>1, PolicyInvariant, PTL

\* Apart from what unsaved names, a restart changes the policy in nothing that no
\* endpoint is just writing.
THEOREM RestartKeepsPolicy == Spec => []PolicySurvivesRestart
<1>1. PolicyInv => PolicySurvivesRestart
  BY DEF PolicyInv, RowsFollowPolicy, Saving, PolicySurvivesRestart
<1> QED BY <1>1, PolicyInvariant, PTL
-----------------------------------------------------------------------------
(* The git server.                                                         *)

\* The updates a push may have left: those of its body, less the refs that git has
\* moved already.
LEMMA UpdatesLeft ==
  /\ <<>> \in RefUpdates
  /\ \A u \in RefUpdates, r \in Ref : [q \in DOMAIN u \ {r} |-> u[q]] \in RefUpdates
  /\ \A u \in RefUpdates : DOMAIN u \subseteq Ref
<1>1. <<>> \in [{} -> (Oid \cup {Null}) \X (Oid \cup {Null})]
  OBVIOUS
<1>2. <<>> \in RefUpdates
  BY <1>1 DEF RefUpdates
<1>3. ASSUME NEW u \in RefUpdates, NEW r \in Ref
      PROVE  /\ [q \in DOMAIN u \ {r} |-> u[q]] \in RefUpdates
             /\ DOMAIN u \subseteq Ref
  <2>1. PICK D \in SUBSET Ref : u \in [D -> (Oid \cup {Null}) \X (Oid \cup {Null})]
    BY DEF RefUpdates
  <2>2. [q \in D \ {r} |-> u[q]] \in [D \ {r} -> (Oid \cup {Null}) \X (Oid \cup {Null})]
    BY <2>1
  <2> QED BY <2>1, <2>2 DEF RefUpdates
<1>4. \A u \in RefUpdates : DOMAIN u \subseteq Ref
  BY DEF RefUpdates
<1> QED BY <1>2, <1>3, <1>4

Request == [pc : Pcs, updates : RefUpdates, maintainers : SUBSET Author]

\* The git server's state is well-typed, whatever is cut short.
LEMMA GitTyping == ASSUME GitTypeOK, RepositoryStep PROVE GitTypeOK'
<1> USE GitAssumption DEF GitTypeOK
<1>1. Idle \in Request
  BY UpdatesLeft DEF Idle, Request, Pcs
<1>2. ASSUME NEW c \in Client, Leave(c)
      PROVE  /\ client' \in [Client -> Request] /\ permit' = Null
             /\ running' \subseteq Client \cup Visitor
  BY <1>1, <1>2 DEF Leave, Request
<1>3. ASSUME NEW c \in Client, NEW p \in Pcs, Goto(c, p)
      PROVE  client' \in [Client -> Request]
  BY <1>3 DEF Goto, Request
<1>4. ASSUME NEW k \in Author, NEW at \in 1..MaxCreatedAt, NEW rs \in StateRefs, StoreState(k, at, rs)
      PROVE  GitTypeOK'
  <2>1. {<<r, rs[r]>> : r \in {q \in Ref : rs[q] # Null}} \subseteq Ref \X Oid
    OBVIOUS
  <2> QED BY <1>4, <2>1 DEF StoreState
<1>5. ASSUME NEW ms \in Maintainers, StoreAnnouncement(ms) PROVE GitTypeOK'
  BY <1>5 DEF StoreAnnouncement
<1>6. ASSUME NEW c \in Client, NEW k \in Author, NEW u \in Updates, PushArrives(c, k, u)
      PROVE  GitTypeOK'
  <2>1. [Idle EXCEPT !.pc = "body", !.updates = u] \in Request
    BY <1>1 DEF Request, Pcs
  <2> QED BY <1>6, <2>1 DEF PushArrives, Request
<1>7. ASSUME NEW c \in Client, FetchArrives(c) PROVE GitTypeOK'
  BY <1>7 DEF FetchArrives, Pcs
<1>8. ASSUME NEW c \in Client, BodyRead(c) PROVE GitTypeOK'
  BY <1>3, <1>8 DEF BodyRead, Pcs, Request
<1>9. ASSUME NEW c \in Client, StartGit(c) PROVE GitTypeOK'
  BY <1>3, <1>9 DEF StartGit, Pcs, Request
<1>10. ASSUME NEW c \in Client, GitInitHead(c) PROVE GitTypeOK'
  BY <1>10 DEF GitInitHead
<1>11. ASSUME NEW c \in Client, GitInitDone(c) PROVE GitTypeOK'
  BY <1>3, <1>11 DEF GitInitDone, Pcs, Request
<1>12. ASSUME NEW c \in Client, GitInitFails(c) PROVE GitTypeOK'
  BY <1>2, <1>12 DEF GitInitFails, Request
<1>13. ASSUME NEW c \in Client, CheckEmpty(c) PROVE GitTypeOK'
  BY <1>3, <1>13 DEF CheckEmpty, Pcs, Request
<1>14. ASSUME NEW c \in Client, FindAnnouncement(c) PROVE GitTypeOK'
  <2>1. CASE announcement = Null
    BY <1>2, <1>14, <2>1 DEF FindAnnouncement, Request
  <2>2. CASE announcement # Null
    BY <1>14, <2>2 DEF FindAnnouncement, Pcs
  <2> QED BY <2>1, <2>2
<1>15. ASSUME NEW c \in Client, FindState(c) PROVE GitTypeOK'
  BY <1>2, <1>3, <1>15 DEF FindState, Pcs, Request
<1>16. ASSUME NEW c \in Client, NEW r \in Ref, ReceiveRef(c, r) PROVE GitTypeOK'
  <2> DEFINE u == client[c].updates
  <2>1. u \in RefUpdates /\ [q \in DOMAIN u \ {r} |-> u[q]] \in RefUpdates
    BY UpdatesLeft
  <2>2. client' \in [Client -> Request]
    BY <1>16, <2>1 DEF ReceiveRef, Request
  <2>3. u[r] \in (Oid \cup {Null}) \X (Oid \cup {Null})
    BY <1>16, <2>1 DEF ReceiveRef, RefUpdates
  <2>4. refs' \in [Ref -> Oid \cup {Null}] /\ packed' \subseteq {q \in Ref : refs'[q] # Null}
    BY <1>16, <2>3 DEF ReceiveRef
  <2> QED BY <1>16, <2>2, <2>4 DEF ReceiveRef, Request
<1>17. ASSUME NEW c \in Client, GitDone(c) \/ GitTimeout(c) \/ Abort(c) PROVE GitTypeOK'
  BY <1>2, <1>17 DEF GitDone, GitTimeout, Abort, Request
<1>18. ASSUME NEW v \in Visitor, InfoRefs(v) \/ AdvertiseRefs(v) \/ AdvertiseDone(v) PROVE GitTypeOK'
  BY <1>18 DEF InfoRefs, AdvertiseRefs, AdvertiseDone
<1>19. CASE PackRefs
  BY <1>19 DEF PackRefs
<1>20. CASE GitRestart
  BY <1>1, <1>20 DEF GitRestart, Request
<1>21. CASE UNCHANGED gitVars
  BY <1>21 DEF gitVars
<1> QED BY <1>4, <1>5, <1>6, <1>7, <1>8, <1>9, <1>10, <1>11, <1>12, <1>13, <1>14, <1>15, <1>16,
           <1>17, <1>18, <1>19, <1>20, <1>21 DEF RepositoryStep, GitStep, Progress

\* A semaphore of n permits, of which the set S holds one each.
LEMMA Permits ==
  ASSUME NEW S, IsFiniteSet(S), NEW n \in Nat, Cardinality(S) <= n, NEW x
  PROVE  /\ IsFiniteSet(S \ {x}) /\ Cardinality(S \ {x}) <= n
         /\ IsFiniteSet(S \cup {x})
         /\ Cardinality(S) < n => Cardinality(S \cup {x}) <= n
<1>1. Cardinality(S) \in Nat
  BY FS_CardinalityType
<1>2. IsFiniteSet(S \ {x}) /\ Cardinality(S \ {x}) = IF x \in S THEN Cardinality(S) - 1 ELSE Cardinality(S)
  BY FS_RemoveElement
<1>3. IsFiniteSet(S \cup {x}) /\ Cardinality(S \cup {x}) = IF x \in S THEN Cardinality(S) ELSE Cardinality(S) + 1
  BY FS_AddElement
<1> QED BY <1>1, <1>2, <1>3

\* The strengthening of OnePackBuffered: the processes are finitely many, so that
\* their number is one.
PackInv == OnePackBuffered /\ IsFiniteSet(running)

LEMMA PacksBounded == ASSUME GitTypeOK, PackInv, RepositoryStep PROVE PackInv'
<1> USE GitAssumption DEF GitTypeOK, PackInv, OnePackBuffered
\* A handler that ends gives back what it holds, and nobody else holds anything.
<1>1. ASSUME NEW c \in Client, client[c].pc # "idle", Leave(c) PROVE PackInv'
  <2>1. IsFiniteSet(running') /\ Cardinality(running') <= GitProcesses
    BY <1>1, Permits DEF Leave
  <2> QED BY <1>1, <2>1 DEF Leave, Idle
\* A handler that goes on without a process of its own.
<1>2. ASSUME NEW c \in Client, NEW p, client[c].pc \notin {"idle", "receive", "upload"}, Goto(c, p),
             UNCHANGED <<permit, running>>
      PROVE  PackInv'
  BY <1>2 DEF Goto
\* One more process, while the semaphore has a permit.
<1>3. ASSUME NEW x, Cardinality(running) < GitProcesses
      PROVE  /\ IsFiniteSet(running \cup {x})
             /\ Cardinality(running \cup {x}) <= GitProcesses
  BY <1>3, Permits
<1>4. CASE \E ms \in Maintainers : StoreAnnouncement(ms)
  BY <1>4 DEF StoreAnnouncement
<1>5. CASE \E k \in Author, at \in 1..MaxCreatedAt, rs \in StateRefs : StoreState(k, at, rs)
  BY <1>5 DEF StoreState
<1>6. ASSUME NEW c \in Client, NEW k \in Author, NEW u \in Updates, PushArrives(c, k, u)
      PROVE  PackInv'
  BY <1>6 DEF PushArrives, Idle
<1>7. ASSUME NEW c \in Client, FetchArrives(c) PROVE PackInv'
  BY <1>7 DEF FetchArrives, Idle
<1>8. ASSUME NEW c \in Client, BodyRead(c) PROVE PackInv'
  BY <1>2, <1>8 DEF BodyRead
<1>9. ASSUME NEW c \in Client, StartGit(c) PROVE PackInv'
  <2>1. IsFiniteSet(running') /\ Cardinality(running') <= GitProcesses
    BY <1>3, <1>9 DEF StartGit
  <2>2. /\ client[c].pc \in {"git", "upload"} /\ client'[c].pc \in {"receive", "upload"}
        /\ \A d \in Client \ {c} : client'[d] = client[d]
        /\ permit' = permit /\ running' = running \cup {c}
    BY <1>9 DEF StartGit, Goto
  <2> QED BY <2>1, <2>2
<1>10. ASSUME NEW c \in Client, GitInitHead(c) PROVE PackInv'
  BY <1>10 DEF GitInitHead
<1>11. ASSUME NEW c \in Client, GitInitDone(c) PROVE PackInv'
  <2>1. CASE client[c].pc = "init"
    BY <1>2, <1>11, <2>1 DEF GitInitDone
  <2>2. CASE client[c].pc # "init"
    BY <1>11, <2>2 DEF GitInitDone
  <2> QED BY <2>1, <2>2
<1>12. ASSUME NEW c \in Client, GitInitFails(c) PROVE PackInv'
  <2>1. CASE client[c].pc = "init"
    BY <1>1, <1>12, <2>1 DEF GitInitFails
  <2>2. CASE client[c].pc # "init"
    BY <1>12, <2>2 DEF GitInitFails
  <2> QED BY <2>1, <2>2
<1>13. ASSUME NEW c \in Client, CheckEmpty(c) PROVE PackInv'
  BY <1>2, <1>13 DEF CheckEmpty
<1>14. ASSUME NEW c \in Client, FindAnnouncement(c) PROVE PackInv'
  <2>1. CASE announcement = Null
    BY <1>1, <1>14, <2>1 DEF FindAnnouncement
  <2>2. CASE announcement # Null
    BY <1>14, <2>2 DEF FindAnnouncement
  <2> QED BY <2>1, <2>2
<1>15. ASSUME NEW c \in Client, FindState(c) PROVE PackInv'
  BY <1>1, <1>2, <1>15 DEF FindState
<1>16. ASSUME NEW c \in Client, NEW r \in Ref, ReceiveRef(c, r) PROVE PackInv'
  BY <1>16 DEF ReceiveRef
<1>17. ASSUME NEW c \in Client, GitDone(c) \/ GitTimeout(c) \/ Abort(c) PROVE PackInv'
  <2>1. client[c].pc # "idle" /\ Leave(c)
    BY <1>17 DEF GitDone, GitTimeout, Abort
  <2> QED BY <1>1, <2>1
<1>18. ASSUME NEW v \in Visitor, InfoRefs(v) \/ AdvertiseRefs(v) \/ AdvertiseDone(v) PROVE PackInv'
  <2>1. CASE InfoRefs(v)
    BY <2>1 DEF InfoRefs
  <2>2. CASE AdvertiseRefs(v)
    BY <1>3, <2>2 DEF AdvertiseRefs
  <2>3. CASE AdvertiseDone(v)
    <3>1. IsFiniteSet(running') /\ Cardinality(running') <= GitProcesses
      BY <2>3, Permits DEF AdvertiseDone
    <3> QED BY <2>3, <3>1 DEF AdvertiseDone
  <2> QED BY <1>18, <2>1, <2>2, <2>3
<1>19. CASE PackRefs
  BY <1>19 DEF PackRefs
<1>20. CASE GitRestart
  <2>1. IsFiniteSet(running') /\ Cardinality(running') = 0
    BY <1>20, FS_EmptySet DEF GitRestart
  <2> QED BY <1>20, <2>1 DEF GitRestart, Idle
<1>21. CASE UNCHANGED gitVars
  BY <1>21 DEF gitVars
<1> QED BY <1>4, <1>5, <1>6, <1>7, <1>8, <1>9, <1>10, <1>11, <1>12, <1>13, <1>14, <1>15, <1>16,
           <1>17, <1>18, <1>19, <1>20, <1>21 DEF RepositoryStep, GitStep, Progress

\* What makes MovesFollowStateEvents inductive: the state events that the relay
\* keeps are among the declared ones.
MovesInv ==
    /\ MovesFollowStateEvents
    /\ \A k \in Author : states[k] # Null =>
         \A r \in Ref : states[k].refs[r] # Null => <<r, states[k].refs[r]>> \in declared

\* A push that passed its check keeps the permit, so no other push gives the
\* repository a branch before git has it.
LEMMA MovesStayDeclared ==
  ASSUME GitTypeOK, PackInv, MovesInv, RepositoryStep
  PROVE  MovesInv'
<1> USE GitAssumption DEF GitTypeOK, MovesInv, MovesFollowStateEvents

\* A step that leaves the refs and the events alone and lets no push through.
<1>1. ASSUME UNCHANGED <<states, declared, refs, packed>>,
             \A c \in Client : client'[c].pc = "git" => client'[c] = client[c]
      PROVE  MovesInv'
  BY <1>1 DEF IsEmptyRepo
<1>2. ASSUME NEW c \in Client, Leave(c), UNCHANGED <<states, declared, refs, packed>> PROVE MovesInv'
  <2>1. \A d \in Client : client'[d].pc = "git" => client'[d] = client[d]
    BY <1>2 DEF Leave, Idle
  <2> QED BY <1>1, <1>2, <2>1
<1>3. ASSUME NEW c \in Client, NEW p, p # "git", Goto(c, p), UNCHANGED <<states, declared, refs, packed>>
      PROVE  MovesInv'
  <2>1. \A d \in Client : client'[d].pc = "git" => client'[d] = client[d]
    BY <1>3 DEF Goto
  <2> QED BY <1>1, <1>3, <2>1
<1>4. CASE \E ms \in Maintainers : StoreAnnouncement(ms)
  BY <1>1, <1>4 DEF StoreAnnouncement
<1>5. ASSUME NEW k \in Author, NEW at \in 1..MaxCreatedAt, NEW rs \in StateRefs, StoreState(k, at, rs)
      PROVE  MovesInv'
  <2>1. declared \subseteq declared'
    BY <1>5 DEF StoreState
  <2>2. MovesFollowStateEvents'
    BY <1>5, <2>1 DEF StoreState, IsEmptyRepo
  <2>3. \A r \in Ref : rs[r] # Null => <<r, rs[r]>> \in declared'
    BY <1>5 DEF StoreState
  <2>4. states'[k].refs = rs /\ \A j \in Author \ {k} : states'[j] = states[j]
    BY <1>5 DEF StoreState
  <2> QED BY <2>1, <2>2, <2>3, <2>4
<1>6. ASSUME NEW c \in Client, NEW k \in Author, NEW u \in Updates, PushArrives(c, k, u)
      PROVE  MovesInv'
  <2>1. \A d \in Client : client'[d].pc = "git" => client'[d] = client[d]
    BY <1>6 DEF PushArrives, Idle
  <2> QED BY <1>1, <1>6, <2>1 DEF PushArrives
<1>7. ASSUME NEW c \in Client, FetchArrives(c) PROVE MovesInv'
  <2>1. \A d \in Client : client'[d].pc = "git" => client'[d] = client[d]
    BY <1>7 DEF FetchArrives, Idle
  <2> QED BY <1>1, <1>7, <2>1 DEF FetchArrives
<1>8. ASSUME NEW c \in Client, BodyRead(c) PROVE MovesInv'
  BY <1>3, <1>8 DEF BodyRead
<1>9. ASSUME NEW c \in Client, StartGit(c) PROVE MovesInv'
  <2>1. \A d \in Client : client'[d].pc = "git" => client'[d] = client[d]
    BY <1>9 DEF StartGit, Goto
  <2> QED BY <1>1, <1>9, <2>1 DEF StartGit
<1>10. ASSUME NEW c \in Client, GitInitHead(c) PROVE MovesInv'
  BY <1>1, <1>10 DEF GitInitHead
<1>11. ASSUME NEW c \in Client, GitInitDone(c) PROVE MovesInv'
  <2>1. \A d \in Client : client'[d].pc = "git" => client'[d] = client[d]
    BY <1>11 DEF GitInitDone, Goto
  <2> QED BY <1>1, <1>11, <2>1 DEF GitInitDone
<1>12. ASSUME NEW c \in Client, GitInitFails(c) PROVE MovesInv'
  <2>1. \A d \in Client : client'[d].pc = "git" => client'[d] = client[d]
    <3>1. CASE client[c].pc = "init"
      BY <1>12, <3>1 DEF GitInitFails, Leave, Idle
    <3>2. CASE client[c].pc # "init"
      BY <1>12, <3>2 DEF GitInitFails
    <3> QED BY <3>1, <3>2
  <2> QED BY <1>1, <1>12, <2>1 DEF GitInitFails
\* An unchecked push: the repository shows no branch.
<1>13. ASSUME NEW c \in Client, CheckEmpty(c) PROVE MovesInv'
  <2>1. UNCHANGED <<states, declared, refs, packed>> /\ IsEmptyRepo' = IsEmptyRepo
    BY <1>13 DEF CheckEmpty, IsEmptyRepo
  <2>2. CASE IsEmptyRepo
    <3>1. MovesFollowStateEvents'
      BY <2>1, <2>2
    <3> QED BY <2>1, <3>1
  <2>3. CASE ~IsEmptyRepo
    BY <1>3, <1>13, <2>3 DEF CheckEmpty
  <2> QED BY <2>2, <2>3
<1>14. ASSUME NEW c \in Client, FindAnnouncement(c) PROVE MovesInv'
  <2>1. \A d \in Client : client'[d].pc = "git" => client'[d] = client[d]
    BY <1>14 DEF FindAnnouncement, Leave, Idle
  <2> QED BY <1>1, <1>14, <2>1 DEF FindAnnouncement
\* A checked push: each of its moves is the one its state event declares.
<1>15. ASSUME NEW c \in Client, FindState(c) PROVE MovesInv'
  <2>1. UNCHANGED <<states, declared, refs, packed>>
    BY <1>15 DEF FindState
  <2>2. CASE Leave(c)
    BY <1>2, <2>1, <2>2
  <2>3. ASSUME NEW s \in NewestState(client[c].maintainers), Matches(client[c].updates, s), Goto(c, "git")
        PROVE  MovesInv'
    <3>1. PICK k \in Author : s = states[k] /\ states[k] # Null
      BY <2>3 DEF NewestState
    <3>2. client[c].updates \in RefUpdates
      OBVIOUS
    <3>3. DOMAIN client[c].updates \subseteq Ref
      BY <3>2 DEF RefUpdates
    <3>4. ASSUME NEW r \in DOMAIN client[c].updates
          PROVE  LET u == client[c].updates[r] IN Null \in {u[1], u[2]} \/ <<r, u[2]>> \in declared
      <4>1. CheckRefUpdate(client[c].updates[r], states[k].refs[r]) /\ r \in Ref
        BY <2>3, <3>1, <3>3 DEF Matches
      <4>2. states[k].refs[r] # Null => <<r, states[k].refs[r]>> \in declared
        BY <3>1, <4>1
      <4> HIDE DEF GitTypeOK, MovesInv, MovesFollowStateEvents
      <4> QED BY <4>1, <4>2 DEF CheckRefUpdate
    <3>5. client'[c].updates = client[c].updates /\ \A d \in Client \ {c} : client'[d] = client[d]
      BY <2>3 DEF Goto
    <3>6. IsEmptyRepo' = IsEmptyRepo
      BY <2>1 DEF IsEmptyRepo
    <3> QED BY <2>1, <3>4, <3>5, <3>6
  <2> QED BY <1>15, <2>2, <2>3 DEF FindState
\* A ref moves: it belongs to the one push that holds the permit.
<1>16. ASSUME NEW c \in Client, NEW r \in Ref, ReceiveRef(c, r) PROVE MovesInv'
  <2>1. permit = c /\ \A d \in Client : client[d].pc = "git" => d = c
    BY <1>16 DEF ReceiveRef, PackInv, OnePackBuffered
  <2>2. \A d \in Client : client'[d].pc # "git"
    BY <1>16, <2>1 DEF ReceiveRef
  <2> QED BY <1>16, <2>2 DEF ReceiveRef
<1>17. ASSUME NEW c \in Client, GitDone(c) \/ GitTimeout(c) \/ Abort(c) PROVE MovesInv'
  BY <1>2, <1>17 DEF GitDone, GitTimeout, Abort
<1>18. ASSUME NEW v \in Visitor, InfoRefs(v) \/ AdvertiseRefs(v) \/ AdvertiseDone(v) PROVE MovesInv'
  BY <1>1, <1>18 DEF InfoRefs, AdvertiseRefs, AdvertiseDone
\* Packed refs look like no refs at all.
<1>19. CASE PackRefs
  BY <1>19 DEF PackRefs, IsEmptyRepo, Ref
<1>20. CASE GitRestart
  <2>1. \A d \in Client : client'[d].pc # "git"
    BY <1>20 DEF GitRestart, Idle
  <2> QED BY <1>1, <1>20, <2>1 DEF GitRestart
<1>21. CASE UNCHANGED gitVars
  BY <1>1, <1>21 DEF gitVars
<1> QED BY <1>4, <1>5, <1>6, <1>7, <1>8, <1>9, <1>10, <1>11, <1>12, <1>13, <1>14, <1>15, <1>16,
           <1>17, <1>18, <1>19, <1>20, <1>21 DEF RepositoryStep, GitStep, Progress

GitInv == GitTypeOK /\ PackInv /\ MovesInv

LEMMA GitInvariant == Spec => []GitInv
<1>1. Init => GitInv
  <2> SUFFICES ASSUME GitInit PROVE GitInv
    BY DEF Init
  <2> USE GitAssumption DEF GitInit, Idle
  <2>1. client \in [Client -> Request]
    BY UpdatesLeft DEF Request, Pcs
  <2>2. GitTypeOK
    <3>1. client \in [Client -> [pc : Pcs, updates : RefUpdates, maintainers : SUBSET Author]]
      BY <2>1 DEF Request
    <3>2. announcement \in (SUBSET Author) \cup {Null}
      OBVIOUS
    <3>3. /\ states \in [Author -> [at : 1..MaxCreatedAt, refs : StateRefs] \cup {Null}]
          /\ visit \in [Visitor -> {"idle", "waiting", "git"}]
      OBVIOUS
    <3>4. /\ declared \subseteq Ref \X Oid
          /\ repo \in {"none", "partial", "ready"} /\ inits \subseteq Client
          /\ refs \in [Ref -> Oid \cup {Null}] /\ packed \subseteq {r \in Ref : refs[r] # Null}
          /\ permit \in Client \cup {Null} /\ running \subseteq Client \cup Visitor
      OBVIOUS
    <3> HIDE DEF GitInit
    <3> QED BY <3>1, <3>2, <3>3, <3>4 DEF GitTypeOK
  <2>3. IsFiniteSet(running) /\ Cardinality(running) = 0
    BY FS_EmptySet
  <2>4. PackInv
    <3>1. GitProcesses \in Nat /\ running = {} /\ \A c \in Client : client[c].pc = "idle"
      OBVIOUS
    <3> HIDE DEF GitInit
    <3> QED BY <2>3, <3>1 DEF PackInv, OnePackBuffered
  <2>5. MovesInv
    BY DEF MovesInv, MovesFollowStateEvents
  <2> QED BY <2>2, <2>4, <2>5 DEF GitInv
<1>2. GitInv /\ [Next]_vars => GitInv'
  BY NextIsBoth, GitTyping, PacksBounded, MovesStayDeclared DEF GitInv
<1> QED BY <1>1, <1>2, PTL DEF Spec

\* One pack is in memory and no more git processes run than the limit, for any
\* number of clients, visitors and processes and however requests end.
THEOREM PackMemoryIsBounded == Spec => []OnePackBuffered
<1>1. GitInv => OnePackBuffered
  BY DEF GitInv, PackInv
<1> QED BY <1>1, GitInvariant, PTL

\* What git is about to move in a repository that shows a branch was declared by a
\* state event.
THEOREM MovesWereDeclared == Spec => []MovesFollowStateEvents
<1>1. GitInv => MovesFollowStateEvents
  BY DEF GitInv, MovesInv
<1> QED BY <1>1, GitInvariant, PTL

\* Every variable of the relay policy and of the git server keeps its type.
THEOREM TypeCorrect == Spec => []TypeOK
<1>1. PolicyInv /\ GitInv => TypeOK
  BY DEF PolicyInv, GitInv, TypeOK
<1> QED BY <1>1, PolicyInvariant, GitInvariant, PTL
=============================================================================
