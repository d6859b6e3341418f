---------------------------- MODULE ReplayCache ----------------------------
(***************************************************************************)
(* Signed authorization events are used at most once. Every front end      *)
(* verifies the event's validity window and then enters the event's id in  *)
(* a bounded, process-wide cache; an id that is already there is refused.  *)
(* Three implementations of the cache exist and are modelled side by side: *)
(*   "http"  src/server/mod.rs (and, line for line the same,               *)
(*           blossom-nip34/src/git_server/mod.rs): entries, insertion      *)
(*           order and a queue of ids per principal; an id that is evicted *)
(*           by its own principal stays in the insertion order;            *)
(*   "iroh"  src/transport/iroh_transport.rs: entries, order, and a count  *)
(*           per principal; an evicted id leaves the order as well;        *)
(*   "admin" blossom-nip34/src/relay/admin.rs: entries and order only.     *)
(*                                                                         *)
(* Requests run concurrently. Over HTTP the claims are verified again in   *)
(* the same step that marks the event (after the body was read); over iroh *)
(* the verified event is marked later, after the wait for the state lock,  *)
(* but within the stream's timeout.                                        *)
(***************************************************************************)
EXTENDS Integers, Sequences, Functions, FiniteSets

CONSTANTS
    Event, Principal,
    PrincipalOf,   \* [Event -> Principal]: event.pubkey
    CreatedAt,     \* [Event -> Nat]: event.created_at
    Kinds,         \* the implementations of this instance
    Future, Age,   \* accepted clock skew and age (30 and 60 seconds)
    Ttl,           \* how long an entry is kept (120 seconds)
    Timeout,       \* STREAM_TIMEOUT of iroh (30 seconds)
    Capacity,      \* REPLAY_CACHE_CAPACITY (10 000)
    PerPrincipal,  \* REPLAY_CACHE_PER_PRINCIPAL (256)
    Slot,          \* bound: requests in flight
    MaxNow,        \* bound: the clock
    MaxCommits     \* bound: events accepted in a behaviour

ASSUME ReplayAssumption ==
    /\ PrincipalOf \in [Event -> Principal] /\ CreatedAt \in [Event -> Nat]
    /\ Kinds \subseteq {"http", "iroh", "admin"}
    /\ Future \in Nat /\ Age \in Nat /\ Ttl \in Nat /\ Timeout \in Nat
    /\ Capacity \in Nat \ {0} /\ PerPrincipal \in Nat \ {0}
    /\ MaxNow \in Nat /\ MaxCommits \in Nat

\* What at-most-once rests on: an entry outlives the validity of its event
\* (30 + 60 against 120 seconds).
ASSUME EntriesOutliveEvents == Future + Age < Ttl

VARIABLES
    kind,       \* the implementation, chosen once
    entries,    \* id -> expires_at, on the ids present
    order,      \* insertion_order / order
    queues,     \* by_principal of "http": the ids of each principal, oldest first
    counts,     \* per_principal of "iroh"
    now,        \* seconds
    slots,      \* requests in flight: the event and when it was verified
    used,       \* history: how often this process accepted each event
    ownSince,   \* history: acceptances of the same principal since the first
    allSince    \* history: acceptances of anyone since the first

cacheVars == <<entries, order, queues, counts>>
history == <<used, ownSince, allSince>>
vars == <<kind, cacheVars, now, slots, history>>

Free == [event |-> "free"]
Cache == [entries |-> entries, order |-> order, queues |-> queues, counts |-> counts]

-----------------------------------------------------------------------------
\* The validity window common to all verifiers; the expiration tag that some
\* require can only narrow it.
Valid(e, t) == CreatedAt[e] <= t + Future /\ t - CreatedAt[e] <= Age

OfPrincipal(S, p) == {e \in S : PrincipalOf[e] = p}
Without(f, S) == [e \in DOMAIN f \ S |-> f[e]]

\* The elements of s that are in S, in their order (VecDeque::retain).
Keep(s, S) ==
    LET kept == {i \in DOMAIN s : s[i] \in S}
        nth(k) == CHOOSE i \in kept : Cardinality({j \in kept : j <= i}) = k
    IN  [k \in 1..Cardinality(kept) |-> s[nth(k)]]

\* remove / remove_entry for a set of ids: the entries and the principal's
\* index. The order is the caller's business.
RemoveEntries(c, S) ==
    LET gone == S \cap DOMAIN c.entries IN
    [c EXCEPT !.entries = Without(c.entries, gone),
              !.queues = [p \in Principal |-> Keep(c.queues[p], Event \ gone)],
              !.counts = IF kind = "iroh"
                         THEN [p \in Principal |-> @[p] - Cardinality(OfPrincipal(gone, p))]
                         ELSE @]

\* Drop the first n ids of the order, with their entries.
PopOldest(c, n) ==
    [RemoveEntries(c, Range(SubSeq(c.order, 1, n))) EXCEPT !.order = SubSeq(c.order, n + 1, Len(c.order))]

\* MUTANT: an entry is dropped a second early.
SpentEarly(c, e, t) == e \notin DOMAIN c.entries \/ c.entries[e] <= t + 1

\* What prune_expired may pop: an id without an entry, or an expired one.
Spent(c, e, t) == e \notin DOMAIN c.entries \/ c.entries[e] <= t

\* prune_expired: pop from the front up to the first entry that still counts.
PruneExpired(c, t) ==
    LET n == Cardinality({i \in 1..Len(c.order) : \A j \in 1..i : Spent(c, c.order[j], t)}) IN
    PopOldest(c, n)

\* Make room in the principal's share: one of its ids fewer than the limit.
\* "http" takes them off the principal's queue and leaves them in the order.
EvictOwnHttp(c, p) ==
    LET n == Len(c.queues[p]) - PerPrincipal + 1 IN
    IF n <= 0 THEN c ELSE RemoveEntries(c, Range(SubSeq(c.queues[p], 1, n)))

\* "iroh" looks for them in the order and takes them out of it.
EvictOwnIroh(c, p) ==
    LET n == c.counts[p] - PerPrincipal + 1
        own == Keep(c.order, OfPrincipal(DOMAIN c.entries, p))
        gone == Range(SubSeq(own, 1, n)) IN
    IF n <= 0 THEN c
    ELSE [RemoveEntries(c, gone) EXCEPT !.order = Keep(c.order, Event \ gone)]

EvictOwn(c, p) ==
    CASE kind = "http" -> EvictOwnHttp(c, p)
      [] kind = "iroh" -> EvictOwnIroh(c, p)
      [] kind = "admin" -> c

\* Make room in the cache: pop the order while the entries are at capacity.
EvictOldest(c) ==
    LET Left(k) == Cardinality(DOMAIN c.entries \ Range(SubSeq(c.order, 1, k)))
        n == Cardinality({i \in 1..Len(c.order) : \A j \in 1..i : Left(j - 1) >= Capacity}) IN
    PopOldest(c, n)

\* MUTANT: the principal's queue is not told.
InsertUnindexed(c, e, expires) ==
    [c EXCEPT !.entries = [x \in DOMAIN @ \cup {e} |-> IF x = e THEN expires ELSE @[x]],
              !.order = Append(@, e)]

Insert(c, e, expires) ==
    LET p == PrincipalOf[e] IN
    [c EXCEPT !.entries = [x \in DOMAIN @ \cup {e} |-> IF x = e THEN expires ELSE @[x]],
              !.order = Append(@, e),
              !.queues = IF kind = "http" THEN [c.queues EXCEPT ![p] = Append(@, e)] ELSE @,
              !.counts = IF kind = "iroh" THEN [c.counts EXCEPT ![p] = @ + 1] ELSE @]

\* MUTANT: the lifetime is added by the caller and by the cache.
CheckAndInsertTwice(c, e, t) ==
    Insert(EvictOldest(EvictOwn(c, PrincipalOf[e])), e, t + Ttl + Ttl)

\* check_and_insert / commit, after pruning.
CheckAndInsert(c, e, t) ==
    Insert(EvictOldest(EvictOwn(c, PrincipalOf[e])), e, t + Ttl)

-----------------------------------------------------------------------------
EmptyCache == [entries |-> [e \in {} |-> 0], order |-> <<>>,
               queues |-> [p \in Principal |-> <<>>], counts |-> [p \in Principal |-> 0]]
Unused == [e \in Event |-> 0]

Init ==
    /\ kind \in Kinds
    /\ entries = EmptyCache.entries /\ order = EmptyCache.order
    /\ queues = EmptyCache.queues /\ counts = EmptyCache.counts
    /\ now = 0
    /\ slots = [s \in Slot |-> Free]
    /\ used = Unused /\ ownSince = Unused /\ allSince = Unused

\* The first verification of a request, before the body or the state lock.
VerifyClaims(s, e) ==
    /\ slots[s] = Free /\ Valid(e, now)
    /\ slots' = [slots EXCEPT ![s] = [event |-> e, at |-> now]]
    /\ UNCHANGED <<kind, cacheVars, now, history>>

SetCache(c) ==
    /\ entries' = c.entries /\ order' = c.order
    /\ queues' = c.queues /\ counts' = c.counts

RecordUse(e) ==
    LET seen == {x \in Event : used[x] > 0} IN
    /\ used' = [used EXCEPT ![e] = @ + 1]
    /\ allSince' = [x \in Event |-> allSince[x] + IF x \in seen \ {e} THEN 1 ELSE 0]
    /\ ownSince' = [x \in Event |-> ownSince[x] +
                       IF x \in seen \ {e} /\ PrincipalOf[x] = PrincipalOf[e] THEN 1 ELSE 0]

\* Mark the event: refused if its id is cached, else entered. Pruning happens
\* either way.
MarkOnce(s) ==
    LET e == slots[s].event
        c == PruneExpired(Cache, now) IN
    /\ slots' = [slots EXCEPT ![s] = Free]
    /\ \/ /\ e \in DOMAIN c.entries
          /\ SetCache(c)
          /\ UNCHANGED history
       \/ /\ e \notin DOMAIN c.entries
          /\ SetCache(CheckAndInsert(c, e, now))
          /\ RecordUse(e)
    /\ UNCHANGED <<kind, now>>

\* Bound: acceptances after the first event.
InBound == \A e \in Event : allSince[e] < MaxCommits

\* mark_auth_event_once: the claims are verified again in the same breath.
MarkAuthEventOnce(s) ==
    /\ kind \in {"http", "admin"} /\ slots[s] # Free /\ InBound
    /\ Valid(slots[s].event, now)
    /\ MarkOnce(s)

\* commit_auth_event: the verification is the one made at the stream's start.
CommitAuthEvent(s) ==
    /\ kind = "iroh" /\ slots[s] # Free /\ InBound
    /\ now <= slots[s].at + Timeout
    /\ MarkOnce(s)

\* The client went away, the stream timed out, or a later check failed.
Abandon(s) ==
    /\ slots[s] # Free
    /\ slots' = [slots EXCEPT ![s] = Free]
    /\ UNCHANGED <<kind, cacheVars, now, history>>

\* The caches live in memory: a new process knows no event, whenever it starts.
Restart ==
    /\ Cache # EmptyCache
    /\ SetCache(EmptyCache)
    /\ slots' = [s \in Slot |-> Free]
    /\ used' = Unused /\ ownSince' = Unused /\ allSince' = Unused
    /\ UNCHANGED <<kind, now>>

Tick ==
    /\ now < MaxNow /\ now' = now + 1
    /\ UNCHANGED <<kind, cacheVars, slots, history>>

Next ==
    \/ \E s \in Slot :
          \/ \E e \in Event : VerifyClaims(s, e)
          \/ MarkAuthEventOnce(s) \/ CommitAuthEvent(s) \/ Abandon(s)
    \/ Restart \/ Tick

Spec == Init /\ [][Next]_vars

-----------------------------------------------------------------------------
\* The state space of the cache and of the requests.
TypeOK ==
    /\ kind \in Kinds
    /\ DOMAIN entries \subseteq Event /\ \A e \in DOMAIN entries : entries[e] \in 0..(MaxNow + Ttl)
    /\ order \in Seq(Event)
    /\ queues \in [Principal -> Seq(Event)]
    /\ counts \in [Principal -> Nat]
    /\ now \in 0..MaxNow
    /\ \A s \in Slot : slots[s] = Free \/ slots[s].event \in Event

\* The commit of an iroh stream that comes as long after the verification as an
\* entry outlives its event: 30 seconds, which is all of STREAM_TIMEOUT.
CommitsLate(s) == kind = "iroh" /\ slots'[s] = Free /\ now - slots[s].at >= Ttl - Future - Age

(***************************************************************************)
(* A process accepts an event again only after it was crowded out: its     *)
(* principal used at least PerPrincipal other events since, or at least    *)
(* Capacity other events were used by anyone. In particular no pair of     *)
(* concurrent requests and no pruning or own-queue bookkeeping lets a      *)
(* valid event through twice on a cache that has room. Time does it in one *)
(* case: an iroh stream that commits in the last second of its timeout.    *)
(***************************************************************************)
AtMostOnceUnlessCrowdedOut ==
    [][\A e \in Event : (used[e] = 1 /\ used'[e] = 2) =>
          \/ kind # "admin" /\ ownSince[e] >= PerPrincipal
          \/ allSince[e] >= Capacity
          \/ \E s \in Slot : slots[s] # Free /\ slots[s].event = e /\ CommitsLate(s)]_vars

(***************************************************************************)
(* The cache stays within its limits and its indexes describe exactly the  *)
(* entries: each principal's queue (http) or count (iroh) is that of its   *)
(* live ids, every live id can be reached through the order, and the order *)
(* of "iroh" holds nothing else.                                           *)
(***************************************************************************)
IndexesDescribeEntries ==
    LET live == DOMAIN entries IN
    /\ Cardinality(live) <= Capacity
    /\ live \subseteq Range(order)
    /\ kind # "admin" => \A p \in Principal : Cardinality(OfPrincipal(live, p)) <= PerPrincipal
    /\ kind = "http" => \A p \in Principal :
          /\ Range(queues[p]) = OfPrincipal(live, p)
          /\ IsInjective(queues[p])
    /\ kind = "iroh" =>
          /\ \A p \in Principal : counts[p] = Cardinality(OfPrincipal(live, p))
          /\ Range(order) = live /\ IsInjective(order)
=============================================================================
