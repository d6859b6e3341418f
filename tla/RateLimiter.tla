----------------------------- MODULE RateLimiter -----------------------------
(***************************************************************************)
(* The token buckets of src/ratelimit.rs.  Every caller holds the server's *)
(* state mutex, so a check is one step.  Time is what the system clock     *)
(* says, in ticks; it may be set back.                                     *)
(***************************************************************************)
EXTENDS Integers, FiniteSets, Functions

CONSTANTS
    Key,            \* public keys, and "anonymous"
    MaxTokens,      \* config.max_tokens
    TicksPerToken,  \* 1 / config.refill_rate
    IdleLimit,      \* the ten minutes of check's cleanup
    MaxTracked,     \* MAX_TRACKED_KEYS
    MaxClock        \* bound: the latest time

\* The last two say that a bucket dropped for being idle would have been full:
\* 600 s against 60 s for the defaults of the server.
ASSUME LimiterAssumption ==
    /\ {MaxTokens, TicksPerToken, IdleLimit, MaxTracked} \subseteq Nat \ {0}
    /\ MaxClock \in Nat /\ MaxClock > IdleLimit
    /\ IdleLimit >= MaxTokens * TicksPerToken + TicksPerToken - 1

VARIABLES
    clock,    \* SystemTime::now
    buckets,  \* the tracked keys with their tokens and last refill
    ideal     \* history: ideal[k], the level, in ticks, of a bucket of k that is
              \* filled by passing time alone, is never forgotten and pays for k

limiterVars == <<clock, buckets, ideal>>

Full == MaxTokens * TicksPerToken

\* The epoch is long past.
LimiterInit == clock = IdleLimit + 1 /\ buckets = << >> /\ ideal = [k \in Key |-> Full]

\* A new process.
LimiterRestart == buckets' = << >> /\ ideal' = [k \in Key |-> Full] /\ UNCHANGED clock

TimePasses ==
    /\ clock < MaxClock
    /\ clock' = clock + 1
    /\ ideal' = [k \in Key |-> IF ideal[k] < Full THEN ideal[k] + 1 ELSE Full]
    /\ UNCHANGED buckets

ClockSetBack ==
    /\ clock > IdleLimit + 1
    /\ clock' = clock - 1
    /\ UNCHANGED <<buckets, ideal>>

\* Mutant: every bucket goes when the table is full.
CleanupAll(bs) == << >>

Cleanup(bs) == Restrict(bs, {k \in DOMAIN bs : bs[k].last > clock - IdleLimit})

\* The table check works on: cleaned up if k is new and there is no room.
Table(k) ==
    IF k \notin DOMAIN buckets /\ Cardinality(DOMAIN buckets) >= MaxTracked
      THEN Cleanup(buckets) ELSE buckets

HasRoom(k) == k \in DOMAIN Table(k) \/ Cardinality(DOMAIN Table(k)) < MaxTracked

\* A clock behind the last refill counts as no time passed, and a part of a
\* token is lost with every refill.
Refill(b) ==
    LET new == IF clock > b.last THEN (clock - b.last) \div TicksPerToken ELSE 0 IN
    IF new = 0 THEN b
    ELSE [tokens |-> IF b.tokens + new < MaxTokens THEN b.tokens + new ELSE MaxTokens,
          last |-> clock]

BucketOf(k) ==
    Refill(IF k \in DOMAIN Table(k) THEN Table(k)[k] ELSE [tokens |-> MaxTokens, last |-> clock])

Store(k, b) == buckets' = [x \in DOMAIN Table(k) \cup {k} |-> IF x = k THEN b ELSE Table(k)[x]]

CheckGrants(k) ==
    /\ HasRoom(k) /\ BucketOf(k).tokens > 0
    /\ Store(k, [BucketOf(k) EXCEPT !.tokens = @ - 1])
    /\ ideal' = [ideal EXCEPT ![k] = @ - TicksPerToken]
    /\ UNCHANGED clock

CheckRefuses(k) ==
    /\ IF HasRoom(k) THEN BucketOf(k).tokens = 0 /\ Store(k, BucketOf(k))
                     ELSE buckets' = Table(k)
    /\ UNCHANGED <<clock, ideal>>

LimiterTypeOK ==
    /\ clock \in 1..MaxClock
    /\ DOMAIN buckets \subseteq Key
    /\ \A k \in DOMAIN buckets : buckets[k] \in [tokens : 0..MaxTokens, last : 1..MaxClock]
    /\ ideal \in [Key -> Int]
=============================================================================
