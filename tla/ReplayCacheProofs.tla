-------------------------- MODULE ReplayCacheProofs --------------------------
(***************************************************************************)
(* Proofs about ReplayCache, for any events, principals, limits and        *)
(* requests: the indexes of the three caches describe their entries, and a *)
(* process accepts an event again only after it was crowded out.           *)
(***************************************************************************)
EXTENDS ReplayCache, FiniteSetTheorems, TLAPS

-----------------------------------------------------------------------------
(* The inductive invariant.                                                *)

\* What follows position i of s and has the same principal.
OwnAfter(s, i) == {j \in (i + 1)..Len(s) : PrincipalOf[s[j]] = PrincipalOf[s[i]]}

\* Whatever follows an event that was accepted once was accepted after it, so it
\* is counted in the history: a of all events, o of those of its principal.
AllCounted(s, u, a) ==
    \A i \in 1..Len(s) : u[s[i]] >= 1 /\ (u[s[i]] = 1 => Len(s) - i <= a[s[i]])
OwnCounted(s, u, o) ==
    \A i \in 1..Len(s) : u[s[i]] >= 1 /\ (u[s[i]] = 1 => Cardinality(OwnAfter(s, i)) <= o[s[i]])

CacheType(c) ==
    /\ c = [entries |-> c.entries, order |-> c.order, queues |-> c.queues, counts |-> c.counts]
    /\ c.entries \in [DOMAIN c.entries -> 0..(MaxNow + Ttl)] /\ DOMAIN c.entries \subseteq Event
    /\ c.order \in Seq(Event)
    /\ c.queues \in [Principal -> Seq(Event)]
    /\ c.counts \in [Principal -> Nat]

\* The part of IndexesDescribeEntries that is not about the limits.
Described(c) ==
    LET live == DOMAIN c.entries IN
    /\ live \subseteq Range(c.order)
    /\ kind = "http" => \A p \in Principal :
          Range(c.queues[p]) = OfPrincipal(live, p) /\ IsInjective(c.queues[p])
    /\ kind = "iroh" =>
          /\ \A p \in Principal : c.counts[p] = Cardinality(OfPrincipal(live, p))
          /\ Range(c.order) = live /\ IsInjective(c.order)

Limited(c) ==
    /\ Cardinality(DOMAIN c.entries) <= Capacity
    /\ kind # "admin" =>
         \A p \in Principal : Cardinality(OfPrincipal(DOMAIN c.entries, p)) <= PerPrincipal

\* An entry stays for Ttl from a moment at which its event was valid.
Lasting(c) == \A e \in DOMAIN c.entries : CreatedAt[e] + Ttl <= c.entries[e] + Future

Counted(c, u, o, a) ==
    /\ AllCounted(c.order, u, a)
    /\ kind = "http" => \A p \in Principal : OwnCounted(c.queues[p], u, o)
    /\ kind = "iroh" => OwnCounted(c.order, u, o)

CacheInv(c, u, o, a) == CacheType(c) /\ Described(c) /\ Limited(c) /\ Lasting(c) /\ Counted(c, u, o, a)

\* A request in flight was verified.
SlotInv ==
    /\ slots \in [Slot -> {Free} \cup [event : Event, at : Nat]]
    /\ \A s \in Slot : slots[s] # Free => Valid(slots[s].event, slots[s].at) /\ slots[s].at <= now

HistoryType == used \in [Event -> Nat] /\ ownSince \in [Event -> Nat] /\ allSince \in [Event -> Nat]

Crowded(e, o, a) == (kind # "admin" /\ o[e] >= PerPrincipal) \/ a[e] >= Capacity

\* An entry for e, made as early as e was valid, has expired.
Over(e) == CreatedAt[e] + Ttl <= now + Future

\* An event that was accepted is cached, crowded out or over.
Remembered == \A e \in Event : used[e] = 1 => e \in DOMAIN entries \/ Crowded(e, ownSince, allSince) \/ Over(e)

Inv ==
    /\ kind \in Kinds /\ now \in 0..MaxNow /\ HistoryType
    /\ CacheInv(Cache, used, ownSince, allSince)
    /\ SlotInv /\ Remembered

-----------------------------------------------------------------------------
(* Parts of sequences.                                                     *)

\* t is made of elements of s in their order: t[k] is s[f[k]].
Embeds(t, s, f) ==
    /\ f \in [1..Len(t) -> 1..Len(s)]
    /\ \A k, l \in 1..Len(t) : k < l => f[k] < f[l]
    /\ \A k \in 1..Len(t) : t[k] = s[f[k]]

LEMMA EmbeddedAt ==
    ASSUME NEW t \in Seq(Event), NEW s \in Seq(Event), NEW f, Embeds(t, s, f), NEW k \in 1..Len(t)
    PROVE  /\ f[k] \in 1..Len(s) /\ f[k] \in Nat /\ t[k] = s[f[k]] /\ t[k] \in Event
           /\ k \in Nat /\ Len(t) \in Nat /\ Len(s) \in Nat
<1>1. t[k] = s[f[k]]
  BY Zenon DEF Embeds
<1>2. f \in [1..Len(t) -> 1..Len(s)]
  BY Zenon DEF Embeds
<1>3. f[k] \in 1..Len(s)
  BY <1>2
<1>4. t[k] \in Event /\ k \in Nat /\ Len(t) \in Nat /\ Len(s) \in Nat
  OBVIOUS
<1> QED
  BY <1>1, <1>3, <1>4

\* The sets whose sizes are compared below are finite.
LEMMA FiniteOwnAfter ==
    ASSUME NEW s \in Seq(Event), NEW i \in 1..Len(s)
    PROVE  IsFiniteSet(OwnAfter(s, i)) /\ Cardinality(OwnAfter(s, i)) \in Nat
<1>1. IsFiniteSet((i + 1)..Len(s))
  BY FS_Interval
<1>2. OwnAfter(s, i) \in SUBSET ((i + 1)..Len(s))
  BY DEF OwnAfter
<1>3. IsFiniteSet(OwnAfter(s, i))
  BY <1>1, <1>2, FS_Subset
<1> QED
  BY <1>3, FS_CardinalityType

\* A map that keeps the order is an injection.
LEMMA MonotoneInjective ==
    ASSUME NEW t \in Seq(Event), NEW s \in Seq(Event), NEW f, Embeds(t, s, f),
           NEW A \in SUBSET (1..Len(t)), NEW B \in SUBSET (1..Len(s)), \A k \in A : f[k] \in B
    PROVE  /\ IsFiniteSet(A) /\ IsFiniteSet(B)
           /\ Cardinality(A) \in Nat /\ Cardinality(B) \in Nat /\ Cardinality(A) <= Cardinality(B)
<1> DEFINE g == [k \in A |-> f[k]]
<1>1. \A k, l \in A : f[k] = f[l] => k = l
  <2> SUFFICES ASSUME NEW k \in A, NEW l \in A, f[k] = f[l], k # l PROVE FALSE
    OBVIOUS
  <2>1. k \in 1..Len(t) /\ l \in 1..Len(t) /\ f[k] \in 1..Len(s) /\ f[l] \in 1..Len(s)
    BY DEF Embeds
  <2>2. k < l \/ l < k
    BY <2>1
  <2>3. f[k] < f[l] \/ f[l] < f[k]
    BY <2>1, <2>2 DEF Embeds
  <2> QED
    BY <2>1, <2>3
<1>2. g \in Injection(A, B)
  BY <1>1 DEF Injection, IsInjective
<1> HIDE DEF g
<1>3. IsFiniteSet(1..Len(s)) /\ IsFiniteSet(1..Len(t))
  BY FS_Interval
<1>4. IsFiniteSet(A) /\ IsFiniteSet(B)
  BY <1>3, FS_Subset
<1>5. Cardinality(A) <= Cardinality(B)
  BY <1>2, <1>4, FS_Injection
<1> QED
  BY <1>4, <1>5, FS_CardinalityType

LEMMA RestCounts ==
    ASSUME NEW n \in Nat, NEW i \in 0..n
    PROVE  IsFiniteSet((i + 1)..n) /\ Cardinality((i + 1)..n) = n - i
<1>1. i + 1 \in Int /\ n \in Int
  OBVIOUS
<1>2. IsFiniteSet((i + 1)..n) /\ Cardinality((i + 1)..n) = IF i + 1 > n THEN 0 ELSE n - (i + 1) + 1
  BY <1>1, FS_Interval
<1> QED
  BY <1>2

\* In a part of s no more follows an element than in s.
LEMMA LessFollows ==
    ASSUME NEW t \in Seq(Event), NEW s \in Seq(Event), NEW f, Embeds(t, s, f),
           NEW k \in 1..Len(t), NEW i \in 1..Len(s), i = f[k]
    PROVE  /\ Len(t) - k <= Len(s) - i
           /\ Cardinality(OwnAfter(t, k)) <= Cardinality(OwnAfter(s, i))
           /\ Cardinality(OwnAfter(t, k)) \in Nat /\ Cardinality(OwnAfter(s, i)) \in Nat
<1>1. t[k] = s[i] /\ i \in Nat /\ k \in Nat /\ Len(t) \in Nat /\ Len(s) \in Nat
  BY EmbeddedAt
<1>2. ASSUME NEW l \in (k + 1)..Len(t)
      PROVE  f[l] \in (i + 1)..Len(s) /\ t[l] = s[f[l]]
  <2>1. l \in 1..Len(t) /\ k < l
    BY <1>1
  <2>2. i < f[l]
    BY <2>1 DEF Embeds
  <2>3. f[l] \in 1..Len(s) /\ t[l] = s[f[l]]
    BY <2>1, EmbeddedAt
  <2>4. ASSUME NEW j \in 1..Len(s), i < j PROVE j \in (i + 1)..Len(s)
    BY <1>1, <2>4
  <2> QED
    BY <2>2, <2>3, <2>4
<1> DEFINE A == (k + 1)..Len(t)
           B == (i + 1)..Len(s)
           A2 == OwnAfter(t, k)
           B2 == OwnAfter(s, i)
<1>3. A \subseteq 1..Len(t) /\ B \subseteq 1..Len(s) /\ A2 \subseteq A /\ B2 \subseteq B
  BY <1>1 DEF OwnAfter
<1>4. Cardinality(A) = Len(t) - k /\ Cardinality(B) = Len(s) - i
  BY <1>1, RestCounts
<1>5. \A l \in A : f[l] \in B
  BY <1>2
<1>6. \A l \in A2 : f[l] \in B2
  BY <1>1, <1>2, Zenon DEF OwnAfter
<1> HIDE DEF A, B, A2, B2
<1>7. Cardinality(A) <= Cardinality(B)
  BY <1>3, <1>5, MonotoneInjective
<1>8. Cardinality(A2) <= Cardinality(B2) /\ Cardinality(A2) \in Nat /\ Cardinality(B2) \in Nat
  BY <1>3, <1>6, MonotoneInjective
<1> QED
  BY <1>4, <1>7, <1>8 DEF A2, B2

\* What is counted after an element of s is counted after it in a part of s.
LEMMA PartsAreCounted ==
    ASSUME NEW t \in Seq(Event), NEW s \in Seq(Event), NEW f, Embeds(t, s, f),
           NEW u \in [Event -> Nat], NEW o \in [Event -> Nat], NEW a \in [Event -> Nat]
    PROVE  /\ AllCounted(s, u, a) => AllCounted(t, u, a)
           /\ OwnCounted(s, u, o) => OwnCounted(t, u, o)
<1>1. ASSUME NEW k \in 1..Len(t)
      PROVE  \E i \in 1..Len(s) :
                /\ t[k] = s[i] /\ t[k] \in Event
                /\ Len(t) - k <= Len(s) - i /\ Len(t) - k \in Int /\ Len(s) - i \in Int
                /\ Cardinality(OwnAfter(t, k)) <= Cardinality(OwnAfter(s, i))
                /\ Cardinality(OwnAfter(t, k)) \in Nat /\ Cardinality(OwnAfter(s, i)) \in Nat
  <2>0. f[k] \in 1..Len(s) /\ t[k] = s[f[k]] /\ t[k] \in Event
    <3>1. t[k] = s[f[k]] /\ f \in [1..Len(t) -> 1..Len(s)]
      BY Zenon DEF Embeds
    <3>2. f[k] \in 1..Len(s)
      BY <3>1, Zenon
    <3>3. t[k] \in Event
      OBVIOUS
    <3> QED
      BY <3>1, <3>2, <3>3, Zenon
  <2>1. PICK i \in 1..Len(s) : i = f[k] /\ t[k] = s[i] /\ t[k] \in Event
    BY <2>0, Zenon
  <2>2. Len(t) - k \in Int /\ Len(s) - i \in Int
    OBVIOUS
  <2> QED
    BY <2>1, <2>2, LessFollows
<1>2. ASSUME AllCounted(s, u, a), NEW k \in 1..Len(t)
      PROVE  u[t[k]] >= 1 /\ (u[t[k]] = 1 => Len(t) - k <= a[t[k]])
  <2>1. PICK i \in 1..Len(s) :
           t[k] = s[i] /\ t[k] \in Event /\ Len(t) - k <= Len(s) - i /\ Len(t) - k \in Int /\ Len(s) - i \in Int
    BY <1>1
  <2>2. u[t[k]] >= 1 /\ (u[t[k]] = 1 => Len(s) - i <= a[t[k]])
    BY <1>2, <2>1 DEF AllCounted
  <2>3. a[t[k]] \in Nat
    BY <2>1
  <2>4. ASSUME NEW x \in Int, NEW y \in Int, NEW z \in Nat, x <= y, y <= z PROVE x <= z
    BY <2>4
  <2> QED
    BY ONLY <2>1, <2>2, <2>3, <2>4, Zenon
<1>3. ASSUME OwnCounted(s, u, o), NEW k \in 1..Len(t)
      PROVE  u[t[k]] >= 1 /\ (u[t[k]] = 1 => Cardinality(OwnAfter(t, k)) <= o[t[k]])
  <2>1. PICK i \in 1..Len(s) :
           /\ t[k] = s[i] /\ t[k] \in Event
           /\ Cardinality(OwnAfter(t, k)) <= Cardinality(OwnAfter(s, i))
           /\ Cardinality(OwnAfter(t, k)) \in Nat /\ Cardinality(OwnAfter(s, i)) \in Nat
    BY <1>1
  <2>2. u[t[k]] >= 1 /\ (u[t[k]] = 1 => Cardinality(OwnAfter(s, i)) <= o[t[k]])
    BY <1>3, <2>1 DEF OwnCounted
  <2>3. o[t[k]] \in Nat
    BY <2>1
  <2>4. ASSUME NEW x \in Nat, NEW y \in Nat, NEW z \in Nat, x <= y, y <= z PROVE x <= z
    BY <2>4
  <2> QED
    BY ONLY <2>1, <2>2, <2>3, <2>4, Zenon
<1> QED
  BY <1>2, <1>3 DEF AllCounted, OwnCounted

\* Keep returns the elements of s that are in S, each once and in their order.
LEMMA KeepIsPart ==
    ASSUME NEW s \in Seq(Event), NEW S
    PROVE  /\ Keep(s, S) \in Seq(Event)
           /\ \E f : /\ Embeds(Keep(s, S), s, f)
                     /\ \A i \in 1..Len(s) : s[i] \in S <=> \E k \in 1..Len(Keep(s, S)) : f[k] = i
<1> DEFINE kept == {i \in DOMAIN s : s[i] \in S}
           upto(i) == {j \in kept : j <= i}
           rank == [i \in kept |-> Cardinality(upto(i))]
           m == Cardinality(kept)
           nth(k) == CHOOSE i \in kept : Cardinality({j \in kept : j <= i}) = k
           f == [k \in 1..m |-> nth(k)]
           t == Keep(s, S)
<1>1. kept \subseteq 1..Len(s) /\ Len(s) \in Nat /\ \A i \in kept : i \in Nat
  OBVIOUS
<1>2. IsFiniteSet(kept) /\ m \in Nat
  <2>1. IsFiniteSet(1..Len(s))
    BY FS_Interval
  <2> HIDE DEF kept
  <2> QED
    BY <1>1, <2>1, FS_Subset, FS_CardinalityType
<1>3. t = [k \in 1..m |-> s[nth(k)]]
  BY DEF Keep
<1> HIDE DEF kept, t
<1>4. \A i \in kept : IsFiniteSet(upto(i)) /\ Cardinality(upto(i)) \in 1..m
  <2> TAKE i \in kept
  <2>1. upto(i) \subseteq kept /\ i \in upto(i)
    BY <1>1
  <2> HIDE DEF upto
  <2>2. IsFiniteSet(upto(i)) /\ Cardinality(upto(i)) <= m
    BY <1>2, <2>1, FS_Subset
  <2>3. Cardinality(upto(i)) \in Nat /\ Cardinality(upto(i)) # 0
    BY <2>1, <2>2, FS_CardinalityType, FS_EmptySet
  <2> QED
    BY <1>2, <2>2, <2>3
<1>5. \A i, j \in kept : i < j => rank[i] < rank[j]
  <2> TAKE i \in kept, j \in kept
  <2> HAVE i < j
  <2>0. i \in Nat /\ j \in Nat
    BY <1>1
  <2>1. upto(i) \subseteq upto(j) /\ j \in upto(j) /\ j \notin upto(i)
    <3>1. j \in upto(j) /\ j \notin upto(i)
      BY <2>0
    <3>2. ASSUME NEW x \in upto(i) PROVE x \in upto(j)
      <4>1. x \in kept /\ x <= i /\ x \in Nat
        BY <1>1
      <4>2. x <= j
        BY <2>0, <4>1
      <4> QED
        BY <4>1, <4>2
    <3> QED
      BY <3>1, <3>2
  <2>2. rank[i] = Cardinality(upto(i)) /\ rank[j] = Cardinality(upto(j))
    OBVIOUS
  <2> HIDE DEF upto, rank
  <2>3. Cardinality(upto(i)) <= Cardinality(upto(j)) /\ Cardinality(upto(i)) # Cardinality(upto(j))
    BY <1>4, <2>1, FS_Subset
  <2>4. Cardinality(upto(i)) \in Nat /\ Cardinality(upto(j)) \in Nat
    BY <1>4
  <2> QED
    BY <2>2, <2>3, <2>4
<1>6. rank \in [kept -> 1..m]
  BY <1>4
<1>7. \A i \in kept : rank[i] = Cardinality({j \in kept : j <= i})
  OBVIOUS
<1> HIDE DEF rank, upto
<1>8. \A i, j \in kept : rank[i] = rank[j] => i = j
  <2> TAKE i \in kept, j \in kept
  <2>1. i \in Int /\ j \in Int /\ rank[i] \in Int /\ rank[j] \in Int
    BY <1>1, <1>2, <1>6
  <2> QED
    BY <1>5, <2>1
<1>9. rank \in Surjection(kept, 1..m)
  <2>1. rank \in Injection(kept, 1..m)
    BY <1>6, <1>8 DEF Injection, IsInjective
  <2>2. IsFiniteSet(1..m) /\ Cardinality(1..m) = m
    BY <1>2, FS_Interval
  <2>3. Cardinality(kept) = Cardinality(1..m)
    BY <2>2
  <2> HIDE DEF m
  <2> QED
    BY <2>1, <2>2, <2>3, FS_Injection
<1>10. \A k \in 1..m : nth(k) \in kept /\ rank[nth(k)] = k
  <2> TAKE k \in 1..m
  <2>1. \E i \in kept : rank[i] = k
    BY <1>9 DEF Surjection
  <2>2. \E i \in kept : Cardinality({j \in kept : j <= i}) = k
    BY <1>7, <2>1
  <2>3. nth(k) \in kept /\ Cardinality({j \in kept : j <= nth(k)}) = k
    BY <2>2
  <2> HIDE DEF nth
  <2> QED
    BY <1>7, <2>3
<1> HIDE DEF nth
<1>11. f \in [1..m -> 1..Len(s)] /\ \A k \in 1..m : f[k] \in kept /\ rank[f[k]] = k /\ t[k] = s[f[k]]
  BY <1>1, <1>3, <1>10
<1>12. t \in Seq(Event) /\ Len(t) = m
  <2>1. \A k \in 1..m : s[nth(k)] \in Event
    <3> TAKE k \in 1..m
    <3>1. nth(k) \in 1..Len(s)
      BY <1>1, <1>10
    <3> QED
      BY <3>1
  <2> HIDE DEF m
  <2> QED
    BY <1>2, <1>3, <2>1
<1> HIDE DEF f, m
<1>13. \A k, l \in 1..m : k < l => f[k] < f[l]
  <2> TAKE k \in 1..m, l \in 1..m
  <2> HAVE k < l
  <2>1. f[k] \in kept /\ f[l] \in kept /\ rank[f[k]] = k /\ rank[f[l]] = l
    BY <1>11
  <2>2. f[k] \in Nat /\ f[l] \in Nat /\ k \in Nat /\ l \in Nat
    <3>1. f[k] \in Nat /\ f[l] \in Nat
      BY <1>1, <2>1, Zenon
    <3>2. k \in Nat /\ l \in Nat
      BY <1>2
    <3> QED
      BY <3>1, <3>2
  <2>3. f[l] < f[k] => l < k
    BY <1>5, <2>1
  <2>4. f[l] = f[k] => l = k
    BY <2>1
  <2> QED
    BY <2>2, <2>3, <2>4
<1>14. Embeds(t, s, f)
  BY <1>11, <1>12, <1>13 DEF Embeds
<1>15. ASSUME NEW i \in 1..Len(s)
       PROVE  s[i] \in S <=> \E k \in 1..Len(t) : f[k] = i
  <2>1. s[i] \in S <=> i \in kept
    BY DEF kept
  <2>2. ASSUME i \in kept PROVE \E k \in 1..m : f[k] = i
    <3>1. rank[i] \in 1..m
      BY <1>6, <2>2
    <3>2. f[rank[i]] \in kept /\ rank[f[rank[i]]] = rank[i]
      BY <1>11, <3>1
    <3>3. f[rank[i]] = i
      BY <1>8, <2>2, <3>2
    <3> QED
      BY <3>1, <3>3
  <2>3. ASSUME NEW k \in 1..m, f[k] = i PROVE i \in kept
    BY <1>11, <2>3
  <2> QED
    BY <1>12, <2>1, <2>2, <2>3
<1> QED
  BY <1>12, <1>14, <1>15 DEF t

\* What a sequence shows is finite, and as large as the sequence if it is injective.
LEMMA ShownIsFinite ==
    ASSUME NEW s \in Seq(Event)
    PROVE  /\ IsFiniteSet(Range(s)) /\ Range(s) \subseteq Event /\ Cardinality(Range(s)) \in Nat
           /\ IsInjective(s) => Cardinality(Range(s)) = Len(s)
<1> DEFINE T == Range(s)
<1>1. Len(s) \in Nat /\ DOMAIN s = 1..Len(s) /\ T \subseteq Event
  BY DEF Range
<1>2. s \in Surjection(1..Len(s), T)
  BY <1>1 DEF Surjection, Range
<1>3. IsInjective(s) => s \in Injection(1..Len(s), T)
  BY <1>1, <1>2 DEF Injection, Surjection
<1>4. IsFiniteSet(1..Len(s)) /\ Cardinality(1..Len(s)) = Len(s)
  BY <1>1, FS_Interval
<1> HIDE DEF T
<1>5. IsFiniteSet(T) /\ (Cardinality(T) = Cardinality(1..Len(s)) <=> s \in Injection(1..Len(s), T))
  BY <1>2, <1>4, FS_Surjection
<1>6. Cardinality(T) \in Nat
  BY <1>5, FS_CardinalityType
<1> QED
  BY <1>1, <1>3, <1>4, <1>5, <1>6 DEF T

\* A part of a sequence without repetitions has none.
LEMMA PartIsInjective ==
    ASSUME NEW t \in Seq(Event), NEW s \in Seq(Event), NEW f, Embeds(t, s, f), IsInjective(s)
    PROVE  IsInjective(t)
<1> SUFFICES ASSUME NEW k \in 1..Len(t), NEW l \in 1..Len(t), t[k] = t[l], k # l PROVE FALSE
  BY DEF IsInjective
<1>1. PICK i \in 1..Len(s) : i = f[k] /\ t[k] = s[i]
  BY EmbeddedAt
<1>2. PICK j \in 1..Len(s) : j = f[l] /\ t[l] = s[j]
  BY EmbeddedAt
<1>3. i = j
  <2>1. \A x, y \in 1..Len(s) : s[x] = s[y] => x = y
    BY DEF IsInjective
  <2>2. s[i] = s[j]
    BY <1>1, <1>2, Zenon
  <2> QED
    BY <2>1, <2>2, Zenon
<1>4. k < l \/ l < k
  OBVIOUS
<1>5. i < j \/ j < i
  BY <1>1, <1>2, <1>4 DEF Embeds
<1> QED
  BY <1>3, <1>5

LEMMA KeepShows ==
    ASSUME NEW s \in Seq(Event), NEW S
    PROVE  /\ Keep(s, S) \in Seq(Event) /\ \E f : Embeds(Keep(s, S), s, f)
           /\ Range(Keep(s, S)) = Range(s) \cap S
           /\ IsInjective(s) => IsInjective(Keep(s, S))
<1> DEFINE t == Keep(s, S)
<1>1. PICK f : /\ Embeds(t, s, f)
               /\ \A i \in 1..Len(s) : s[i] \in S <=> \E k \in 1..Len(t) : f[k] = i
  BY KeepIsPart
<1>2. t \in Seq(Event)
  BY KeepIsPart
<1> HIDE DEF t
<1>3. ASSUME NEW k \in 1..Len(t) PROVE t[k] \in Range(s) \cap S
  <2>1. PICK i \in 1..Len(s) : i = f[k] /\ t[k] = s[i]
    BY <1>1, <1>2, EmbeddedAt
  <2>2. s[i] \in S
    BY <1>1, <2>1, Zenon
  <2> QED
    BY <2>1, <2>2 DEF Range
<1>4. ASSUME NEW i \in 1..Len(s), s[i] \in S PROVE s[i] \in Range(t)
  <2>1. PICK k \in 1..Len(t) : f[k] = i
    BY <1>1, <1>4, Zenon
  <2>2. t[k] = s[i]
    BY <1>1, <1>2, <2>1, EmbeddedAt
  <2> QED
    BY <1>2, <2>2 DEF Range
<1>5. Range(t) = Range(s) \cap S
  BY <1>2, <1>3, <1>4 DEF Range
<1>6. IsInjective(s) => IsInjective(t)
  BY <1>1, <1>2, PartIsInjective
<1> QED
  BY <1>1, <1>2, <1>5, <1>6 DEF t

\* The rest of a sequence after its first n elements.
LEMMA RestIsPart ==
    ASSUME NEW s \in Seq(Event), NEW n \in 0..Len(s)
    PROVE  LET t == SubSeq(s, n + 1, Len(s)) IN
           /\ t \in Seq(Event) /\ \E f : Embeds(t, s, f)
           /\ Range(t) = {s[i] : i \in (n + 1)..Len(s)}
<1> DEFINE t == SubSeq(s, n + 1, Len(s))
           f == [k \in 1..(Len(s) - n) |-> k + n]
<1>1. Len(s) \in Nat /\ n \in Nat /\ n <= Len(s)
  OBVIOUS
<1>2. t = [k \in 1..(Len(s) - n) |-> s[k + n]]
  BY <1>1
<1>3. t \in Seq(Event) /\ Len(t) = Len(s) - n
  BY <1>1
<1> HIDE DEF t
<1>4. Embeds(t, s, f)
  <2>1. f \in [1..Len(t) -> 1..Len(s)]
    BY <1>1, <1>3
  <2>2. \A k, l \in 1..Len(t) : k < l => f[k] < f[l]
    BY <1>1, <1>3
  <2>3. \A k \in 1..Len(t) : t[k] = s[f[k]]
    BY <1>2, <1>3
  <2> QED
    BY <2>1, <2>2, <2>3 DEF Embeds
<1>5. Range(t) \subseteq {s[i] : i \in (n + 1)..Len(s)}
  BY <1>1, <1>2, <1>3 DEF Range
<1>6. ASSUME NEW i \in (n + 1)..Len(s) PROVE s[i] \in Range(t)
  <2>1. i - n \in 1..(Len(s) - n) /\ (i - n) + n = i
    BY <1>1
  <2>2. t[i - n] = s[i]
    BY <1>2, <2>1
  <2> QED
    BY <1>2, <2>1, <2>2 DEF Range
<1> QED
  BY <1>3, <1>4, <1>5, <1>6 DEF t

\* The first n elements of a sequence.
LEMMA FirstAre ==
    ASSUME NEW s \in Seq(Event), NEW n \in 0..Len(s)
    PROVE  Range(SubSeq(s, 1, n)) = {s[i] : i \in 1..n}
<1> DEFINE t == SubSeq(s, 1, n)
<1>1. t = [i \in 1..n |-> s[i]] /\ n \in Nat
  OBVIOUS
<1> HIDE DEF t
<1>2. Range(t) = {s[i] : i \in 1..n}
  BY <1>1 DEF Range
<1> QED
  BY <1>2 DEF t

\* What is shown after the first n elements is no more than there are places.
LEMMA RestBound ==
    ASSUME NEW s \in Seq(Event), NEW n \in 0..Len(s)
    PROVE  LET T == {s[i] : i \in (n + 1)..Len(s)} IN
           IsFiniteSet(T) /\ Cardinality(T) \in Nat /\ Cardinality(T) <= Len(s) - n
<1> DEFINE I == (n + 1)..Len(s)
           T == {s[i] : i \in I}
           g == [i \in I |-> s[i]]
<1>1. g \in Surjection(I, T)
  BY DEF Surjection
<1>2. IsFiniteSet(I) /\ Cardinality(I) = Len(s) - n
  BY RestCounts
<1> HIDE DEF I, T, g
<1>3. IsFiniteSet(T) /\ Cardinality(T) <= Len(s) - n
  BY <1>1, <1>2, FS_Surjection
<1>4. Cardinality(T) \in Nat
  BY <1>3, FS_CardinalityType
<1> QED
  BY <1>3, <1>4 DEF T, I

\* Indexes that come with all smaller ones are the first indexes.
LEMMA FirstIndexes ==
    ASSUME NEW n \in Nat, NEW I \in SUBSET (1..n), \A j \in I : \A i \in 1..n : i < j => i \in I
    PROVE  Cardinality(I) \in 0..n /\ I = 1..Cardinality(I)
<1> DEFINE c == Cardinality(I)
<1>1. IsFiniteSet(1..n) /\ Cardinality(1..n) = n
  BY FS_Interval
<1>2. IsFiniteSet(I) /\ c <= n
  BY <1>1, FS_Subset
<1>3. c \in Nat
  BY <1>2, FS_CardinalityType
<1>4. IsFiniteSet(1..c) /\ Cardinality(1..c) = c
  BY <1>3, FS_Interval
<1>5. 1..c \subseteq I
  <2> SUFFICES ASSUME NEW j \in 1..c, j \notin I PROVE FALSE
    OBVIOUS
  <2>1. j \in 1..n /\ j - 1 \in Nat
    BY <1>2, <1>3
  <2>2. I \subseteq 1..(j - 1)
    BY <2>1
  <2>3. IsFiniteSet(1..(j - 1)) /\ Cardinality(1..(j - 1)) = j - 1
    BY <2>1, FS_Interval
  <2>4. c <= j - 1
    BY <2>2, <2>3, FS_Subset, ZenonT(30)
  <2> QED
    BY <1>3, <2>1, <2>4
<1>6. 1..c = I
  BY <1>2, <1>4, <1>5, FS_Subset
<1> QED
  BY <1>2, <1>3, <1>6

-----------------------------------------------------------------------------
(* Removing entries.                                                       *)

\* The ids of a cache can be counted.
LEMMA LiveIsFinite ==
    ASSUME NEW c, CacheType(c), Described(c), NEW T \in SUBSET (DOMAIN c.entries)
    PROVE  IsFiniteSet(T) /\ Cardinality(T) \in Nat
<1>1. T \subseteq Range(c.order)
  BY DEF Described
<1>2. IsFiniteSet(Range(c.order))
  BY ShownIsFinite DEF CacheType
<1>3. IsFiniteSet(T)
  BY <1>1, <1>2, FS_Subset
<1> QED
  BY <1>3, FS_CardinalityType

\* The cache with the ids S removed and the order t.
Shrunk(c, S, t) == [RemoveEntries(c, S) EXCEPT !.order = t]

\* What removing the ids S does to the parts of the cache.
IsShrunk(d, c, S, t) ==
    LET gone == S \cap DOMAIN c.entries IN
    /\ d.entries = [e \in DOMAIN c.entries \ S |-> c.entries[e]]
    /\ d.order = t
    /\ d.queues = [p \in Principal |-> Keep(c.queues[p], Event \ gone)]
    /\ kind = "iroh" =>
         d.counts = [p \in Principal |-> c.counts[p] - Cardinality(OfPrincipal(gone, p))]
    /\ kind # "iroh" => d.counts = c.counts
    /\ d = [entries |-> d.entries, order |-> d.order, queues |-> d.queues, counts |-> d.counts]

LEMMA ShrunkIs ==
    ASSUME NEW c, CacheType(c), NEW S, NEW t
    PROVE  IsShrunk(Shrunk(c, S, t), c, S, t)
<1> DEFINE gone == S \cap DOMAIN c.entries
           E == Without(c.entries, gone)
           Q == [p \in Principal |-> Keep(c.queues[p], Event \ gone)]
           N == IF kind = "iroh"
                THEN [p \in Principal |-> c.counts[p] - Cardinality(OfPrincipal(gone, p))]
                ELSE c.counts
           d == Shrunk(c, S, t)
<1>1. c = [entries |-> c.entries, order |-> c.order, queues |-> c.queues, counts |-> c.counts]
  BY DEF CacheType
<1>2. RemoveEntries(c, S) = [c EXCEPT !.entries = E, !.queues = Q, !.counts = N]
  BY DEF RemoveEntries
<1>3. E = [e \in DOMAIN c.entries \ S |-> c.entries[e]]
  BY DEF Without
<1> HIDE DEF E, Q, N, gone
<1>4. RemoveEntries(c, S) = [entries |-> E, order |-> c.order, queues |-> Q, counts |-> N]
  BY <1>1, <1>2
<1>5. d = [entries |-> E, order |-> t, queues |-> Q, counts |-> N]
  BY <1>4 DEF Shrunk
<1>6. d.entries = E /\ d.order = t /\ d.queues = Q /\ d.counts = N
  BY <1>5
<1>7. d = [entries |-> d.entries, order |-> d.order, queues |-> d.queues, counts |-> d.counts]
  BY <1>5, <1>6
<1> HIDE DEF d
<1>8. IsShrunk(d, c, S, t)
  BY <1>3, <1>6, <1>7 DEF IsShrunk, Q, N, gone
<1> QED
  BY <1>8 DEF d

LEMMA RemovalKeepsOrder ==
    ASSUME NEW c, CacheType(c), NEW S
    PROVE  RemoveEntries(c, S) = Shrunk(c, S, c.order)
<1> DEFINE r == RemoveEntries(c, S)
           gone == S \cap DOMAIN c.entries
           E == Without(c.entries, gone)
           Q == [p \in Principal |-> Keep(c.queues[p], Event \ gone)]
           N == IF kind = "iroh"
                THEN [p \in Principal |-> c.counts[p] - Cardinality(OfPrincipal(gone, p))]
                ELSE c.counts
<1>1. c = [entries |-> c.entries, order |-> c.order, queues |-> c.queues, counts |-> c.counts]
  BY DEF CacheType
<1>2. r = [c EXCEPT !.entries = E, !.queues = Q, !.counts = N]
  BY DEF RemoveEntries
<1> HIDE DEF r, E, Q, N
<1>3. r = [entries |-> E, order |-> c.order, queues |-> Q, counts |-> N]
  BY <1>1, <1>2
<1>4. r = [r EXCEPT !.order = c.order]
  BY <1>3
<1> QED
  BY <1>4 DEF Shrunk, r

\* Removing ids, with the order at most shortened, keeps the invariant of the
\* cache, as long as the order still leads to the ids that are left.
LEMMA ShrinkingKeeps ==
    ASSUME NEW c, NEW u \in [Event -> Nat], NEW o \in [Event -> Nat], NEW a \in [Event -> Nat],
           CacheInv(c, u, o, a),
           NEW S, NEW t \in Seq(Event), NEW f, Embeds(t, c.order, f),
           DOMAIN c.entries \ S \subseteq Range(t),
           kind = "iroh" => Range(t) = DOMAIN c.entries \ S
    PROVE  CacheInv(Shrunk(c, S, t), u, o, a) /\ DOMAIN Shrunk(c, S, t).entries = DOMAIN c.entries \ S
<1> DEFINE d == Shrunk(c, S, t)
           live == DOMAIN c.entries
           left == live \ S
           gone == S \cap live
<1>1. CacheType(c) /\ Described(c) /\ Limited(c) /\ Lasting(c) /\ Counted(c, u, o, a)
  BY DEF CacheInv
<1>0. IsShrunk(d, c, S, t)
  BY <1>1, ShrunkIs
<1> HIDE DEF d
<1>2. /\ d.entries = [e \in left |-> c.entries[e]]
      /\ d.order = t
      /\ d.queues = [p \in Principal |-> Keep(c.queues[p], Event \ gone)]
      /\ kind = "iroh" => d.counts = [p \in Principal |-> c.counts[p] - Cardinality(OfPrincipal(gone, p))]
      /\ kind # "iroh" => d.counts = c.counts
      /\ d = [entries |-> d.entries, order |-> d.order, queues |-> d.queues, counts |-> d.counts]
  BY <1>0 DEF IsShrunk
<1>3. /\ live \subseteq Event /\ c.entries \in [live -> 0..(MaxNow + Ttl)]
      /\ c.order \in Seq(Event) /\ c.queues \in [Principal -> Seq(Event)] /\ c.counts \in [Principal -> Nat]
  BY <1>1 DEF CacheType
<1>4. DOMAIN d.entries = left /\ left \subseteq live
  BY <1>2
<1>5. \A p \in Principal :
         /\ d.queues[p] \in Seq(Event)
         /\ \E g : Embeds(d.queues[p], c.queues[p], g)
         /\ Range(d.queues[p]) = Range(c.queues[p]) \cap (Event \ gone)
         /\ IsInjective(c.queues[p]) => IsInjective(d.queues[p])
  <2> TAKE p \in Principal
  <2>1. d.queues[p] = Keep(c.queues[p], Event \ gone)
    BY <1>2
  <2>2. c.queues[p] \in Seq(Event)
    BY <1>3
  <2> QED
    <3> DEFINE q == c.queues[p]
               r == d.queues[p]
               S2 == Event \ gone
    <3> HIDE DEF q, r, S2
    <3>1. r = Keep(q, S2) /\ q \in Seq(Event)
      BY <2>1, <2>2 DEF q, r, S2
    <3>2. r \in Seq(Event) /\ (\E g : Embeds(r, q, g)) /\ Range(r) = Range(q) \cap S2
             /\ (IsInjective(q) => IsInjective(r))
      BY <3>1, KeepShows
    <3> QED
      BY <3>2 DEF q, r, S2
<1>6. ASSUME NEW p \in Principal
      PROVE  /\ Cardinality(OfPrincipal(live, p)) \in Nat /\ Cardinality(OfPrincipal(left, p)) \in Nat
             /\ Cardinality(OfPrincipal(left, p)) <= Cardinality(OfPrincipal(live, p))
             /\ Cardinality(OfPrincipal(left, p)) =
                  Cardinality(OfPrincipal(live, p)) - Cardinality(OfPrincipal(gone, p))
  <2> DEFINE P == OfPrincipal(live, p)
             Q == OfPrincipal(left, p)
             G == OfPrincipal(gone, p)
  <2>1. P \subseteq live /\ Q \subseteq live /\ Q \subseteq P /\ Q = P \ G /\ G = P \cap G
    BY DEF OfPrincipal
  <2> HIDE DEF P, Q, G
  <2>2. IsFiniteSet(P) /\ Cardinality(P) \in Nat /\ Cardinality(Q) \in Nat
    BY <1>1, <2>1, LiveIsFinite
  <2>3. Cardinality(Q) <= Cardinality(P)
    BY <2>1, <2>2, FS_Subset
  <2>4. Cardinality(P \ G) = Cardinality(P) - Cardinality(P \cap G)
    BY <2>2, FS_Difference
  <2>5. Cardinality(Q) = Cardinality(P) - Cardinality(G)
    BY <2>1, <2>4
  <2> QED
    BY <2>2, <2>3, <2>5 DEF P, Q, G
<1>7. kind = "iroh" => \A p \in Principal : d.counts[p] = Cardinality(OfPrincipal(left, p))
  <2> SUFFICES ASSUME kind = "iroh", NEW p \in Principal
               PROVE  d.counts[p] = Cardinality(OfPrincipal(left, p))
    OBVIOUS
  <2>1. c.counts[p] = Cardinality(OfPrincipal(live, p))
    BY <1>1 DEF Described
  <2>2. d.counts[p] = c.counts[p] - Cardinality(OfPrincipal(gone, p))
    BY <1>2
  <2> QED
    BY <1>6, <2>1, <2>2
<1>8. d.counts \in [Principal -> Nat]
  <2>1. CASE kind = "iroh"
    <3>1. d.counts = [p \in Principal |-> d.counts[p]]
      BY <1>2, <2>1
    <3>2. \A p \in Principal : d.counts[p] \in Nat
      BY <1>6, <1>7, <2>1
    <3> QED
      BY <3>1, <3>2
  <2>2. CASE kind # "iroh"
    BY <1>2, <1>3, <2>2
  <2> QED
    BY <2>1, <2>2
<1>9. CacheType(d)
  <2>1. d.queues \in [Principal -> Seq(Event)]
    <3>1. d.queues = [p \in Principal |-> d.queues[p]]
      BY <1>2
    <3> QED
      BY <1>5, <3>1
  <2>2. d.entries \in [left -> 0..(MaxNow + Ttl)] /\ left \subseteq Event
    BY <1>2, <1>3
  <2> QED
    BY <1>2, <1>4, <1>8, <2>1, <2>2 DEF CacheType
<1>10. Described(d)
  <2>1. left \subseteq Range(d.order) /\ (kind = "iroh" => Range(d.order) = left)
    BY <1>2
  <2>2. kind = "iroh" => IsInjective(d.order)
    BY <1>1, <1>2, <1>3, PartIsInjective DEF Described
  <2>3. ASSUME kind = "http", NEW p \in Principal
        PROVE  Range(d.queues[p]) = OfPrincipal(left, p) /\ IsInjective(d.queues[p])
    <3>1. Range(c.queues[p]) = OfPrincipal(live, p) /\ IsInjective(c.queues[p])
      BY <1>1, <2>3 DEF Described
    <3>2. OfPrincipal(live, p) \cap (Event \ gone) = OfPrincipal(left, p)
      BY <1>3 DEF OfPrincipal
    <3> QED
      BY <1>5, <3>1, <3>2
  <2> HIDE DEF left, live
  <2> QED
    BY <1>4, <1>7, <2>1, <2>2, <2>3 DEF Described
<1>11. Limited(d)
  <2>1. Cardinality(left) <= Cardinality(live) /\ Cardinality(left) \in Nat /\ Cardinality(live) \in Nat
    <3>1. IsFiniteSet(live) /\ Cardinality(live) \in Nat /\ Cardinality(left) \in Nat
      BY <1>1, <1>4, LiveIsFinite
    <3> QED
      BY <1>4, <3>1, FS_Subset
  <2>2. Cardinality(live) <= Capacity /\ Capacity \in Nat /\ PerPrincipal \in Nat
    BY <1>1, ReplayAssumption DEF Limited
  <2>3. ASSUME kind # "admin", NEW p \in Principal
        PROVE  Cardinality(OfPrincipal(left, p)) <= PerPrincipal
    <3>1. Cardinality(OfPrincipal(live, p)) <= PerPrincipal
      BY <1>1, <2>3 DEF Limited
    <3>2. /\ Cardinality(OfPrincipal(left, p)) <= Cardinality(OfPrincipal(live, p))
          /\ Cardinality(OfPrincipal(left, p)) \in Nat /\ Cardinality(OfPrincipal(live, p)) \in Nat
      BY <1>6
    <3> HIDE DEF left, live
    <3> QED
      BY <2>2, <3>1, <3>2
  <2> HIDE DEF left, live
  <2>4. Cardinality(left) <= Capacity
    BY <2>1, <2>2
  <2> QED
    BY <1>4, <2>3, <2>4 DEF Limited
<1>12. Lasting(d)
  BY <1>1, <1>2, <1>4 DEF Lasting
<1>13. Counted(d, u, o, a)
  <2>1. AllCounted(d.order, u, a) /\ (kind = "iroh" => OwnCounted(d.order, u, o))
    BY <1>1, <1>2, <1>3, PartsAreCounted DEF Counted
  <2>2. ASSUME kind = "http", NEW p \in Principal PROVE OwnCounted(d.queues[p], u, o)
    <3>1. OwnCounted(c.queues[p], u, o) /\ c.queues[p] \in Seq(Event)
      BY <1>1, <1>3, <2>2 DEF Counted
    <3> QED
      BY <1>5, <3>1, PartsAreCounted
  <2> QED
    BY <2>1, <2>2 DEF Counted
<1> QED
  BY <1>4, <1>9, <1>10, <1>11, <1>12, <1>13 DEF CacheInv, d

\* The first n elements of s.
FirstOf(s, n) == {s[i] : i \in 1..n}

\* Popping the n oldest ids.
LEMMA PopKeeps ==
    ASSUME NEW c, NEW u \in [Event -> Nat], NEW o \in [Event -> Nat], NEW a \in [Event -> Nat],
           CacheInv(c, u, o, a), NEW n \in 0..Len(c.order)
    PROVE  /\ CacheInv(PopOldest(c, n), u, o, a)
           /\ DOMAIN PopOldest(c, n).entries = DOMAIN c.entries \ FirstOf(c.order, n)
<1> DEFINE s == c.order
           S == {s[i] : i \in 1..n}
           t == SubSeq(s, n + 1, Len(s))
<1>1. s \in Seq(Event) /\ DOMAIN c.entries \subseteq Range(s)
  BY DEF CacheInv, CacheType, Described
<1>2. Range(SubSeq(s, 1, n)) = S
  BY <1>1, FirstAre
<1>3. PopOldest(c, n) = Shrunk(c, S, t)
  BY <1>2 DEF PopOldest, Shrunk
<1>4. t \in Seq(Event) /\ (\E f : Embeds(t, s, f)) /\ Range(t) = {s[i] : i \in (n + 1)..Len(s)}
  BY <1>1, RestIsPart
<1>5. Range(s) = {s[i] : i \in 1..Len(s)}
  BY <1>1 DEF Range
<1>6. \A i \in 1..Len(s) : i \in 1..n \/ i \in (n + 1)..Len(s)
  BY <1>1
<1>7. Range(s) \ S \subseteq Range(t)
  BY <1>4, <1>5, <1>6
<1>8. kind = "iroh" => Range(t) = DOMAIN c.entries \ S
  <2> SUFFICES ASSUME kind = "iroh", NEW i \in (n + 1)..Len(s) PROVE s[i] \in Range(s) \ S
    BY <1>4, <1>7, ZenonT(30) DEF CacheInv, Described
  <2>0. IsInjective(s)
    BY ZenonT(30) DEF CacheInv, Described
  <2>1. \A x, y \in 1..Len(s) : s[x] = s[y] => x = y
    BY <1>1, <2>0 DEF IsInjective
  <2>2. i \in 1..Len(s) /\ \A j \in 1..n : j \in 1..Len(s) /\ j # i
    BY <1>1
  <2> QED
    BY <1>5, <2>1, <2>2
<1>9. DOMAIN c.entries \ S \subseteq Range(t)
  BY <1>1, <1>7
<1> HIDE DEF S, t
<1>10. CacheInv(Shrunk(c, S, t), u, o, a) /\ DOMAIN Shrunk(c, S, t).entries = DOMAIN c.entries \ S
  BY <1>4, <1>8, <1>9, ShrinkingKeeps
<1> QED
  BY <1>3, <1>10 DEF S, FirstOf

\* prune_expired drops expired entries only.
LEMMA PruneKeeps ==
    ASSUME NEW c, NEW u \in [Event -> Nat], NEW o \in [Event -> Nat], NEW a \in [Event -> Nat],
           CacheInv(c, u, o, a), NEW t
    PROVE  LET d == PruneExpired(c, t) IN
           /\ CacheInv(d, u, o, a) /\ DOMAIN d.entries \subseteq DOMAIN c.entries
           /\ \A e \in DOMAIN c.entries \ DOMAIN d.entries : c.entries[e] <= t
<1> DEFINE s == c.order
           I == {i \in 1..Len(s) : \A j \in 1..i : Spent(c, s[j], t)}
           n == Cardinality(I)
<1>1. s \in Seq(Event) /\ Len(s) \in Nat
  BY DEF CacheInv, CacheType
<1>2. \A j \in I : \A i \in 1..Len(s) : i < j => i \in I
  BY <1>1
<1>3. \A i \in I : Spent(c, s[i], t)
  BY <1>1
<1>4. PruneExpired(c, t) = PopOldest(c, n)
  BY DEF PruneExpired
<1>5. I \subseteq 1..Len(s)
  OBVIOUS
<1> HIDE DEF I
<1>6. n \in 0..Len(s) /\ I = 1..n
  BY <1>1, <1>2, <1>5, FirstIndexes
<1> HIDE DEF n
<1>7. /\ CacheInv(PopOldest(c, n), u, o, a)
      /\ DOMAIN PopOldest(c, n).entries = DOMAIN c.entries \ FirstOf(s, n)
  BY <1>6, PopKeeps
<1>8. \A i \in 1..n : s[i] \in DOMAIN c.entries => c.entries[s[i]] <= t
  BY <1>3, <1>6 DEF Spent
<1>9. \A e \in FirstOf(s, n) : \E i \in 1..n : e = s[i]
  BY DEF FirstOf
<1> QED
  BY <1>4, <1>7, <1>8, <1>9

\* Popping while the cache is at capacity makes room, and drops an event only
\* if all but one of Capacity events came after it.
LEMMA OldestKeeps ==
    ASSUME NEW c, NEW u \in [Event -> Nat], NEW o \in [Event -> Nat], NEW a \in [Event -> Nat],
           CacheInv(c, u, o, a)
    PROVE  LET d == EvictOldest(c) IN
           /\ CacheInv(d, u, o, a) /\ DOMAIN d.entries \subseteq DOMAIN c.entries
           /\ Cardinality(DOMAIN d.entries) < Capacity
           /\ \A e \in DOMAIN c.entries \ DOMAIN d.entries : u[e] = 1 => a[e] + 1 >= Capacity
<1> DEFINE s == c.order
           live == DOMAIN c.entries
           Left(k) == Cardinality(live \ Range(SubSeq(s, 1, k)))
           I == {i \in 1..Len(s) : \A j \in 1..i : Left(j - 1) >= Capacity}
           n == Cardinality(I)
<1>1. s \in Seq(Event) /\ Len(s) \in Nat /\ live \subseteq Range(s) /\ AllCounted(s, u, a)
  BY DEF CacheInv, CacheType, Described, Counted
<1>2. EvictOldest(c) = PopOldest(c, n)
  BY DEF EvictOldest
<1>3. \A k \in 0..Len(s) : Left(k) = Cardinality(live \ FirstOf(s, k))
  BY <1>1, FirstAre DEF FirstOf
<1>0. Range(s) = FirstOf(s, Len(s))
  BY <1>1 DEF Range, FirstOf
<1> HIDE DEF Left, live
<1>4. \A j \in I : \A i \in 1..Len(s) : i < j => i \in I
  BY <1>1
<1>5. I \subseteq 1..Len(s)
  OBVIOUS
<1>6. \A i \in 1..Len(s) : i \in I <=> \A j \in 1..i : Left(j - 1) >= Capacity
  OBVIOUS
<1> HIDE DEF I
<1>7. n \in 0..Len(s) /\ I = 1..n /\ n \in Nat
  <2>1. n \in 0..Len(s) /\ I = 1..n
    BY <1>1, <1>4, <1>5, FirstIndexes
  <2> QED
    BY <1>1, <2>1
<1> HIDE DEF n
<1>8. /\ CacheInv(PopOldest(c, n), u, o, a)
      /\ DOMAIN PopOldest(c, n).entries = live \ FirstOf(s, n)
  BY <1>7, PopKeeps DEF live
<1>9. Capacity \in Nat /\ Capacity > 0
  BY ReplayAssumption
<1>10. Left(n) < Capacity
  <2>1. CASE n = Len(s)
    <3>1. live \ FirstOf(s, n) = {}
      BY <1>0, <1>1, <2>1
    <3> QED
      BY <1>3, <1>7, <1>9, <3>1, FS_EmptySet
  <2>2. CASE n # Len(s)
    <3>1. n + 1 \in 1..Len(s) /\ n + 1 \notin I
      BY <1>1, <1>7, <2>2
    <3>2. PICK j \in 1..(n + 1) : ~(Left(j - 1) >= Capacity)
      BY <1>6, <3>1
    <3>3. j = n + 1
      <4> SUFFICES ASSUME j # n + 1 PROVE FALSE
        OBVIOUS
      <4>1. j \in 1..n
        BY <1>7
      <4>2. j \in 1..j /\ j \in 1..Len(s)
        BY <1>7, <4>1
      <4>3. Left(j - 1) >= Capacity
        BY <1>6, <1>7, <4>1, <4>2
      <4> QED
        BY <3>2, <4>3
    <3>4. j - 1 = n
      BY <1>7, <3>3
    <3>5. Left(n) \in Nat
      <4>1. live \ FirstOf(s, n) \subseteq live
        OBVIOUS
      <4>2. Cardinality(live \ FirstOf(s, n)) \in Nat
        BY <4>1, LiveIsFinite DEF CacheInv, live
      <4> QED
        BY <1>3, <1>7, <4>2
    <3> QED
      BY <1>9, <3>2, <3>4, <3>5
  <2> QED
    BY <2>1, <2>2
<1>11. ASSUME NEW i \in 1..n, u[s[i]] = 1 PROVE a[s[i]] + 1 >= Capacity
  <2>1. n \in 1..n /\ n \in 1..Len(s) /\ n - 1 \in 0..Len(s) /\ i \in 1..Len(s) /\ i <= n /\ i \in Nat
    BY <1>1, <1>7
  <2>2. Left(n - 1) >= Capacity
    BY <1>6, <1>7, <2>1
  <2> DEFINE T == {s[j] : j \in n..Len(s)}
             R == live \ FirstOf(s, n - 1)
  <2>3. R \subseteq T
    <3>1. \A j \in 1..Len(s) : j \in 1..(n - 1) \/ j \in n..Len(s)
      BY <1>1, <1>7
    <3>3. ASSUME NEW x \in R PROVE x \in T
      <4>1. PICK j \in 1..Len(s) : x = s[j]
        BY <1>0, <1>1 DEF FirstOf
      <4>2. j \notin 1..(n - 1)
        BY <4>1 DEF FirstOf
      <4> QED
        BY <3>1, <4>1, <4>2
    <3> QED
      BY <3>3
  <2>4. IsFiniteSet(T) /\ Cardinality(T) \in Nat /\ Cardinality(T) <= Len(s) - (n - 1)
    <3>1. (n - 1) + 1 = n
      BY <1>7
    <3> QED
      BY <1>1, <2>1, <3>1, RestBound
  <2>5. Left(n - 1) = Cardinality(R)
    BY <1>3, <2>1
  <2> HIDE DEF R, T
  <2>6. Cardinality(R) <= Cardinality(T) /\ Cardinality(R) \in Nat
    BY <2>3, <2>4, FS_Subset, FS_CardinalityType
  <2>7. Capacity <= Len(s) - (n - 1)
    BY <1>1, <1>7, <1>9, <2>2, <2>4, <2>5, <2>6
  <2>8. Len(s) - i <= a[s[i]]
    BY <1>1, <1>11, <2>1 DEF AllCounted
  <2>9. a[s[i]] \in Nat
    BY <1>1, <2>1
  <2>10. Len(s) \in Nat /\ Capacity \in Nat /\ n \in Nat
    BY <1>1, <1>7, <1>9, <2>1
  <2> HIDE DEF s
  <2> QED
    BY <2>1, <2>7, <2>8, <2>9, <2>10
<1>12. Cardinality(live \ FirstOf(s, n)) < Capacity
  BY <1>3, <1>7, <1>10
<1>13. \A e \in FirstOf(s, n) : \E i \in 1..n : e = s[i]
  BY DEF FirstOf
<1> QED
  BY <1>2, <1>8, <1>11, <1>12, <1>13 DEF live

\* Without the ids S of q the share of p has room, and PerPrincipal - 1 events of
\* p came after each of S.
ShareRoom(S, q, p, u, o) ==
    /\ S \subseteq Range(q)
    /\ \A e \in S : PrincipalOf[e] = p /\ (u[e] = 1 => o[e] + 1 >= PerPrincipal)
    /\ Cardinality(Range(q) \ S) < PerPrincipal

\* The oldest ids of a principal, all but PerPrincipal - 1.
LEMMA OldestOfShare ==
    ASSUME NEW u \in [Event -> Nat], NEW o \in [Event -> Nat], NEW q \in Seq(Event), NEW p,
           OwnCounted(q, u, o), \A e \in Range(q) : PrincipalOf[e] = p,
           NEW n \in 1..Len(q), n = Len(q) - PerPrincipal + 1
    PROVE  ShareRoom(Range(SubSeq(q, 1, n)), q, p, u, o)
<1> DEFINE S == FirstOf(q, n)
<1>1. Len(q) \in Nat /\ n \in Nat /\ n <= Len(q) /\ PerPrincipal \in Nat /\ n \in 0..Len(q)
  BY ReplayAssumption
<1>2. Range(SubSeq(q, 1, n)) = S
  BY <1>1, FirstAre DEF FirstOf
<1>3. \A i \in 1..Len(q) : q[i] \in Range(q) /\ PrincipalOf[q[i]] = p
  BY DEF Range
<1>4. \A e \in S : \E i \in 1..n : e = q[i]
  BY DEF FirstOf
<1>5. \A e \in Range(q) : \E i \in 1..Len(q) : e = q[i]
  BY DEF Range
<1>6. ASSUME NEW i \in 1..n
      PROVE  /\ q[i] \in Range(q) /\ PrincipalOf[q[i]] = p
             /\ u[q[i]] = 1 => o[q[i]] + 1 >= PerPrincipal
  <2>1. i \in 1..Len(q) /\ i \in Nat /\ i <= n /\ i \in 0..Len(q)
    BY <1>1
  <2>2. OwnAfter(q, i) = (i + 1)..Len(q)
    <3>1. \A j \in (i + 1)..Len(q) : j \in 1..Len(q)
      BY <2>1
    <3>2. \A j \in (i + 1)..Len(q) : PrincipalOf[q[j]] = PrincipalOf[q[i]]
      BY <1>3, <2>1, <3>1, Zenon
    <3> QED
      BY <3>2, Zenon DEF OwnAfter
  <2>3. Cardinality(OwnAfter(q, i)) = Len(q) - i
    BY <1>1, <2>1, <2>2, RestCounts
  <2>4. u[q[i]] = 1 => Cardinality(OwnAfter(q, i)) <= o[q[i]]
    BY <2>1 DEF OwnCounted
  <2>5. o[q[i]] \in Nat
    BY <2>1
  <2> QED
    BY <1>1, <1>3, <2>1, <2>3, <2>4, <2>5
<1> DEFINE T == {q[i] : i \in (n + 1)..Len(q)}
           R == Range(q) \ S
<1>7. R \subseteq T
  <2> SUFFICES ASSUME NEW x \in R PROVE x \in T
    OBVIOUS
  <2>1. PICK i \in 1..Len(q) : x = q[i]
    BY <1>5
  <2>2. i \notin 1..n
    BY <2>1 DEF FirstOf
  <2>3. i \in (n + 1)..Len(q)
    BY <1>1, <2>2
  <2> QED
    BY <2>1, <2>3
<1>8. IsFiniteSet(T) /\ Cardinality(T) \in Nat /\ Cardinality(T) <= Len(q) - n
  BY <1>1, RestBound
<1> HIDE DEF T, R, S
<1>9. Cardinality(R) <= Cardinality(T) /\ Cardinality(R) \in Nat
  BY <1>7, <1>8, FS_Subset, FS_CardinalityType
<1>10. Cardinality(R) < PerPrincipal
  BY <1>1, <1>8, <1>9
<1>11. S \subseteq Range(q) /\ \A e \in S : PrincipalOf[e] = p /\ (u[e] = 1 => o[e] + 1 >= PerPrincipal)
  BY <1>4, <1>6
<1>12. ShareRoom(S, q, p, u, o)
  BY <1>10, <1>11 DEF ShareRoom, R
<1> QED
  BY <1>2, <1>12

\* What making room in the share of p may do.
OwnRoom(d, c, p, u, o, a) ==
    /\ CacheInv(d, u, o, a) /\ DOMAIN d.entries \subseteq DOMAIN c.entries
    /\ kind # "admin" => Cardinality(OfPrincipal(DOMAIN d.entries, p)) < PerPrincipal
    /\ \A e \in DOMAIN c.entries \ DOMAIN d.entries :
          kind # "admin" /\ PrincipalOf[e] = p /\ (u[e] = 1 => o[e] + 1 >= PerPrincipal)

LEMMA OwnHttpKeeps ==
    ASSUME NEW c, NEW u \in [Event -> Nat], NEW o \in [Event -> Nat], NEW a \in [Event -> Nat],
           CacheInv(c, u, o, a), NEW p \in Principal, kind = "http"
    PROVE  OwnRoom(EvictOwnHttp(c, p), c, p, u, o, a)
<1> DEFINE q == c.queues[p]
           n == Len(q) - PerPrincipal + 1
           live == DOMAIN c.entries
           S == Range(SubSeq(q, 1, n))
<1>1. /\ CacheType(c) /\ q \in Seq(Event) /\ Range(q) = OfPrincipal(live, p) /\ IsInjective(q)
      /\ OwnCounted(q, u, o) /\ c.order \in Seq(Event) /\ live \subseteq Range(c.order)
  BY DEF CacheInv, CacheType, Described, Counted
<1>2. Len(q) \in Nat /\ PerPrincipal \in Nat /\ PerPrincipal >= 1 /\ n \in Int
  BY <1>1, ReplayAssumption
<1>3. CASE n <= 0
  <2>1. EvictOwnHttp(c, p) = c
    BY <1>3 DEF EvictOwnHttp
  <2>2. Cardinality(OfPrincipal(live, p)) = Len(q)
    BY <1>1, ShownIsFinite
  <2>3. Len(q) < PerPrincipal
    BY <1>2, <1>3
  <2>4. Cardinality(OfPrincipal(live, p)) < PerPrincipal
    BY <2>2, <2>3
  <2> QED
    BY <2>1, <2>4 DEF OwnRoom
<1>4. CASE n > 0
  <2>1. n \in 1..Len(q)
    BY <1>2, <1>4
  <2>2. \A e \in Range(q) : PrincipalOf[e] = p
    BY <1>1 DEF OfPrincipal
  <2>3. EvictOwnHttp(c, p) = RemoveEntries(c, S)
    BY <1>2, <1>4 DEF EvictOwnHttp
  <2>4. n = Len(q) - PerPrincipal + 1
    OBVIOUS
  <2> HIDE DEF q, n
  <2>5. /\ S \subseteq Range(q)
        /\ \A e \in S : PrincipalOf[e] = p /\ (u[e] = 1 => o[e] + 1 >= PerPrincipal)
        /\ Cardinality(Range(q) \ S) < PerPrincipal
    <3>1. ShareRoom(S, q, p, u, o)
      BY <1>1, <2>1, <2>2, <2>4, OldestOfShare
    <3> HIDE DEF S
    <3> QED
      BY <3>1 DEF ShareRoom
  <2> HIDE DEF S
  <2>6. RemoveEntries(c, S) = Shrunk(c, S, c.order)
    BY <1>1, RemovalKeepsOrder
  <2>7. \E f : Embeds(c.order, c.order, f)
    <3> DEFINE t == c.order
               f == [k \in 1..Len(t) |-> k]
    <3>1. t \in Seq(Event)
      BY <1>1
    <3> HIDE DEF t
    <3>2. f \in [1..Len(t) -> 1..Len(t)] /\ \A k \in 1..Len(t) : t[k] = t[f[k]]
      OBVIOUS
    <3>3. \A k, l \in 1..Len(t) : k < l => f[k] < f[l]
      OBVIOUS
    <3>4. Embeds(t, t, f)
      BY <3>2, <3>3 DEF Embeds
    <3> QED
      BY <3>4 DEF t
  <2>8. live \ S \subseteq Range(c.order)
    BY <1>1
  <2>9. CacheInv(Shrunk(c, S, c.order), u, o, a) /\ DOMAIN Shrunk(c, S, c.order).entries = live \ S
    BY <1>1, <2>7, <2>8, ShrinkingKeeps
  <2>10. OfPrincipal(live \ S, p) = Range(q) \ S
    BY <1>1 DEF OfPrincipal
  <2> QED
    BY <2>3, <2>5, <2>6, <2>9, <2>10 DEF OwnRoom
<1> QED
  BY <1>2, <1>3, <1>4

LEMMA OwnIrohKeeps ==
    ASSUME NEW c, NEW u \in [Event -> Nat], NEW o \in [Event -> Nat], NEW a \in [Event -> Nat],
           CacheInv(c, u, o, a), NEW p \in Principal, kind = "iroh"
    PROVE  OwnRoom(EvictOwnIroh(c, p), c, p, u, o, a)
<1> DEFINE live == DOMAIN c.entries
           P == OfPrincipal(live, p)
           q == Keep(c.order, P)
           n == c.counts[p] - PerPrincipal + 1
           S == Range(SubSeq(q, 1, n))
           t == Keep(c.order, Event \ S)
<1>1. /\ CacheType(c) /\ c.order \in Seq(Event) /\ Range(c.order) = live /\ IsInjective(c.order)
      /\ c.counts[p] = Cardinality(P) /\ OwnCounted(c.order, u, o) /\ live \subseteq Event
  BY DEF CacheInv, CacheType, Described, Counted
<1>2. P \subseteq live /\ \A e \in P : PrincipalOf[e] = p
  BY DEF OfPrincipal
<1>3. EvictOwnIroh(c, p) = IF n <= 0 THEN c ELSE Shrunk(c, S, t)
  BY DEF EvictOwnIroh, Shrunk
<1> HIDE DEF P
<1>4. /\ q \in Seq(Event) /\ Range(q) = P /\ IsInjective(q)
      /\ \E f : Embeds(q, c.order, f)
  <2>1. /\ q \in Seq(Event) /\ Range(q) = Range(c.order) \cap P /\ IsInjective(q)
        /\ \E f : Embeds(q, c.order, f)
    BY <1>1, KeepShows
  <2> QED
    BY <1>1, <1>2, <2>1
<1> HIDE DEF q
<1>5. OwnCounted(q, u, o)
  BY <1>1, <1>4, PartsAreCounted
<1>6. c.counts[p] = Len(q)
  BY <1>1, <1>4, ShownIsFinite
<1>7. Len(q) \in Nat /\ PerPrincipal \in Nat /\ PerPrincipal >= 1 /\ n = Len(q) - PerPrincipal + 1
  BY <1>4, <1>6, ReplayAssumption
<1> HIDE DEF n
<1>8. CASE n <= 0
  <2>1. EvictOwnIroh(c, p) = c
    BY <1>3, <1>8
  <2>2. Cardinality(P) < PerPrincipal
    BY <1>1, <1>6, <1>7, <1>8
  <2> QED
    BY <2>1, <2>2 DEF OwnRoom, P
<1>9. CASE n > 0
  <2>1. n \in 1..Len(q) /\ ~(n <= 0)
    BY <1>7, <1>9
  <2>2. /\ S \subseteq P
        /\ \A e \in S : PrincipalOf[e] = p /\ (u[e] = 1 => o[e] + 1 >= PerPrincipal)
        /\ Cardinality(P \ S) < PerPrincipal
    <3>1. \A e \in Range(q) : PrincipalOf[e] = p
      BY <1>2, <1>4
    <3>2. ShareRoom(S, q, p, u, o)
      BY <1>4, <1>5, <1>7, <2>1, <3>1, OldestOfShare
    <3> HIDE DEF S
    <3> QED
      BY <1>4, <3>2 DEF ShareRoom
  <2> HIDE DEF S
  <2>3. t \in Seq(Event) /\ Range(t) = live \cap (Event \ S) /\ \E f : Embeds(t, c.order, f)
    <3> DEFINE S2 == Event \ S
               t2 == Keep(c.order, S2)
    <3> HIDE DEF S2
    <3>1. t2 \in Seq(Event) /\ Range(t2) = Range(c.order) \cap S2 /\ \E f : Embeds(t2, c.order, f)
      BY <1>1, KeepShows
    <3> QED
      BY <1>1, <3>1 DEF S2
  <2> HIDE DEF t
  <2>4. Range(t) = live \ S
    BY <1>1, <2>3
  <2>5. CacheInv(Shrunk(c, S, t), u, o, a) /\ DOMAIN Shrunk(c, S, t).entries = live \ S
    BY <2>3, <2>4, ShrinkingKeeps
  <2>6. OfPrincipal(live \ S, p) = P \ S
    BY DEF OfPrincipal, P
  <2> QED
    BY <1>3, <2>1, <2>2, <2>5, <2>6 DEF OwnRoom
<1> QED
  BY <1>7, <1>8, <1>9

LEMMA OwnKeeps ==
    ASSUME NEW c, NEW u \in [Event -> Nat], NEW o \in [Event -> Nat], NEW a \in [Event -> Nat],
           CacheInv(c, u, o, a), NEW p \in Principal, kind \in {"http", "iroh", "admin"}
    PROVE  OwnRoom(EvictOwn(c, p), c, p, u, o, a)
<1>1. CASE kind = "http"
  <2>1. EvictOwn(c, p) = EvictOwnHttp(c, p)
    BY <1>1 DEF EvictOwn
  <2> QED
    BY <1>1, <2>1, OwnHttpKeeps
<1>2. CASE kind = "iroh"
  <2>1. EvictOwn(c, p) = EvictOwnIroh(c, p)
    BY <1>2 DEF EvictOwn
  <2> QED
    BY <1>2, <2>1, OwnIrohKeeps
<1>3. CASE kind = "admin"
  <2>1. EvictOwn(c, p) = c
    BY <1>3 DEF EvictOwn
  <2> QED
    BY <1>3, <2>1 DEF OwnRoom
<1> QED
  BY <1>1, <1>2, <1>3

-----------------------------------------------------------------------------
(* Accepting an event.                                                     *)

\* The history after e is accepted.
Accepted(e, u, o, a, u2, o2, a2) ==
    /\ u2 \in [Event -> Nat] /\ o2 \in [Event -> Nat] /\ a2 \in [Event -> Nat]
    /\ u2[e] = u[e] + 1
    /\ \A x \in Event : x # e => u2[x] = u[x]
    /\ \A x \in Event : a2[x] >= a[x] /\ o2[x] >= o[x]
    /\ \A x \in Event : x # e /\ u[x] >= 1 =>
          a2[x] = a[x] + 1 /\ (PrincipalOf[x] = PrincipalOf[e] => o2[x] = o[x] + 1)

LEMMA UseIsAccepted ==
    ASSUME HistoryType, NEW e \in Event, RecordUse(e)
    PROVE  Accepted(e, used, ownSince, allSince, used', ownSince', allSince')
<1>1. used \in [Event -> Nat] /\ ownSince \in [Event -> Nat] /\ allSince \in [Event -> Nat]
  BY DEF HistoryType
<1>2. /\ used' = [used EXCEPT ![e] = @ + 1]
      /\ allSince' = [x \in Event |-> allSince[x] + IF used[x] > 0 /\ x # e THEN 1 ELSE 0]
      /\ ownSince' = [x \in Event |-> ownSince[x] +
                         IF used[x] > 0 /\ x # e /\ PrincipalOf[x] = PrincipalOf[e] THEN 1 ELSE 0]
  BY DEF RecordUse
<1>3. used' \in [Event -> Nat] /\ ownSince' \in [Event -> Nat] /\ allSince' \in [Event -> Nat]
  BY <1>1, <1>2
<1>4. used'[e] = used[e] + 1 /\ \A x \in Event : x # e => used'[x] = used[x]
  BY <1>1, <1>2
<1>5. ASSUME NEW x \in Event
      PROVE  /\ allSince'[x] >= allSince[x] /\ ownSince'[x] >= ownSince[x]
             /\ x # e /\ used[x] >= 1 =>
                  /\ allSince'[x] = allSince[x] + 1
                  /\ PrincipalOf[x] = PrincipalOf[e] => ownSince'[x] = ownSince[x] + 1
  <2>1. used[x] \in Nat /\ ownSince[x] \in Nat /\ allSince[x] \in Nat
    BY <1>1
  <2>2. /\ allSince'[x] = allSince[x] + IF used[x] > 0 /\ x # e THEN 1 ELSE 0
        /\ ownSince'[x] = ownSince[x] +
             IF used[x] > 0 /\ x # e /\ PrincipalOf[x] = PrincipalOf[e] THEN 1 ELSE 0
    BY <1>2
  <2> QED
    BY <2>1, <2>2
<1> QED
  BY <1>3, <1>4, <1>5 DEF Accepted

\* The sequences stay counted, whether e is appended or not.
LEMMA AllCountedAppend ==
    ASSUME NEW u \in [Event -> Nat], NEW o \in [Event -> Nat], NEW a \in [Event -> Nat], NEW u2, NEW o2, NEW a2,
           NEW e \in Event, Accepted(e, u, o, a, u2, o2, a2), NEW s \in Seq(Event), AllCounted(s, u, a)
    PROVE  AllCounted(Append(s, e), u2, a2)
<1> DEFINE t == Append(s, e)
<1>1. /\ Len(s) \in Nat /\ Len(t) = Len(s) + 1 /\ t[Len(s) + 1] = e
      /\ \A i \in 1..Len(s) : t[i] = s[i] /\ s[i] \in Event
  OBVIOUS
<1> HIDE DEF t
<1> SUFFICES ASSUME NEW i \in 1..Len(t)
             PROVE  u2[t[i]] >= 1 /\ (u2[t[i]] = 1 => Len(t) - i <= a2[t[i]])
  BY DEF AllCounted, t
<1>2. CASE i = Len(s) + 1
  <2>1. t[i] = e /\ Len(t) - i = 0
    BY <1>1, <1>2
  <2>2. u2[e] >= 1 /\ a2[e] \in Nat
    BY DEF Accepted
  <2> QED
    BY <2>1, <2>2
<1>3. CASE i # Len(s) + 1
  <2>1. i \in 1..Len(s) /\ i \in Nat
    BY <1>1, <1>3
  <2>2. PICK x \in Event : x = s[i] /\ x = t[i]
    BY <1>1, <2>1
  <2>3. u[x] >= 1 /\ (u[x] = 1 => Len(s) - i <= a[x])
    BY <2>1, <2>2 DEF AllCounted
  <2>4. u[x] \in Nat /\ a[x] \in Nat /\ u2[x] \in Nat /\ a2[x] \in Nat
    BY DEF Accepted
  <2>5. CASE x = e
    <3>1. u2[x] = u[x] + 1
      BY <2>5 DEF Accepted
    <3> QED
      BY <2>2, <2>3, <2>4, <3>1
  <2>6. CASE x # e
    <3>1. u2[x] = u[x] /\ a2[x] = a[x] + 1
      BY <2>3, <2>6 DEF Accepted
    <3>2. u2[x] >= 1 /\ (u2[x] = 1 => Len(t) - i <= a2[x])
      BY <1>1, <2>1, <2>3, <2>4, <3>1
    <3> QED
      BY <2>2, <3>2
  <2> QED
    BY <2>5, <2>6
<1> QED
  BY <1>2, <1>3

LEMMA OwnCountedSame ==
    ASSUME NEW u \in [Event -> Nat], NEW o \in [Event -> Nat], NEW a \in [Event -> Nat], NEW u2, NEW o2, NEW a2,
           NEW e \in Event, Accepted(e, u, o, a, u2, o2, a2), NEW s \in Seq(Event), OwnCounted(s, u, o)
    PROVE  OwnCounted(s, u2, o2)
<1> SUFFICES ASSUME NEW i \in 1..Len(s)
             PROVE  u2[s[i]] >= 1 /\ (u2[s[i]] = 1 => Cardinality(OwnAfter(s, i)) <= o2[s[i]])
  BY DEF OwnCounted
<1>1. PICK x \in Event : x = s[i]
  OBVIOUS
<1>2. u[x] >= 1 /\ (u[x] = 1 => Cardinality(OwnAfter(s, i)) <= o[x])
  BY <1>1 DEF OwnCounted
<1>3. u[x] \in Nat /\ o[x] \in Nat /\ u2[x] \in Nat /\ o2[x] \in Nat /\ Cardinality(OwnAfter(s, i)) \in Nat
  BY FiniteOwnAfter DEF Accepted
<1>4. o2[x] >= o[x] /\ (x = e => u2[x] = u[x] + 1) /\ (x # e => u2[x] = u[x])
  BY DEF Accepted
<1>5. u2[x] >= 1 /\ (u2[x] = 1 => Cardinality(OwnAfter(s, i)) <= o2[x])
  <2> DEFINE k == Cardinality(OwnAfter(s, i))
  <2>1. u[x] >= 1 /\ (u[x] = 1 => k <= o[x]) /\ k \in Nat
    BY <1>2, <1>3
  <2> HIDE DEF k
  <2>2. PICK n \in Nat, m \in Nat, n2 \in Nat, m2 \in Nat : n = u[x] /\ m = o[x] /\ n2 = u2[x] /\ m2 = o2[x]
    BY <1>3, Zenon
  <2>3. n >= 1 /\ (n = 1 => k <= m) /\ m2 >= m /\ (n2 = n \/ n2 = n + 1)
    BY <1>4, <2>1, <2>2, Zenon
  <2>4. n2 >= 1 /\ (n2 = 1 => k <= m2)
    BY <2>1, <2>3
  <2> QED
    BY <2>2, <2>4 DEF k
<1> QED
  BY <1>1, <1>5

LEMMA LastOrBefore ==
    ASSUME NEW n \in Nat, NEW i \in Nat, NEW j \in (i + 1)..(n + 1)
    PROVE  j = n + 1 \/ (j \in (i + 1)..n /\ j \in 1..n)
  OBVIOUS

LEMMA OwnCountedAppend ==
    ASSUME NEW u \in [Event -> Nat], NEW o \in [Event -> Nat], NEW a \in [Event -> Nat], NEW u2, NEW o2, NEW a2,
           NEW e \in Event, Accepted(e, u, o, a, u2, o2, a2), NEW s \in Seq(Event), OwnCounted(s, u, o)
    PROVE  OwnCounted(Append(s, e), u2, o2)
<1> DEFINE t == Append(s, e)
<1>1. /\ Len(s) \in Nat /\ Len(t) = Len(s) + 1 /\ t[Len(s) + 1] = e /\ t \in Seq(Event)
      /\ \A i \in 1..Len(s) : t[i] = s[i] /\ s[i] \in Event
  OBVIOUS
<1> HIDE DEF t
<1> SUFFICES ASSUME NEW i \in 1..Len(t)
             PROVE  u2[t[i]] >= 1 /\ (u2[t[i]] = 1 => Cardinality(OwnAfter(t, i)) <= o2[t[i]])
  BY DEF OwnCounted, t
<1>2. CASE i = Len(s) + 1
  <2>1. t[i] = e /\ (i + 1)..Len(t) = {}
    BY <1>1, <1>2
  <2>2. u2[e] >= 1 /\ o2[e] \in Nat
    BY DEF Accepted
  <2>3. OwnAfter(t, i) = {}
    BY <2>1 DEF OwnAfter
  <2> QED
    BY <2>1, <2>2, <2>3, FS_EmptySet
<1>3. CASE i # Len(s) + 1
  <2>1. i \in 1..Len(s) /\ i \in Nat
    BY <1>1, <1>3
  <2>2. PICK x \in Event : x = s[i] /\ x = t[i]
    BY <1>1, <2>1
  <2> DEFINE A == OwnAfter(s, i)
             B == OwnAfter(t, i)
             l == Len(s) + 1
  <2>3. u[x] >= 1 /\ (u[x] = 1 => Cardinality(A) <= o[x])
    BY <2>1, <2>2 DEF OwnCounted
  <2>4. /\ u[x] \in Nat /\ o[x] \in Nat /\ u2[x] \in Nat /\ o2[x] \in Nat
        /\ IsFiniteSet(A) /\ Cardinality(A) \in Nat /\ IsFiniteSet(B) /\ Cardinality(B) \in Nat
    BY <1>1, <2>1, FiniteOwnAfter DEF Accepted
  <2>5. CASE x = e
    <3>1. u2[x] = u[x] + 1
      BY <2>5 DEF Accepted
    <3>2. u2[x] >= 1 /\ u2[x] # 1
      BY <2>3, <2>4, <3>1
    <3> QED
      BY <2>2, <3>2
  <2>6. CASE x # e
    <3>1. /\ u2[x] = u[x] /\ o2[x] >= o[x]
          /\ PrincipalOf[x] = PrincipalOf[e] => o2[x] = o[x] + 1
      BY <2>3, <2>6 DEF Accepted
    <3>2. \A j \in (i + 1)..Len(t) : j = l \/ (j \in (i + 1)..Len(s) /\ t[j] = s[j])
      <4> TAKE j \in (i + 1)..Len(t)
      <4>0. j \in (i + 1)..(Len(s) + 1) /\ Len(s) \in Nat /\ i \in Nat
        BY <1>1, <2>1
      <4>1. j = l \/ (j \in (i + 1)..Len(s) /\ j \in 1..Len(s))
        BY <4>0, LastOrBefore
      <4> QED
        BY <1>1, <4>1
    <3>3. B \subseteq A \cup {l} /\ (PrincipalOf[x] # PrincipalOf[e] => B \subseteq A)
      BY <1>1, <2>2, <3>2 DEF OwnAfter
    <3> HIDE DEF A, B, l
    <3>4. IsFiniteSet(A \cup {l}) /\ Cardinality(A \cup {l}) <= Cardinality(A) + 1
      <4>1. IsFiniteSet(A)
        BY <2>4
      <4>2. /\ IsFiniteSet(A \cup {l})
            /\ Cardinality(A \cup {l}) = IF l \in A THEN Cardinality(A) ELSE Cardinality(A) + 1
        BY ONLY <4>1, FS_AddElement, Zenon
      <4> QED
        BY <2>4, <4>2
    <3>5. Cardinality(A \cup {l}) \in Nat
      BY <3>4, FS_CardinalityType
    <3>6. Cardinality(B) <= Cardinality(A) + 1
      <4>1. Cardinality(B) <= Cardinality(A \cup {l})
        BY <3>3, <3>4, FS_Subset
      <4> QED
        BY <2>4, <3>4, <3>5, <4>1
    <3>7. PrincipalOf[x] # PrincipalOf[e] => Cardinality(B) <= Cardinality(A)
      BY <2>4, <3>3, FS_Subset
    <3>8. u2[x] >= 1 /\ (u2[x] = 1 => Cardinality(B) <= o2[x])
      BY <2>3, <2>4, <3>1, <3>6, <3>7
    <3> QED
      BY <2>2, <3>8 DEF B
  <2> QED
    BY <2>5, <2>6
<1> QED
  BY <1>2, <1>3

\* What entering e does to the parts of the cache.
IsGrown(d, c, e, expires) ==
    /\ d.entries = [x \in DOMAIN c.entries \cup {e} |-> IF x = e THEN expires ELSE c.entries[x]]
    /\ d.order = Append(c.order, e)
    /\ kind = "http" => d.queues = [c.queues EXCEPT ![PrincipalOf[e]] = Append(@, e)]
    /\ kind # "http" => d.queues = c.queues
    /\ kind = "iroh" => d.counts = [c.counts EXCEPT ![PrincipalOf[e]] = @ + 1]
    /\ kind # "iroh" => d.counts = c.counts
    /\ d = [entries |-> d.entries, order |-> d.order, queues |-> d.queues, counts |-> d.counts]

LEMMA InsertIs ==
    ASSUME NEW c, CacheType(c), NEW e, NEW expires
    PROVE  IsGrown(Insert(c, e, expires), c, e, expires)
<1> DEFINE p == PrincipalOf[e]
           E == [x \in DOMAIN c.entries \cup {e} |-> IF x = e THEN expires ELSE c.entries[x]]
           R == Append(c.order, e)
           Q == IF kind = "http" THEN [c.queues EXCEPT ![p] = Append(@, e)] ELSE c.queues
           N == IF kind = "iroh" THEN [c.counts EXCEPT ![p] = @ + 1] ELSE c.counts
           d == Insert(c, e, expires)
<1>1. c = [entries |-> c.entries, order |-> c.order, queues |-> c.queues, counts |-> c.counts]
  BY DEF CacheType
<1>2. d = [c EXCEPT !.entries = E, !.order = R, !.queues = Q, !.counts = N]
  BY DEF Insert
<1> HIDE DEF E, R, Q, N, d
<1>3. d = [entries |-> E, order |-> R, queues |-> Q, counts |-> N]
  BY <1>1, <1>2
<1>4. d.entries = E /\ d.order = R /\ d.queues = Q /\ d.counts = N
  BY <1>3
<1>5. IsGrown(d, c, e, expires)
  BY <1>3, <1>4 DEF IsGrown, E, R, Q, N
<1> QED
  BY <1>5 DEF d

LEMMA AppendShows ==
    ASSUME NEW s \in Seq(Event), NEW e \in Event
    PROVE  /\ Append(s, e) \in Seq(Event) /\ Range(Append(s, e)) = Range(s) \cup {e}
           /\ IsInjective(s) /\ e \notin Range(s) => IsInjective(Append(s, e))
<1> DEFINE t == Append(s, e)
<1>1. /\ Len(s) \in Nat /\ Len(t) = Len(s) + 1 /\ t[Len(s) + 1] = e /\ t \in Seq(Event)
      /\ DOMAIN s = 1..Len(s) /\ DOMAIN t = 1..(Len(s) + 1)
      /\ \A i \in 1..Len(s) : t[i] = s[i]
  OBVIOUS
<1> HIDE DEF t
<1>2. /\ \A i \in 1..(Len(s) + 1) : i \in 1..Len(s) \/ i = Len(s) + 1
      /\ \A i \in 1..Len(s) : i \in 1..(Len(s) + 1)
      /\ Len(s) + 1 \in 1..(Len(s) + 1)
  BY <1>1
<1>3. Range(t) = Range(s) \cup {e}
  BY <1>1, <1>2 DEF Range
<1>4. ASSUME IsInjective(s), e \notin Range(s), NEW i \in 1..(Len(s) + 1), NEW j \in 1..(Len(s) + 1), t[i] = t[j]
      PROVE  i = j
  <2>1. \A k \in 1..Len(s) : t[k] # e
    BY <1>1, <1>4 DEF Range
  <2>2. CASE i = Len(s) + 1 \/ j = Len(s) + 1
    BY <1>1, <1>2, <1>4, <2>1, <2>2
  <2>3. CASE i \in 1..Len(s) /\ j \in 1..Len(s)
    BY <1>1, <1>4, <2>3 DEF IsInjective
  <2> QED
    BY <1>2, <2>2, <2>3
<1> QED
  BY <1>1, <1>3, <1>4 DEF t, IsInjective

\* The event e is accepted at t, it is new to c, and c has room for it.
Entering(c, e, t, u, o, a, u2, o2, a2) ==
    /\ u \in [Event -> Nat] /\ o \in [Event -> Nat] /\ a \in [Event -> Nat]
    /\ CacheInv(c, u, o, a) /\ Accepted(e, u, o, a, u2, o2, a2)
    /\ e \in Event /\ e \notin DOMAIN c.entries /\ Cardinality(DOMAIN c.entries) < Capacity
    /\ kind # "admin" => Cardinality(OfPrincipal(DOMAIN c.entries, PrincipalOf[e])) < PerPrincipal
    /\ t \in 0..MaxNow /\ CreatedAt[e] <= t + Future

\* Entering a new event in a cache with room keeps its invariant.
LEMMA InsertKeeps ==
    ASSUME NEW c, NEW e, NEW t, NEW u, NEW o, NEW a, NEW u2, NEW o2, NEW a2,
           Entering(c, e, t, u, o, a, u2, o2, a2)
    PROVE  /\ CacheInv(Insert(c, e, t + Ttl), u2, o2, a2)
           /\ DOMAIN Insert(c, e, t + Ttl).entries = DOMAIN c.entries \cup {e}
<1> DEFINE d == Insert(c, e, t + Ttl)
           live == DOMAIN c.entries
           grown == live \cup {e}
           p == PrincipalOf[e]
<1>0. /\ u \in [Event -> Nat] /\ o \in [Event -> Nat] /\ a \in [Event -> Nat]
      /\ CacheInv(c, u, o, a) /\ Accepted(e, u, o, a, u2, o2, a2)
      /\ e \in Event /\ e \notin DOMAIN c.entries /\ Cardinality(DOMAIN c.entries) < Capacity
      /\ kind # "admin" => Cardinality(OfPrincipal(DOMAIN c.entries, PrincipalOf[e])) < PerPrincipal
      /\ t \in 0..MaxNow /\ CreatedAt[e] <= t + Future
  BY DEF Entering
<1> USE <1>0
<1>1. CacheType(c) /\ Described(c) /\ Limited(c) /\ Lasting(c) /\ Counted(c, u, o, a)
  BY DEF CacheInv
<1>2. IsGrown(d, c, e, t + Ttl)
  BY <1>1, InsertIs
<1> HIDE DEF d
<1>3. /\ live \subseteq Event /\ c.entries \in [live -> 0..(MaxNow + Ttl)]
      /\ c.order \in Seq(Event) /\ c.queues \in [Principal -> Seq(Event)] /\ c.counts \in [Principal -> Nat]
      /\ p \in Principal /\ CreatedAt[e] \in Nat
      /\ Ttl \in Nat /\ Future \in Nat /\ Capacity \in Nat /\ PerPrincipal \in Nat /\ MaxNow \in Nat /\ t \in Nat /\ t <= MaxNow
  BY <1>1, ReplayAssumption DEF CacheType
<1>4. d.entries = [x \in grown |-> IF x = e THEN t + Ttl ELSE c.entries[x]]
  BY <1>2 DEF IsGrown
<1>5. DOMAIN d.entries = grown
  BY <1>4
<1>6. d.order = Append(c.order, e)
  BY <1>2 DEF IsGrown
<1>7. \A q \in Principal : d.queues[q] = IF kind = "http" /\ q = p THEN Append(c.queues[q], e) ELSE c.queues[q]
  BY <1>2, <1>3, ZenonT(30) DEF IsGrown
<1>8. \A q \in Principal : d.counts[q] = IF kind = "iroh" /\ q = p THEN c.counts[q] + 1 ELSE c.counts[q]
  BY <1>2, <1>3, ZenonT(30) DEF IsGrown
<1>9. \A q \in Principal : OfPrincipal(grown, q) = IF q = p THEN OfPrincipal(live, q) \cup {e} ELSE OfPrincipal(live, q)
  BY DEF OfPrincipal
<1>10. ASSUME NEW q \in Principal
       PROVE  /\ Cardinality(OfPrincipal(live, q)) \in Nat
              /\ Cardinality(OfPrincipal(grown, q)) = IF q = p THEN Cardinality(OfPrincipal(live, q)) + 1
                                                       ELSE Cardinality(OfPrincipal(live, q))
  <2> DEFINE P == OfPrincipal(live, q)
  <2>1. P \subseteq live /\ e \notin P
    BY DEF OfPrincipal
  <2> HIDE DEF P
  <2>2. IsFiniteSet(P) /\ Cardinality(P) \in Nat
    BY <1>1, <2>1, LiveIsFinite
  <2>3. Cardinality(P \cup {e}) = IF e \in P THEN Cardinality(P) ELSE Cardinality(P) + 1
    BY ONLY <2>2, FS_AddElement, Zenon
  <2>4. Cardinality(P \cup {e}) = Cardinality(P) + 1
    BY <2>1, <2>3
  <2> QED
    BY <1>9, <2>2, <2>4 DEF P
<1>11. Cardinality(grown) = Cardinality(live) + 1 /\ Cardinality(live) \in Nat
  <2>1. IsFiniteSet(live) /\ Cardinality(live) \in Nat
    BY <1>1, LiveIsFinite
  <2> HIDE DEF live
  <2>2. Cardinality(grown) = IF e \in live THEN Cardinality(live) ELSE Cardinality(live) + 1
    BY <2>1, FS_AddElement
  <2> QED
    BY <2>1, <2>2 DEF live
<1>12. CacheType(d)
  <2>1. d.entries \in [grown -> 0..(MaxNow + Ttl)] /\ grown \subseteq Event
    <3>1. t + Ttl \in 0..(MaxNow + Ttl)
      BY <1>3
    <3> QED
      BY <1>3, <1>4, <3>1
  <2>2. d.order \in Seq(Event)
    BY <1>3, <1>6, AppendShows
  <2>3. d.queues \in [Principal -> Seq(Event)]
    <3>1. CASE kind = "http"
      <4>1. d.queues = [c.queues EXCEPT ![p] = Append(c.queues[p], e)]
        BY <1>2, <3>1 DEF IsGrown
      <4>2. Append(c.queues[p], e) \in Seq(Event)
        BY <1>3, AppendShows
      <4> QED
        BY <1>3, <4>1, <4>2
    <3>2. CASE kind # "http"
      BY <1>2, <1>3, <3>2 DEF IsGrown
    <3> QED
      BY <3>1, <3>2
  <2>4. d.counts \in [Principal -> Nat]
    <3>1. CASE kind = "iroh"
      <4>1. d.counts = [c.counts EXCEPT ![p] = c.counts[p] + 1]
        BY <1>2, <3>1 DEF IsGrown
      <4>2. c.counts[p] + 1 \in Nat
        BY <1>3
      <4> QED
        BY <1>3, <4>1, <4>2
    <3>2. CASE kind # "iroh"
      BY <1>2, <1>3, <3>2 DEF IsGrown
    <3> QED
      BY <3>1, <3>2
  <2>5. d = [entries |-> d.entries, order |-> d.order, queues |-> d.queues, counts |-> d.counts]
    BY <1>2 DEF IsGrown
  <2> QED
    BY <1>5, <2>1, <2>2, <2>3, <2>4, <2>5 DEF CacheType
<1>13. Described(d)
  <2>1. Range(d.order) = Range(c.order) \cup {e}
    BY <1>3, <1>6, AppendShows
  <2>2. grown \subseteq Range(d.order)
    BY <1>1, <2>1 DEF Described
  <2>3. ASSUME kind = "http", NEW q \in Principal
        PROVE  Range(d.queues[q]) = OfPrincipal(grown, q) /\ IsInjective(d.queues[q])
    <3>1. Range(c.queues[q]) = OfPrincipal(live, q) /\ IsInjective(c.queues[q]) /\ c.queues[q] \in Seq(Event)
      BY <1>1, <1>3, <2>3 DEF Described
    <3>2. e \notin OfPrincipal(live, q)
      BY DEF OfPrincipal
    <3>3. CASE q = p
      <4>1. d.queues[q] = Append(c.queues[q], e)
        BY <1>7, <2>3, <3>3
      <4>2. Range(d.queues[q]) = Range(c.queues[q]) \cup {e} /\ IsInjective(d.queues[q])
        BY <3>1, <3>2, <4>1, AppendShows
      <4> QED
        BY <1>9, <3>1, <3>3, <4>2
    <3>4. CASE q # p
      BY <1>7, <1>9, <3>1, <3>4
    <3> QED
      BY <3>3, <3>4
  <2>4. ASSUME kind = "iroh"
        PROVE  /\ \A q \in Principal : d.counts[q] = Cardinality(OfPrincipal(grown, q))
               /\ Range(d.order) = grown /\ IsInjective(d.order)
    <3>1. /\ \A q \in Principal : c.counts[q] = Cardinality(OfPrincipal(live, q))
          /\ Range(c.order) = live /\ IsInjective(c.order)
      BY <1>1, <2>4 DEF Described
    <3>2. Range(d.order) = grown
      BY <2>1, <3>1
    <3>3. IsInjective(d.order)
      BY <1>3, <1>6, <3>1, AppendShows
    <3>4. ASSUME NEW q \in Principal PROVE d.counts[q] = Cardinality(OfPrincipal(grown, q))
      <4>1. c.counts[q] = Cardinality(OfPrincipal(live, q))
        BY <3>1
      <4>2. d.counts[q] = IF q = p THEN c.counts[q] + 1 ELSE c.counts[q]
        BY <1>8, <2>4
      <4>3. Cardinality(OfPrincipal(grown, q)) = IF q = p THEN Cardinality(OfPrincipal(live, q)) + 1
                                                 ELSE Cardinality(OfPrincipal(live, q))
        BY <1>10, Zenon
      <4> HIDE DEF live, grown, p
      <4> QED
        BY <4>1, <4>2, <4>3
    <3> QED
      BY <3>2, <3>3, <3>4
  <2> HIDE DEF grown
  <2> QED
    BY <1>5, <2>2, <2>3, <2>4 DEF Described
<1>14. Limited(d)
  <2>1. Cardinality(grown) <= Capacity
    <3> HIDE DEF grown
    <3> QED
      BY <1>3, <1>11
  <2>2. ASSUME kind # "admin", NEW q \in Principal PROVE Cardinality(OfPrincipal(grown, q)) <= PerPrincipal
    <3>1. Cardinality(OfPrincipal(live, q)) <= PerPrincipal
      BY <1>1, <2>2 DEF Limited
    <3>2. q = p => Cardinality(OfPrincipal(live, q)) < PerPrincipal
      BY <2>2
    <3>3. /\ Cardinality(OfPrincipal(live, q)) \in Nat
          /\ Cardinality(OfPrincipal(grown, q)) = IF q = p THEN Cardinality(OfPrincipal(live, q)) + 1
                                                  ELSE Cardinality(OfPrincipal(live, q))
      BY <1>10
    <3> HIDE DEF live, grown, p
    <3> QED
      BY <1>3, <3>1, <3>2, <3>3
  <2> HIDE DEF grown
  <2> QED
    BY <1>5, <2>1, <2>2 DEF Limited
<1>15. Lasting(d)
  <2> SUFFICES ASSUME NEW x \in grown PROVE CreatedAt[x] + Ttl <= d.entries[x] + Future
    BY <1>5 DEF Lasting
  <2>1. CASE x = e
    <3>1. d.entries[x] = t + Ttl
      BY <1>4, <2>1
    <3> QED
      BY <1>3, <2>1, <3>1
  <2>2. CASE x # e
    <3>1. x \in live /\ d.entries[x] = c.entries[x]
      BY <1>4, <2>2
    <3> QED
      BY <1>1, <3>1 DEF Lasting
  <2> QED
    BY <2>1, <2>2
<1>16. Counted(d, u2, o2, a2)
  <2> DEFINE s == c.order
  <2>0. s \in Seq(Event) /\ AllCounted(s, u, a) /\ (kind = "iroh" => OwnCounted(s, u, o)) /\ d.order = Append(s, e)
    BY <1>1, <1>3, <1>6 DEF Counted
  <2> HIDE DEF s
  <2>1. AllCounted(d.order, u2, a2)
    <3>1. AllCounted(Append(s, e), u2, a2)
      BY <2>0, AllCountedAppend
    <3> QED
      BY <2>0, <3>1
  <2>2. kind = "iroh" => OwnCounted(d.order, u2, o2)
    <3>1. kind = "iroh" => OwnCounted(Append(s, e), u2, o2)
      BY <2>0, OwnCountedAppend
    <3> QED
      BY <2>0, <3>1
  <2>3. ASSUME kind = "http", NEW q \in Principal PROVE OwnCounted(d.queues[q], u2, o2)
    <3> DEFINE w == c.queues[q]
    <3>1. OwnCounted(w, u, o) /\ w \in Seq(Event)
      BY <1>1, <1>3, <2>3 DEF Counted
    <3>2. d.queues[q] = IF q = p THEN Append(w, e) ELSE w
      BY <1>7, <2>3
    <3> HIDE DEF w
    <3>3. OwnCounted(Append(w, e), u2, o2)
      BY <3>1, OwnCountedAppend
    <3>4. OwnCounted(w, u2, o2)
      BY <3>1, OwnCountedSame
    <3> QED
      BY <3>2, <3>3, <3>4
  <2> QED
    BY <2>1, <2>2, <2>3 DEF Counted
<1> QED
  BY <1>5, <1>12, <1>13, <1>14, <1>15, <1>16 DEF CacheInv, d

-----------------------------------------------------------------------------
(* The invariant.                                                          *)

\* What a request in flight is known to be when it marks its event.
Timely(e) == CreatedAt[e] <= now + Future

\* A step that sets the cache to d, of the same kind.
LEMMA CacheBecomes ==
    ASSUME NEW d, CacheType(d), SetCache(d), kind' = kind,
           NEW u, NEW o, NEW a, CacheInv(d, u, o, a), used' = u, ownSince' = o, allSince' = a
    PROVE  Cache' = d /\ CacheInv(Cache, used, ownSince, allSince)'
<1>1. d = [entries |-> d.entries, order |-> d.order, queues |-> d.queues, counts |-> d.counts]
  BY DEF CacheType
<1>2. Cache' = [entries |-> entries', order |-> order', queues |-> queues', counts |-> counts']
  BY DEF Cache
<1>3. Cache' = d
  BY <1>1, <1>2 DEF SetCache
<1>4. CacheType(Cache)' /\ Lasting(Cache)'
  BY <1>3 DEF CacheInv, CacheType, Lasting
<1>5. Described(Cache)' /\ Limited(Cache)'
  BY <1>3 DEF CacheInv, Described, Limited
<1>6. Counted(Cache, used, ownSince, allSince)'
  BY <1>3 DEF CacheInv, Counted
<1> QED
  BY <1>3, <1>4, <1>5, <1>6 DEF CacheInv

\* An entry that has expired is of an event that is over.
LEMMA ExpiredIsOver ==
    ASSUME now \in Nat, NEW c, CacheType(c), Lasting(c), NEW e \in DOMAIN c.entries, c.entries[e] <= now
    PROVE  Over(e)
<1>1. e \in Event /\ c.entries[e] \in Nat
  <2>1. MaxNow + Ttl \in Nat
    BY ReplayAssumption
  <2> QED
    BY <2>1 DEF CacheType
<1>2. CreatedAt[e] + Ttl <= c.entries[e] + Future
  BY DEF Lasting
<1>3. CreatedAt[e] \in Nat /\ Ttl \in Nat /\ Future \in Nat /\ Age \in Nat /\ Timeout \in Nat
  BY <1>1, ReplayAssumption
<1> QED
  BY <1>1, <1>2, <1>3 DEF Over

\* Why a second use of e may be accepted.
Forgotten(e) == Crowded(e, ownSince, allSince) \/ Over(e)

\* Accepting an event: the cache, and what becomes of the others.
LEMMA AcceptKeeps ==
    ASSUME Inv, NEW e \in Event, Timely(e), kind' = kind,
           e \notin DOMAIN PruneExpired(Cache, now).entries,
           SetCache(CheckAndInsert(PruneExpired(Cache, now), e, now)), RecordUse(e), now' = now
    PROVE  /\ CacheInv(Cache, used, ownSince, allSince)' /\ HistoryType' /\ Remembered'
           /\ \A x \in Event : used[x] = 1 /\ used'[x] = 2 => x = e /\ Forgotten(x)
<1> DEFINE u == used
           o == ownSince
           a == allSince
           c == PruneExpired(Cache, now)
           p == PrincipalOf[e]
           c1 == EvictOwn(c, p)
           c2 == EvictOldest(c1)
           d == Insert(c2, e, now + Ttl)
<1>1. /\ u \in [Event -> Nat] /\ o \in [Event -> Nat] /\ a \in [Event -> Nat] /\ HistoryType
      /\ CacheInv(Cache, u, o, a) /\ now \in 0..MaxNow /\ kind \in {"http", "iroh", "admin"} /\ p \in Principal
  BY ReplayAssumption DEF Inv, HistoryType
<1>2. now \in Nat /\ Capacity \in Nat /\ PerPrincipal \in Nat
  BY <1>1, ReplayAssumption
<1>3. Accepted(e, u, o, a, used', ownSince', allSince')
  BY <1>1, UseIsAccepted
<1>4. CheckAndInsert(c, e, now) = d
  BY DEF CheckAndInsert
<1>5. e \notin DOMAIN c.entries
  OBVIOUS
<1>6. /\ CacheInv(c, u, o, a) /\ DOMAIN c.entries \subseteq DOMAIN entries
      /\ \A x \in DOMAIN entries \ DOMAIN c.entries : entries[x] <= now
  <2>1. Cache.entries = entries
    BY DEF Cache
  <2> QED
    BY <1>1, <2>1, PruneKeeps
<1> HIDE DEF c
<1>7. OwnRoom(c1, c, p, u, o, a)
  BY <1>1, <1>6, OwnKeeps
<1> HIDE DEF c1
<1>8. /\ CacheInv(c1, u, o, a) /\ DOMAIN c1.entries \subseteq DOMAIN c.entries
      /\ kind # "admin" => Cardinality(OfPrincipal(DOMAIN c1.entries, p)) < PerPrincipal
      /\ \A x \in DOMAIN c.entries \ DOMAIN c1.entries :
            kind # "admin" /\ PrincipalOf[x] = p /\ (u[x] = 1 => o[x] + 1 >= PerPrincipal)
  BY <1>7 DEF OwnRoom
<1>9. /\ CacheInv(c2, u, o, a) /\ DOMAIN c2.entries \subseteq DOMAIN c1.entries
      /\ Cardinality(DOMAIN c2.entries) < Capacity
      /\ \A x \in DOMAIN c1.entries \ DOMAIN c2.entries : u[x] = 1 => a[x] + 1 >= Capacity
  BY <1>1, <1>8, OldestKeeps
<1> HIDE DEF c2
<1>10. kind # "admin" => Cardinality(OfPrincipal(DOMAIN c2.entries, p)) < PerPrincipal
  <2> DEFINE A == OfPrincipal(DOMAIN c1.entries, p)
             B == OfPrincipal(DOMAIN c2.entries, p)
  <2>1. A \subseteq DOMAIN c1.entries /\ B \subseteq A
    BY <1>9 DEF OfPrincipal
  <2> HIDE DEF A, B
  <2>2. IsFiniteSet(A) /\ Cardinality(A) \in Nat /\ Cardinality(B) \in Nat
    BY <1>8, <2>1, LiveIsFinite DEF CacheInv
  <2>3. Cardinality(B) <= Cardinality(A)
    BY <2>1, <2>2, FS_Subset
  <2>4. kind # "admin" => Cardinality(A) < PerPrincipal
    BY <1>8 DEF A
  <2>5. kind # "admin" => Cardinality(B) < PerPrincipal
    BY <1>2, <2>2, <2>3, <2>4
  <2> QED
    BY <2>5 DEF B
<1>11. e \notin DOMAIN c2.entries
  BY <1>5, <1>8, <1>9
<1>12. CacheInv(d, used', ownSince', allSince') /\ DOMAIN d.entries = DOMAIN c2.entries \cup {e}
  <2> DEFINE u2 == used'
             o2 == ownSince'
             a2 == allSince'
  <2>1. Entering(c2, e, now, u, o, a, u2, o2, a2)
    BY <1>1, <1>3, <1>9, <1>10, <1>11 DEF Timely, Entering
  <2> HIDE DEF u, o, a, u2, o2, a2
  <2>3. CacheInv(d, u2, o2, a2) /\ DOMAIN d.entries = DOMAIN c2.entries \cup {e}
    BY <2>1, InsertKeeps
  <2> QED
    BY <2>3 DEF u2, o2, a2
<1> HIDE DEF d
<1>13. SetCache(d)
  BY <1>4 DEF c
<1>14. CacheInv(Cache, used, ownSince, allSince)'
  BY <1>12, <1>13, CacheBecomes DEF CacheInv
<1>15. DOMAIN entries' = DOMAIN c2.entries \cup {e}
  BY <1>12, <1>13 DEF SetCache
<1>16. HistoryType'
  BY <1>3 DEF Accepted, HistoryType
<1>17. ASSUME NEW x \in Event, x \in DOMAIN entries, x \notin DOMAIN c.entries PROVE Over(x)
  <2>1. CacheType(Cache) /\ Lasting(Cache) /\ Cache.entries = entries
    BY <1>1 DEF CacheInv, Cache
  <2>2. entries[x] <= now
    BY <1>6, <1>17
  <2> QED
    BY <1>2, <1>17, <2>1, <2>2, ExpiredIsOver
<1>18. ASSUME NEW x \in Event, used'[x] = 1
       PROVE  x \in DOMAIN entries' \/ Crowded(x, ownSince, allSince)' \/ Over(x)'
  <2>1. CASE x = e
    BY <1>15, <2>1
  <2>2. CASE x # e
    <3>1. u[x] = 1 /\ u[x] >= 1
      BY <1>3, <1>18, <2>2 DEF Accepted
    <3>2. /\ a[x] \in Nat /\ o[x] \in Nat /\ allSince'[x] = a[x] + 1
          /\ ownSince'[x] \in Nat /\ ownSince'[x] >= o[x]
          /\ PrincipalOf[x] = p => ownSince'[x] = o[x] + 1
      BY <1>1, <1>3, <2>2, <3>1 DEF Accepted
    <3>3. Over(x) => Over(x)'
      BY DEF Over
    <3>4. CASE x \in DOMAIN entries
      <4>1. CASE x \notin DOMAIN c.entries
        BY <1>17, <3>3, <3>4, <4>1
      <4>2. CASE x \in DOMAIN c.entries /\ x \notin DOMAIN c1.entries
        <5>1. kind # "admin" /\ PrincipalOf[x] = p /\ o[x] + 1 >= PerPrincipal
          BY <1>8, <3>1, <4>2
        <5>2. ownSince'[x] >= PerPrincipal
          BY <3>2, <5>1
        <5> QED
          BY <5>1, <5>2 DEF Crowded
      <4>3. CASE x \in DOMAIN c1.entries /\ x \notin DOMAIN c2.entries
        <5>1. a[x] + 1 >= Capacity
          BY <1>9, <3>1, <4>3
        <5>2. allSince'[x] >= Capacity
          BY <3>2, <5>1
        <5> QED
          BY <5>2 DEF Crowded
      <4>4. CASE x \in DOMAIN c2.entries
        BY <1>15, <4>4
      <4> QED
        BY <4>1, <4>2, <4>3, <4>4
    <3>5. CASE Crowded(x, ownSince, allSince)
      <4>1. (kind # "admin" /\ o[x] >= PerPrincipal) \/ a[x] >= Capacity
        BY <3>5 DEF Crowded
      <4>2. (kind # "admin" /\ ownSince'[x] >= PerPrincipal) \/ allSince'[x] >= Capacity
        BY <1>2, <3>2, <4>1
      <4> QED
        BY <4>2 DEF Crowded
    <3>6. CASE Over(x)
      BY <3>3, <3>6
    <3> QED
      BY <3>1, <3>4, <3>5, <3>6 DEF Inv, Remembered
  <2> QED
    BY <2>1, <2>2
<1>19. ASSUME NEW x \in Event, used[x] = 1, used'[x] = 2 PROVE x = e /\ Forgotten(x)
  <2>1. x = e
    BY <1>3, <1>19 DEF Accepted
  <2>2. e \in DOMAIN entries => Over(e)
    BY <1>5, <1>17
  <2> QED
    BY <1>19, <2>1, <2>2 DEF Inv, Remembered, Forgotten
<1> QED
  BY <1>14, <1>16, <1>18, <1>19 DEF Remembered

\* Refusing an event: the expired entries go.
LEMMA RefuseKeeps ==
    ASSUME Inv, SetCache(PruneExpired(Cache, now)), kind' = kind, UNCHANGED history, now' = now
    PROVE  CacheInv(Cache, used, ownSince, allSince)' /\ HistoryType' /\ Remembered'
<1> DEFINE c == PruneExpired(Cache, now)
<1>1. /\ used' = used /\ ownSince' = ownSince /\ allSince' = allSince
      /\ HistoryType /\ CacheInv(Cache, used, ownSince, allSince) /\ now \in 0..MaxNow
  BY DEF Inv, history
<1>2. /\ CacheInv(c, used, ownSince, allSince) /\ DOMAIN c.entries \subseteq DOMAIN entries
      /\ \A x \in DOMAIN entries \ DOMAIN c.entries : entries[x] <= now
  <2>1. Cache.entries = entries
    BY DEF Cache
  <2>2. used \in [Event -> Nat] /\ ownSince \in [Event -> Nat] /\ allSince \in [Event -> Nat]
    BY <1>1 DEF HistoryType
  <2> QED
    BY <1>1, <2>1, <2>2, PruneKeeps
<1>3. SetCache(c)
  OBVIOUS
<1> HIDE DEF c
<1>4. CacheInv(Cache, used, ownSince, allSince)'
  BY <1>1, <1>2, <1>3, CacheBecomes DEF CacheInv
<1>5. entries' = c.entries
  BY <1>3 DEF SetCache
<1>6. ASSUME NEW x \in Event, x \in DOMAIN entries, x \notin DOMAIN entries' PROVE Over(x)
  <2>1. CacheType(Cache) /\ Lasting(Cache) /\ Cache.entries = entries /\ now \in Nat
    BY <1>1, ReplayAssumption DEF CacheInv, Cache
  <2>2. entries[x] <= now
    BY <1>2, <1>5, <1>6
  <2> QED
    BY <1>6, <2>1, <2>2, ExpiredIsOver
<1>7. Remembered'
  <2> SUFFICES ASSUME NEW x \in Event, used[x] = 1, x \notin DOMAIN entries'
               PROVE  Crowded(x, ownSince, allSince)' \/ Over(x)'
    BY <1>1 DEF Remembered
  <2>1. Crowded(x, ownSince, allSince) \/ Over(x)
    BY <1>6 DEF Inv, Remembered
  <2> QED
    BY <1>1, <2>1 DEF Crowded, Over
<1> QED
  BY <1>1, <1>4, <1>7 DEF HistoryType

\* Marking an event, refused or accepted.
LEMMA MarkKeeps ==
    ASSUME Inv, NEW s \in Slot, slots[s] # Free, Timely(slots[s].event), MarkOnce(s)
    PROVE  /\ Inv'
           /\ \A x \in Event : used[x] = 1 /\ used'[x] = 2 => x = slots[s].event /\ Forgotten(x)
<1> DEFINE e == slots[s].event
           c == PruneExpired(Cache, now)
<1>1. e \in Event
  BY DEF Inv, SlotInv
<1>2. kind' = kind /\ now' = now /\ slots' = [slots EXCEPT ![s] = Free]
  BY DEF MarkOnce
<1>3. kind' \in Kinds /\ now' \in 0..MaxNow /\ SlotInv'
  <2>1. SlotInv'
    <3>1. slots' \in [Slot -> {Free} \cup [event : Event, at : Nat]]
      BY <1>2 DEF Inv, SlotInv
    <3>2. ASSUME NEW r \in Slot, slots'[r] # Free
          PROVE  Valid(slots'[r].event, slots'[r].at) /\ slots'[r].at <= now'
      <4>1. slots'[r] = slots[r] /\ slots[r] # Free
        BY <1>2, <3>2 DEF Inv, SlotInv
      <4> QED
        BY <1>2, <4>1 DEF Inv, SlotInv
    <3> QED
      BY <3>1, <3>2 DEF SlotInv, Valid, Free
  <2> QED
    BY <1>2, <2>1 DEF Inv
<1>4. CASE e \in DOMAIN c.entries /\ SetCache(c) /\ UNCHANGED history
  <2>1. CacheInv(Cache, used, ownSince, allSince)' /\ HistoryType' /\ Remembered'
    BY <1>2, <1>4, RefuseKeeps
  <2>2. used' = used
    BY <1>4 DEF history
  <2>3. Inv'
    BY <1>3, <2>1 DEF Inv
  <2> QED
    BY <2>2, <2>3
<1>5. CASE e \notin DOMAIN c.entries /\ SetCache(CheckAndInsert(c, e, now)) /\ RecordUse(e)
  <2>1. /\ CacheInv(Cache, used, ownSince, allSince)' /\ HistoryType' /\ Remembered'
        /\ \A x \in Event : used[x] = 1 /\ used'[x] = 2 => x = e /\ Forgotten(x)
    BY <1>1, <1>2, <1>5, AcceptKeeps
  <2>2. Inv'
    BY <1>3, <2>1 DEF Inv
  <2> QED
    BY <2>1, <2>2
<1> QED
  BY <1>4, <1>5 DEF MarkOnce

\* An event is timely when it is marked, and then it is only over if a stream
\* took its time: http and admin verify again.
LEMMA MarkedInTime ==
    ASSUME Inv, NEW s \in Slot, MarkAuthEventOnce(s) \/ CommitAuthEvent(s)
    PROVE  /\ slots[s] # Free /\ Timely(slots[s].event) /\ MarkOnce(s)
           /\ Over(slots[s].event) => kind = "iroh" /\ now - slots[s].at >= Ttl - Future - Age
<1> DEFINE e == slots[s].event
           at == slots[s].at
<1>1. slots[s] # Free /\ MarkOnce(s)
  BY DEF MarkAuthEventOnce, CommitAuthEvent
<1>2. slots[s] \in [event : Event, at : Nat]
  BY <1>1 DEF Inv, SlotInv
<1>3. e \in Event /\ at \in Nat
  BY <1>2
<1>4. CreatedAt[e] \in Nat /\ now \in Nat /\ Age \in Nat /\ Future \in Nat /\ Ttl \in Nat
  BY <1>3, ReplayAssumption DEF Inv
<1>5. Valid(e, at) /\ at <= now
  BY <1>1 DEF Inv, SlotInv
<1>6. CASE Valid(e, now)
  <2>1. CreatedAt[e] <= now + Future /\ now - CreatedAt[e] <= Age
    BY <1>6 DEF Valid
  <2> HIDE DEF e
  <2>2. Timely(e) /\ ~Over(e)
    BY <1>4, <2>1, EntriesOutliveEvents DEF Timely, Over
  <2> QED
    BY <1>1, <2>2 DEF e
<1>7. CASE kind = "iroh"
  <2>1. CreatedAt[e] <= at + Future /\ at - CreatedAt[e] <= Age
    BY <1>5 DEF Valid
  <2> HIDE DEF e, at
  <2>2. Timely(e) /\ (Over(e) => now - at >= Ttl - Future - Age)
    BY <1>3, <1>4, <1>5, <2>1 DEF Timely, Over
  <2> QED
    BY <1>1, <1>7, <2>2 DEF e, at
<1> QED
  BY <1>6, <1>7 DEF MarkAuthEventOnce, CommitAuthEvent

LEMMA EmptyCacheKeeps ==
    CacheInv(EmptyCache, Unused, Unused, Unused)
<1> DEFINE c == EmptyCache
<1>1. /\ c.entries = [e \in {} |-> 0] /\ c.order = <<>>
      /\ c.queues = [p \in Principal |-> <<>>] /\ c.counts = [p \in Principal |-> 0]
      /\ c = [entries |-> c.entries, order |-> c.order, queues |-> c.queues, counts |-> c.counts]
  BY DEF EmptyCache
<1> HIDE DEF c
<1>2. DOMAIN c.entries = {} /\ \A p \in Principal : c.queues[p] = <<>> /\ c.counts[p] = 0
  BY <1>1
<1>3. Range(<<>>) = {} /\ IsInjective(<<>>) /\ Len(<<>>) = 0 /\ <<>> \in Seq(Event)
  BY DEF Range, IsInjective
<1>4. \A p \in Principal : OfPrincipal(DOMAIN c.entries, p) = {}
  BY <1>2 DEF OfPrincipal
<1>5. CacheType(c)
  <2>1. c.entries \in [DOMAIN c.entries -> 0..(MaxNow + Ttl)]
    BY <1>1
  <2> QED
    BY <1>1, <1>2, <1>3, <2>1 DEF CacheType
<1>6. Described(c)
  BY <1>1, <1>2, <1>3, <1>4, FS_EmptySet DEF Described
<1>7. Limited(c)
  <2>1. Cardinality({}) <= Capacity /\ Cardinality({}) <= PerPrincipal
    BY FS_EmptySet, ReplayAssumption
  <2> QED
    BY <1>2, <1>4, <2>1 DEF Limited
<1>8. Lasting(c)
  BY <1>2 DEF Lasting
<1>9. Counted(c, Unused, Unused, Unused)
  <2>1. 1..Len(<<>>) = {}
    BY <1>3
  <2> QED
    BY <1>1, <1>2, <2>1 DEF Counted, AllCounted, OwnCounted
<1> QED
  BY <1>5, <1>6, <1>7, <1>8, <1>9 DEF CacheInv, c

LEMMA UnusedIsTyped ==
    Unused \in [Event -> Nat] /\ \A e \in Event : Unused[e] # 1
  BY DEF Unused

LEMMA InitInv ==
    ASSUME Init
    PROVE  Inv
<1>1. Cache = EmptyCache /\ used = Unused /\ ownSince = Unused /\ allSince = Unused
  BY DEF Init, Cache, EmptyCache
<1>2. HistoryType /\ Remembered
  BY <1>1, UnusedIsTyped DEF HistoryType, Remembered
<1>3. CacheInv(Cache, used, ownSince, allSince)
  BY <1>1, EmptyCacheKeeps
<1>4. SlotInv
  BY DEF Init, SlotInv
<1>5. kind \in Kinds /\ now \in 0..MaxNow
  BY ReplayAssumption DEF Init
<1> QED
  BY <1>2, <1>3, <1>4, <1>5 DEF Inv

\* A step that leaves the cache and the history alone.
LEMMA SameCache ==
    ASSUME Inv, UNCHANGED <<kind, cacheVars, history>>, now' \in 0..MaxNow, now' >= now, SlotInv'
    PROVE  Inv'
<1>1. /\ kind' = kind /\ used' = used /\ ownSince' = ownSince /\ allSince' = allSince
      /\ entries' = entries /\ order' = order /\ queues' = queues /\ counts' = counts
  BY DEF cacheVars, history
<1>2. Cache' = Cache
  BY <1>1 DEF Cache
<1>3. CacheInv(Cache, used, ownSince, allSince)'
  <2>1. CacheType(Cache)' /\ Lasting(Cache)'
    BY <1>2 DEF Inv, CacheInv, CacheType, Lasting
  <2>2. Described(Cache)' /\ Limited(Cache)'
    BY <1>1, <1>2 DEF Inv, CacheInv, Described, Limited
  <2>3. Counted(Cache, used, ownSince, allSince)'
    BY <1>1, <1>2 DEF Inv, CacheInv, Counted
  <2> QED
    BY <2>1, <2>2, <2>3 DEF CacheInv
<1>4. HistoryType'
  BY <1>1 DEF Inv, HistoryType
<1>5. Remembered'
  <2> SUFFICES ASSUME NEW e \in Event, used[e] = 1
               PROVE  e \in DOMAIN entries \/ Crowded(e, ownSince, allSince)' \/ Over(e)'
    BY <1>1 DEF Remembered
  <2>1. e \in DOMAIN entries \/ Crowded(e, ownSince, allSince) \/ Over(e)
    BY DEF Inv, Remembered
  <2>2. Crowded(e, ownSince, allSince) => Crowded(e, ownSince, allSince)'
    BY <1>1 DEF Crowded
  <2>3. Over(e) => Over(e)'
    <3>1. now \in Nat /\ now' \in Nat /\ CreatedAt[e] \in Nat /\ Future \in Nat /\ Ttl \in Nat
      BY ReplayAssumption DEF Inv
    <3> QED
      BY <3>1 DEF Over
  <2> QED
    BY <2>1, <2>2, <2>3
<1> QED
  BY <1>1, <1>3, <1>4, <1>5 DEF Inv

\* What the other actions do to the slots.
SlotsMove ==
    \/ slots' = slots
    \/ \E s \in Slot : slots' = [slots EXCEPT ![s] = Free]
    \/ \E s \in Slot, e \in Event : Valid(e, now) /\ slots' = [slots EXCEPT ![s] = [event |-> e, at |-> now]]

LEMMA SlotsKept ==
    ASSUME Inv, SlotsMove, now' \in Nat, now' >= now
    PROVE  SlotInv'
<1>1. now \in Nat
  BY ReplayAssumption DEF Inv
<1>2. ASSUME NEW r \in Slot
      PROVE  /\ slots'[r] \in {Free} \cup [event : Event, at : Nat]
             /\ slots'[r] # Free => Valid(slots'[r].event, slots'[r].at) /\ slots'[r].at <= now'
  <2>1. /\ slots[r] \in {Free} \cup [event : Event, at : Nat]
        /\ slots[r] # Free => Valid(slots[r].event, slots[r].at) /\ slots[r].at <= now
    BY DEF Inv, SlotInv
  <2>2. CASE slots'[r] = slots[r]
    <3>1. slots[r] # Free => slots[r].at \in Nat
      BY <2>1
    <3> QED
      BY <1>1, <2>1, <2>2, <3>1
  <2>3. CASE slots'[r] = Free
    BY <2>3
  <2>4. CASE \E e \in Event : Valid(e, now) /\ slots'[r] = [event |-> e, at |-> now]
    BY <1>1, <2>4
  <2> QED
    BY <2>2, <2>3, <2>4 DEF Inv, SlotInv, SlotsMove
<1>3. slots' = [r \in Slot |-> slots'[r]]
  BY DEF Inv, SlotInv, SlotsMove
<1>4. slots' \in [Slot -> {Free} \cup [event : Event, at : Nat]]
  BY <1>2, <1>3
<1> QED
  BY <1>2, <1>4 DEF SlotInv, Valid, Free

LEMMA RestartKeeps ==
    ASSUME Inv, Restart
    PROVE  Inv'
<1>1. /\ used' = Unused /\ ownSince' = Unused /\ allSince' = Unused /\ kind' = kind /\ now' = now
      /\ SetCache(EmptyCache) /\ slots' = [s \in Slot |-> Free]
  BY DEF Restart
<1>2. CacheInv(EmptyCache, Unused, Unused, Unused) /\ CacheType(EmptyCache)
  BY EmptyCacheKeeps DEF CacheInv
<1>3. CacheInv(Cache, used, ownSince, allSince)'
  BY <1>1, <1>2, CacheBecomes
<1>4. HistoryType' /\ Remembered'
  BY <1>1, UnusedIsTyped DEF HistoryType, Remembered
<1>5. SlotInv'
  BY <1>1 DEF SlotInv, Free
<1> QED
  BY <1>1, <1>3, <1>4, <1>5 DEF Inv

LEMMA NextInv ==
    ASSUME Inv, [Next]_vars
    PROVE  Inv'
<1>0. now \in Nat /\ now \in 0..MaxNow /\ MaxNow \in Nat
  BY ReplayAssumption DEF Inv
<1>1. ASSUME NEW s \in Slot, NEW e \in Event, VerifyClaims(s, e) PROVE Inv'
  <2>1. now' = now /\ UNCHANGED <<kind, cacheVars, history>>
    BY <1>1 DEF VerifyClaims
  <2>2. Valid(e, now) /\ slots' = [slots EXCEPT ![s] = [event |-> e, at |-> now]]
    BY <1>1 DEF VerifyClaims
  <2>3. SlotInv'
    <3>1. SlotsMove
      BY <2>2 DEF SlotsMove
    <3> QED
      BY <1>0, <2>1, <3>1, SlotsKept
  <2> QED
    BY <1>0, <2>1, <2>3, SameCache
<1>2. ASSUME NEW s \in Slot, MarkAuthEventOnce(s) \/ CommitAuthEvent(s) PROVE Inv'
  BY <1>2, MarkedInTime, MarkKeeps
<1>3. ASSUME NEW s \in Slot, Abandon(s) PROVE Inv'
  <2>1. now' = now /\ UNCHANGED <<kind, cacheVars, history>> /\ slots' = [slots EXCEPT ![s] = Free]
    BY <1>3 DEF Abandon
  <2>2. SlotInv'
    <3>1. SlotsMove
      BY <2>1 DEF SlotsMove
    <3> QED
      BY <1>0, <2>1, <3>1, SlotsKept
  <2> QED
    BY <1>0, <2>1, <2>2, SameCache
<1>4. CASE Restart
  BY <1>4, RestartKeeps
<1>5. CASE Tick
  <2>1. now' = now + 1 /\ now < MaxNow /\ UNCHANGED <<kind, cacheVars, history>> /\ slots' = slots
    BY <1>5 DEF Tick
  <2>2. now' \in 0..MaxNow /\ now' \in Nat /\ now' >= now
    BY <1>0, <2>1
  <2>3. SlotInv'
    BY <2>1, <2>2, SlotsKept DEF SlotsMove
  <2> QED
    BY <2>1, <2>2, <2>3, SameCache
<1>6. CASE UNCHANGED vars
  <2>1. now' = now /\ UNCHANGED <<kind, cacheVars, history>> /\ slots' = slots
    BY <1>6 DEF vars
  <2>2. SlotInv'
    BY <1>0, <2>1, SlotsKept DEF SlotsMove
  <2> QED
    BY <1>0, <2>1, <2>2, SameCache
<1> QED
  BY <1>1, <1>2, <1>3, <1>4, <1>5, <1>6 DEF Next

\* The invariant holds in every reachable state of every instance.
THEOREM Invariance == Spec => []Inv
<1>1. Init => Inv
  BY InitInv
<1>2. Inv /\ [Next]_vars => Inv'
  BY NextInv
<1> QED
  BY <1>1, <1>2, PTL DEF Spec

-----------------------------------------------------------------------------
(* The results.                                                            *)

LEMMA InvImpliesIndexes ==
    ASSUME Inv
    PROVE  TypeOK /\ IndexesDescribeEntries
<1>1. /\ Cache.entries = entries /\ Cache.order = order
      /\ Cache.queues = queues /\ Cache.counts = counts
  BY DEF Cache
<1>2. CacheType(Cache) /\ Described(Cache) /\ Limited(Cache)
  BY DEF Inv, CacheInv
<1>3. \A s \in Slot : slots[s] = Free \/ slots[s].event \in Event
  BY DEF Inv, SlotInv
<1>4. TypeOK
  BY <1>1, <1>2, <1>3 DEF Inv, TypeOK, CacheType
<1>5. IndexesDescribeEntries
  BY <1>1, <1>2 DEF Described, Limited, IndexesDescribeEntries
<1> QED
  BY <1>4, <1>5

\* The variables stay in their state space whatever is verified, marked,
\* abandoned, pruned or evicted.
THEOREM TypeCorrect == Spec => []TypeOK
<1>1. Inv => TypeOK
  BY InvImpliesIndexes
<1> QED
  BY <1>1, Invariance, PTL

\* check_and_insert, prune_expired and the evictions of the three caches keep
\* the per-principal indexes and the order in step with the entries, and the
\* entries within REPLAY_CACHE_CAPACITY and REPLAY_CACHE_PER_PRINCIPAL.
THEOREM IndexesAreRight == Spec => []IndexesDescribeEntries
<1>1. Inv => IndexesDescribeEntries
  BY InvImpliesIndexes
<1> QED
  BY <1>1, Invariance, PTL

\* mark_auth_event_once and commit_auth_event accept an event a second time only
\* after PerPrincipal events of its principal, or Capacity events of anyone, or
\* in an iroh stream that took Ttl - Future - Age from verification to commit:
\* for any limits, any number of requests in flight and any lifetimes with
\* Future + Age < Ttl, as the code's are.
THEOREM AcceptedOnce == Spec => AtMostOnceUnlessCrowdedOut
<1>1. ASSUME Inv, [Next]_vars
      PROVE  [\A e \in Event : (used[e] = 1 /\ used'[e] = 2) =>
                 \/ kind # "admin" /\ ownSince[e] >= PerPrincipal
                 \/ allSince[e] >= Capacity
                 \/ \E s \in Slot : slots[s] # Free /\ slots[s].event = e /\ CommitsLate(s)]_vars
  <2> DEFINE Goal(e) == \/ Crowded(e, ownSince, allSince)
                        \/ \E s \in Slot : slots[s] # Free /\ slots[s].event = e /\ CommitsLate(s)
  <2> SUFFICES ASSUME Next, NEW e \in Event, used[e] = 1, used'[e] = 2
               PROVE  Goal(e)
    BY <1>1 DEF Crowded
  <2>1. ASSUME NEW s \in Slot, MarkAuthEventOnce(s) \/ CommitAuthEvent(s)
        PROVE  Goal(e)
    <3>1. /\ slots[s] # Free /\ Timely(slots[s].event) /\ MarkOnce(s)
          /\ Over(slots[s].event) => kind = "iroh" /\ now - slots[s].at >= Ttl - Future - Age
      BY <1>1, <2>1, MarkedInTime
    <3>2. e = slots[s].event /\ Forgotten(e)
      BY <1>1, <3>1, MarkKeeps
    <3>3. slots'[s] = Free
      BY <1>1, <3>1 DEF MarkOnce, Inv, SlotInv
    <3> QED
      BY <3>1, <3>2, <3>3 DEF Forgotten, CommitsLate
  <2>2. ASSUME used' = used PROVE FALSE
    BY <2>2
  <2>3. ASSUME used' = Unused PROVE FALSE
    BY <2>3 DEF Unused
  <2> QED
    BY <2>1, <2>2, <2>3 DEF Next, VerifyClaims, Abandon, Restart, Tick, history
<1> QED
  BY <1>1, Invariance, PTL DEF Spec, AtMostOnceUnlessCrowdedOut
=============================================================================
