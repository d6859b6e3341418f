---------------------------- MODULE StorageProofs ----------------------------
(***************************************************************************)
(* Proofs about what lies under a hash.  LfsStore, for any contents, files *)
(* and limits: version numbers are unique, records come and go with their  *)
(* bytes, nothing is stored under a hash that was not made from its        *)
(* content, and GET returns the content through chains of deltas, rebases  *)
(* and deletions.  StorageBackends, for any set of hashes and encodings:   *)
(* the index describes the store, and each backend implements BlobStore.   *)
(***************************************************************************)
EXTENDS LfsStore, StorageBackends, WellFoundedInduction, TLAPS

-----------------------------------------------------------------------------
(* Recursive functions.                                                    *)


\* A set of naturals with a member has a least one: proofs by induction look at the
\* least counterexample.
LEMMA LeastNatural ==
    ASSUME NEW S, S \subseteq Nat, S # {}
    PROVE  \E m \in S : \A k \in S : m <= k
<1>1. PICK m \in S : \A k \in S : ~(<<k, m>> \in OpToRel(<, Nat))
  BY NatLessThanWellFounded, WFMin
<1>2. \A k \in S : ~(k < m)
  BY <1>1 DEF OpToRel
<1> QED BY <1>2

\* A recursive function over 0..N exists when its step maps S into S.
Iterates(f, S, N, first, step) ==
    f \in [0..N -> S] /\ f[0] = first /\ \A n \in 1..N : f[n] = step[n][f[n-1]]

LEMMA IterationExists ==
    ASSUME NEW S, NEW N \in Nat, NEW first \in S, NEW step \in [1..N -> [S -> S]]
    PROVE  \E f : Iterates(f, S, N, first, step)
<1> DEFINE Good(n) == {f \in [0..n -> S] : f[0] = first /\ \A k \in 1..n : f[k] = step[k][f[k-1]]}
           Bad == {n \in 0..N : Good(n) = {}}
<1>1. SUFFICES ASSUME Bad # {} PROVE FALSE
  <2>1. ASSUME Bad = {} PROVE \E f : Iterates(f, S, N, first, step)
    <3>1. N \in 0..N /\ N \notin Bad
      <4> HIDE DEF Bad
      <4> QED BY <2>1
    <3>2. Good(N) # {}
      BY <3>1
    <3> QED BY <3>2 DEF Iterates
  <2> HIDE DEF Bad
  <2> QED BY <2>1
<1>2. PICK m \in Bad : \A k \in Bad : m <= k
  <2>1. Bad \subseteq Nat
    OBVIOUS
  <2> HIDE DEF Bad
  <2> QED BY <1>1, <2>1, LeastNatural
<1>3. m \in 0..N /\ Good(m) = {}
  OBVIOUS
<1>4. m # 0
  <2>1. [k \in 0..0 |-> first] \in Good(0)
    OBVIOUS
  <2> QED BY <1>3, <2>1
<1>5. m - 1 \in 0..N /\ m \in 1..N /\ m - 1 \notin Bad
  <2>1. m \in 0..N
    BY <1>3
  <2> HIDE DEF Bad
  <2> QED BY <1>2, <1>4, <2>1
<1>6. PICK g \in [0..(m-1) -> S] : g[0] = first /\ \A k \in 1..(m-1) : g[k] = step[k][g[k-1]]
  BY <1>5
<1> DEFINE f == [k \in 0..m |-> IF k = m THEN step[m][g[m-1]] ELSE g[k]]
<1>7. step[m][g[m-1]] \in S
  BY <1>5, <1>6
<1>8. f \in [0..m -> S] /\ f[0] = first
  BY <1>5, <1>6, <1>7
<1>9. ASSUME NEW k \in 1..m PROVE f[k] = step[k][f[k-1]]
  <2>1. CASE k = m
    BY <1>5, <2>1
  <2>2. CASE k # m
    BY <1>5, <1>6, <2>2
  <2> QED BY <2>1, <2>2
<1>10. f \in Good(m)
  BY <1>8, <1>9
<1> QED BY <1>3, <1>10

\* What follows such a recursion is one.
LEMMA FollowsIterates ==
    ASSUME NEW S, NEW N \in Nat, NEW first \in S, NEW step \in [1..N -> [S -> S]],
           NEW g, g = [n \in 0..N |-> g[n]], g[0] = first,
           \A n \in 1..N : g[n-1] \in S => g[n] = step[n][g[n-1]]
    PROVE  Iterates(g, S, N, first, step)
<1> DEFINE B == {n \in 0..N : g[n] \notin S}
<1>1. ASSUME B # {} PROVE FALSE
  <2>1. PICK m \in B : \A k \in B : m <= k
    <3>1. B \subseteq Nat
      OBVIOUS
    <3> HIDE DEF B
    <3> QED BY <1>1, <3>1, LeastNatural
  <2>2. m \in 0..N /\ g[m] \notin S /\ m # 0
    OBVIOUS
  <2>3. m - 1 \in 0..N /\ m \in 1..N /\ m - 1 \notin B
    <3> HIDE DEF B
    <3> QED BY <2>1, <2>2
  <2>4. g[m-1] \in S
    BY <2>3
  <2>5. g[m] = step[m][g[m-1]] /\ step[m] \in [S -> S]
    BY <2>3, <2>4
  <2> HIDE DEF B
  <2> QED BY <2>2, <2>4, <2>5
<1>2. \A n \in 0..N : g[n] \in S
  BY <1>1
<1>3. \A n \in 1..N : n - 1 \in 0..N
  OBVIOUS
<1> HIDE DEF B
<1>4. g \in [0..N -> S]
  BY <1>2
<1>5. \A n \in 1..N : g[n] = step[n][g[n-1]]
  BY <1>2, <1>3
<1> QED BY <1>4, <1>5 DEF Iterates

-----------------------------------------------------------------------------
(* Records picked by their positions.                                      *)

\* m numbers the positions I of vs, in order, and r lists what is there.
Numbers(m, r, vs, I) ==
    /\ m \in [1..Len(r) -> I]
    /\ \A k, l \in 1..Len(r) : k < l => m[k] < m[l]
    /\ \A i \in I : \E k \in 1..Len(r) : m[k] = i
    /\ \A k \in 1..Len(r) : r[k] = vs[m[k]]

\* f solves the recursion in Pick.
Picks(f, vs, I, T) ==
    /\ f \in [0..Len(vs) -> Seq(T)] /\ f[0] = <<>>
    /\ \A n \in 1..Len(vs) : f[n] = IF n \in I THEN Append(f[n-1], vs[n]) ELSE f[n-1]

\* Pick follows its recursion.
LEMMA PickIs ==
    ASSUME NEW T, NEW vs \in Seq(T), NEW I
    PROVE  \E f : Picks(f, vs, I, T) /\ Pick(vs, I) = f[Len(vs)]
<1> DEFINE N == Len(vs)
           Is(f) == f = [n \in 0..N |-> IF n = 0 THEN <<>>
                                        ELSE IF n \in I THEN Append(f[n-1], vs[n]) ELSE f[n-1]]
           S == Seq(T)
           step == [n \in 1..N |-> [s \in S |-> IF n \in I THEN Append(s, vs[n]) ELSE s]]
           picked == CHOOSE f : Is(f)
<1>1. N \in Nat /\ <<>> \in S
  OBVIOUS
<1>2. \A n \in 1..N : \A s \in S : (IF n \in I THEN Append(s, vs[n]) ELSE s) \in S
  OBVIOUS
<1> HIDE DEF N, S
<1>3. step \in [1..N -> [S -> S]]
  BY <1>2
<1>4. PICK f \in [0..N -> S] : f[0] = <<>> /\ \A n \in 1..N : f[n] = step[n][f[n-1]]
  <2> HIDE DEF step
  <2>1. \E f : Iterates(f, S, N, <<>>, step)
    BY <1>1, <1>3, IterationExists
  <2> QED BY <2>1 DEF Iterates
<1>5. ASSUME NEW n \in 1..N PROVE f[n] = IF n \in I THEN Append(f[n-1], vs[n]) ELSE f[n-1]
  <2>1. f[n-1] \in S /\ f[n] = step[n][f[n-1]]
    <3>1. n - 1 \in 0..N
      BY <1>1
    <3> HIDE DEF step
    <3> QED BY <1>4, <3>1
  <2> QED BY <2>1
<1>6. Is(f)
  <2>1. ASSUME NEW n \in 0..N
        PROVE f[n] = IF n = 0 THEN <<>> ELSE IF n \in I THEN Append(f[n-1], vs[n]) ELSE f[n-1]
    <3>1. n = 0 \/ n \in 1..N
      BY <1>1
    <3> HIDE DEF step
    <3> QED BY <1>4, <1>5, <3>1
  <2> HIDE DEF step
  <2> QED BY <1>4, <2>1
<1>7. Is(picked)
  BY <1>6, Zenon
<1>8. Pick(vs, I) = picked[N]
  BY DEF Pick, N
<1> HIDE DEF picked, step
<1>9. \A n \in 0..N : picked[n] = IF n = 0 THEN <<>> ELSE IF n \in I THEN Append(picked[n-1], vs[n]) ELSE picked[n-1]
  BY <1>7
<1>10. /\ picked = [n \in 0..N |-> picked[n]] /\ picked[0] = <<>>
       /\ \A n \in 1..N : picked[n] = IF n \in I THEN Append(picked[n-1], vs[n]) ELSE picked[n-1]
  <2>1. 0 \in 0..N /\ \A n \in 1..N : n # 0 /\ n \in 0..N
    BY <1>1
  <2> QED BY <1>7, <1>9, <2>1
<1>11. Iterates(picked, S, N, <<>>, step)
  <2>1. \A n \in 1..N : picked[n-1] \in S => picked[n] = step[n][picked[n-1]]
    BY <1>10 DEF step
  <2> QED BY <1>1, <1>3, <1>10, <2>1, FollowsIterates
<1>12. Picks(picked, vs, I, T)
  BY <1>10, <1>11 DEF Iterates, N, S, Picks
<1> QED BY <1>8, <1>12 DEF N

\* Pick lists the records at the given positions, each once and in order.
LEMMA PickNumbers ==
    ASSUME NEW T, NEW vs \in Seq(T), NEW I \in SUBSET (1..Len(vs))
    PROVE  Pick(vs, I) \in Seq(T) /\ \E m : Numbers(m, Pick(vs, I), vs, I)
<1>0. PICK f : Picks(f, vs, I, T) /\ Pick(vs, I) = f[Len(vs)]
  BY PickIs
<1>1. /\ f \in [0..Len(vs) -> Seq(T)] /\ f[0] = <<>>
      /\ \A n \in 1..Len(vs) : f[n] = IF n \in I THEN Append(f[n-1], vs[n]) ELSE f[n-1]
  BY <1>0 DEF Picks
<1> DEFINE N == Len(vs)
           J(n) == I \cap (1..n)
           B == {n \in 0..N : ~\E m : Numbers(m, f[n], vs, J(n))}
<1>2. N \in Nat
  OBVIOUS
<1>3. ASSUME B # {} PROVE FALSE
  <2>1. PICK n \in B : \A k \in B : n <= k
    <3>1. B \subseteq Nat
      OBVIOUS
    <3> HIDE DEF B
    <3> QED BY <1>3, <3>1, LeastNatural
  <2>2. n \in 0..N /\ ~\E m : Numbers(m, f[n], vs, J(n))
    OBVIOUS
  <2>3. n # 0
    <3>1. J(0) = {} /\ f[0] = <<>> /\ Len(<<>>) = 0
      BY <1>1
    <3>2. Numbers(<<>>, f[0], vs, J(0))
      BY <3>1 DEF Numbers
    <3> QED BY <2>2, <3>2
  <2>4. n - 1 \in 0..N /\ n \in 1..N /\ n - 1 \notin B
    <3> HIDE DEF B
    <3> QED BY <2>1, <2>2, <2>3
  <2>5. PICK m : Numbers(m, f[n-1], vs, J(n-1))
    BY <2>4
  <2> DEFINE s == f[n-1]
  <2>6. s \in Seq(T) /\ Len(s) \in Nat
    BY <1>1, <2>4
  <2>7. m \in [1..Len(s) -> J(n-1)] /\ (\A k, l \in 1..Len(s) : k < l => m[k] < m[l])
        /\ (\A i \in J(n-1) : \E k \in 1..Len(s) : m[k] = i) /\ (\A k \in 1..Len(s) : s[k] = vs[m[k]])
    BY <2>5 DEF Numbers
  <2>8. CASE n \notin I
    <3>1. f[n] = s /\ J(n) = J(n-1)
      BY <1>1, <2>4, <2>8
    <3> QED BY <2>2, <2>5, <3>1
  <2>9. CASE n \in I
    <3> DEFINE r == Append(s, vs[n])
               m2 == [k \in 1..(Len(s) + 1) |-> IF k = Len(s) + 1 THEN n ELSE m[k]]
    <3>1. f[n] = r /\ J(n) = J(n-1) \cup {n} /\ vs[n] \in T
      <4>1. f[n] = r
        BY <1>1, <2>4, <2>9
      <4>2. J(n) = J(n-1) \cup {n} /\ vs[n] \in T
        BY <2>4, <2>9
      <4> QED BY <4>1, <4>2
    <3>2. Len(r) = Len(s) + 1 /\ r[Len(s) + 1] = vs[n] /\ \A k \in 1..Len(s) : r[k] = s[k]
      BY <2>6, <3>1
    <3> HIDE DEF r, s
    <3>3. \A k \in 1..Len(s) : m2[k] = m[k] /\ m[k] \in J(n) /\ m[k] < n
      BY <2>4, <2>6, <2>7, <3>1
    <3>4. m2[Len(s) + 1] = n /\ n \in J(n)
      BY <2>6, <3>1
    <3> HIDE DEF J
    <3>5. m2 \in [1..Len(r) -> J(n)]
      <4>1. 1..Len(r) = 1..(Len(s) + 1)
        BY <3>2
      <4>2. ASSUME NEW k \in 1..(Len(s) + 1) PROVE (IF k = Len(s) + 1 THEN n ELSE m[k]) \in J(n)
        <5>1. k = Len(s) + 1 \/ k \in 1..Len(s)
          BY <2>6
        <5> QED BY <3>3, <3>4, <5>1
      <4> QED BY <4>1, <4>2
    <3> HIDE DEF m2
    <3>6. \A k \in 1..Len(r) : k \in 1..Len(s) \/ k = Len(s) + 1
      BY <2>6, <3>2
    <3>7. \A k, l \in 1..Len(r) : k < l => m2[k] < m2[l]
      <4> SUFFICES ASSUME NEW k \in 1..Len(r), NEW l \in 1..Len(r), k < l PROVE m2[k] < m2[l]
        OBVIOUS
      <4>1. k \in 1..Len(s)
        BY <2>6, <3>2
      <4> QED BY <2>7, <3>3, <3>4, <3>6, <4>1
    <3>8. \A i \in J(n) : \E k \in 1..Len(r) : m2[k] = i
      <4>1. Len(s) + 1 \in 1..Len(r) /\ \A k \in 1..Len(s) : k \in 1..Len(r)
        BY <2>6, <3>2
      <4> QED BY <2>7, <3>1, <3>3, <3>4, <4>1
    <3>9. \A k \in 1..Len(r) : r[k] = vs[m2[k]]
      BY <2>7, <3>2, <3>3, <3>4, <3>6
    <3> QED BY <2>2, <3>1, <3>5, <3>7, <3>8, <3>9 DEF Numbers
  <2> QED BY <2>8, <2>9
<1>4. \E m : Numbers(m, f[N], vs, J(N))
  <2>1. N \in 0..N /\ N \notin B
    <3> HIDE DEF B, N
    <3> QED BY <1>2, <1>3
  <2> QED BY <2>1
<1>5. J(N) = I
  OBVIOUS
<1>6. f[N] \in Seq(T)
  <2> DEFINE S == Seq(T)
  <2>1. f \in [0..N -> S] /\ N \in 0..N
    BY <1>1, <1>2
  <2> HIDE DEF S, N
  <2>2. f[N] \in S
    BY <2>1
  <2> QED BY <2>2 DEF S
<1> HIDE DEF J
<1> QED BY <1>0, <1>4, <1>5, <1>6

-----------------------------------------------------------------------------
(* What the version table says of each content.                            *)

\* What get_by_sha256 returns is the oldest record.
LEMMA GetBySha256Is ==
    ASSUME NEW vs, NEW h \in Hash
    PROVE  GetBySha256(vs)[h] = IF Oldest(vs, h) = 0 THEN NoRecord ELSE vs[Oldest(vs, h)]
BY DEF GetBySha256

\* The oldest record comes first, and there is one unless h has no record.
LEMMA OldestIs ==
    ASSUME NEW T, NEW vs \in Seq(T), NEW h
    PROVE  \/ Oldest(vs, h) = 0 /\ \A i \in 1..Len(vs) : vs[i].sha # h
           \/ /\ Oldest(vs, h) \in 1..Len(vs) /\ vs[Oldest(vs, h)].sha = h
              /\ \A i \in 1..Len(vs) : vs[i].sha = h => Oldest(vs, h) <= i
<1> DEFINE I == {i \in 1..Len(vs) : vs[i].sha = h}
<1>1. CASE I = {}
  BY <1>1 DEF Oldest
<1>2. CASE I # {}
  <2>1. I \subseteq Nat /\ Oldest(vs, h) = Min(I)
    BY <1>2 DEF Oldest
  <2> HIDE DEF I
  <2>2. \E i \in I : \A j \in I : i <= j
    BY <1>2, <2>1, LeastNatural
  <2>3. Min(I) \in I /\ \A j \in I : Min(I) <= j
    BY <2>2, Zenon DEF Min
  <2> QED BY <2>1, <2>3 DEF I
<1> QED BY <1>1, <1>2

\* A position that is the oldest one.
LEMMA OldestAt ==
    ASSUME NEW T, NEW vs \in Seq(T), NEW h, NEW i \in 1..Len(vs), vs[i].sha = h,
           \A j \in 1..Len(vs) : vs[j].sha = h => i <= j
    PROVE  Oldest(vs, h) = i
<1>1. Oldest(vs, h) \in 1..Len(vs) /\ vs[Oldest(vs, h)].sha = h /\ Oldest(vs, h) <= i
  BY OldestIs
<1>2. i <= Oldest(vs, h)
  BY <1>1
<1> QED BY <1>1, <1>2

\* A delta names its base.
Rows == {r \in Records : r.storage = "delta" => r.base \in Hash}

\* Without a record get_by_sha256 finds nothing, else a record of that content.
LEMMA RecordIs ==
    ASSUME NEW vs \in Seq(Rows), NEW h \in Hash
    PROVE  LET r == GetBySha256(vs)[h] IN
           \/ Oldest(vs, h) = 0 /\ r = NoRecord /\ r.storage = "none"
           \/ Oldest(vs, h) \in 1..Len(vs) /\ r = vs[Oldest(vs, h)] /\ r \in Rows /\ r.sha = h /\ r.storage # "none"
<1>1. CASE Oldest(vs, h) = 0
  BY <1>1, GetBySha256Is DEF NoRecord
<1>2. CASE Oldest(vs, h) # 0
  <2> DEFINE o == Oldest(vs, h)
  <2>1. o \in 1..Len(vs) /\ vs[o].sha = h
    BY <1>2, OldestIs
  <2>2. GetBySha256(vs)[h] = vs[o]
    BY <1>2, GetBySha256Is
  <2> HIDE DEF o
  <2>3. vs[o] \in Rows
    BY <2>1
  <2>4. vs[o].storage # "none"
    BY <2>3 DEF Rows, Records
  <2> QED BY <2>1, <2>2, <2>3, <2>4 DEF o
<1> QED BY <1>1, <1>2

\* A new record speaks for its content where there was none.
LEMMA AppendedRecord ==
    ASSUME NEW vs \in Seq(Rows), NEW r \in Rows, NEW h \in Hash
    PROVE  GetBySha256(Append(vs, r))[h] =
             IF h = r.sha /\ GetBySha256(vs)[h].storage = "none" THEN r ELSE GetBySha256(vs)[h]
<1> DEFINE ws == Append(vs, r)
           n == Len(vs) + 1
<1>1. ws \in Seq(Rows) /\ Len(ws) = n /\ ws[n] = r /\ Len(vs) \in Nat
  OBVIOUS
<1>2. \A i \in 1..Len(vs) : i \in 1..n /\ ws[i] = vs[i]
  OBVIOUS
<1> HIDE DEF ws
<1>3. \A i \in 1..n : i \in 1..Len(vs) \/ i = n
  BY <1>1
<1>4. CASE Oldest(vs, h) # 0
  <2>1. Oldest(vs, h) \in 1..Len(vs) /\ vs[Oldest(vs, h)].sha = h
        /\ \A i \in 1..Len(vs) : vs[i].sha = h => Oldest(vs, h) <= i
    BY <1>4, OldestIs
  <2> DEFINE o == Oldest(vs, h)
  <2>2. o \in 1..Len(ws) /\ ws[o].sha = h
    BY <1>1, <1>2, <2>1
  <2>3. \A i \in 1..Len(ws) : ws[i].sha = h => o <= i
    BY <1>1, <1>2, <1>3, <2>1
  <2>4. Oldest(ws, h) = o
    BY <1>1, <2>2, <2>3, OldestAt
  <2>5. GetBySha256(ws)[h] = vs[o] /\ GetBySha256(vs)[h] = vs[o]
    BY <1>2, <1>4, <2>1, <2>4, GetBySha256Is
  <2>6. GetBySha256(vs)[h].storage # "none"
    BY <1>4, RecordIs
  <2> QED BY <2>5, <2>6 DEF ws
<1>5. CASE Oldest(vs, h) = 0
  <2>1. \A i \in 1..Len(vs) : vs[i].sha # h
    BY <1>5, OldestIs
  <2>2. GetBySha256(vs)[h] = NoRecord /\ GetBySha256(vs)[h].storage = "none"
    BY <1>5, RecordIs
  <2>3. CASE h = r.sha
    <3>1. n \in 1..Len(ws) /\ ws[n].sha = h
      BY <1>1, <2>3
    <3>2. \A i \in 1..Len(ws) : ws[i].sha = h => n <= i
      BY <1>1, <1>2, <1>3, <2>1
    <3>3. Oldest(ws, h) = n
      BY <1>1, <3>1, <3>2, OldestAt
    <3>4. n # 0
      BY <1>1
    <3> HIDE DEF n
    <3>5. GetBySha256(ws)[h] = r
      BY <1>1, <3>3, <3>4, GetBySha256Is
    <3> QED BY <2>2, <2>3, <3>5 DEF ws
  <2>4. CASE h # r.sha
    <3>1. \A i \in 1..Len(ws) : ws[i].sha # h
      BY <1>1, <1>2, <1>3, <2>1, <2>4
    <3>2. Oldest(ws, h) = 0
      BY <1>1, <3>1, OldestIs
    <3>3. GetBySha256(ws)[h] = NoRecord
      BY <3>2, GetBySha256Is
    <3> QED BY <2>2, <2>4, <3>3 DEF ws
  <2> QED BY <2>3, <2>4
<1> QED BY <1>4, <1>5

\* The records of two tables of the same length are of the same contents, and
\* numbered in the same way.
SameRows(vs, ws) ==
    /\ ws \in Seq(Rows) /\ Len(ws) = Len(vs)
    /\ \A i \in 1..Len(vs) : ws[i].sha = vs[i].sha /\ ws[i].file = vs[i].file /\ ws[i].version = vs[i].version

\* They have the same oldest records.
LEMMA SameOldest ==
    ASSUME NEW vs \in Seq(Rows), NEW ws, SameRows(vs, ws), NEW h
    PROVE  Oldest(ws, h) = Oldest(vs, h)
<1>1. ws \in Seq(Rows) /\ Len(ws) = Len(vs) /\ \A i \in 1..Len(vs) : ws[i].sha = vs[i].sha
  BY DEF SameRows
<1>2. CASE Oldest(vs, h) = 0
  <2>1. \A i \in 1..Len(ws) : ws[i].sha # h
    BY <1>1, <1>2, OldestIs
  <2> QED BY <1>1, <1>2, <2>1, OldestIs
<1>3. CASE Oldest(vs, h) # 0
  <2> DEFINE o == Oldest(vs, h)
  <2>1. o \in 1..Len(vs) /\ vs[o].sha = h /\ \A i \in 1..Len(vs) : vs[i].sha = h => o <= i
    BY <1>3, OldestIs
  <2> HIDE DEF o
  <2>2. o \in 1..Len(ws) /\ ws[o].sha = h /\ \A i \in 1..Len(ws) : ws[i].sha = h => o <= i
    BY <1>1, <2>1
  <2>3. Oldest(ws, h) = o
    BY <1>1, <2>2, OldestAt
  <2> QED BY <2>3 DEF o
<1> QED BY <1>2, <1>3

\* update_version gives its content a record of full compressed bytes, and leaves
\* what the table says of the others.
LEMMA UpdatedRecord ==
    ASSUME NEW vs \in Seq(Rows), NEW d \in Hash
    PROVE  /\ SameRows(vs, UpdateVersion(vs, d))
           /\ \A h \in Hash :
                LET r == GetBySha256(vs)[h]  u == GetBySha256(UpdateVersion(vs, d))[h] IN
                IF h = d /\ r.storage # "none" THEN u.storage = "compressed" ELSE u = r
<1> DEFINE ws == UpdateVersion(vs, d)
           Full(r) == [r EXCEPT !.storage = "compressed", !.base = None]
           New(i) == IF vs[i].sha = d /\ (config.db = "memory" => i = Oldest(vs, d)) THEN Full(vs[i]) ELSE vs[i]
<1>1. DOMAIN vs = 1..Len(vs) /\ Len(vs) \in Nat
  OBVIOUS
<1>2. ASSUME NEW r \in Rows
      PROVE  /\ Full(r) \in Rows /\ Full(r).storage = "compressed"
             /\ Full(r).sha = r.sha /\ Full(r).file = r.file /\ Full(r).version = r.version
  <2>1. r \in Records
    BY DEF Rows
  <2>2. /\ Full(r) \in Records /\ Full(r).storage = "compressed"
        /\ Full(r).sha = r.sha /\ Full(r).file = r.file /\ Full(r).version = r.version
    BY <2>1 DEF Records
  <2> HIDE DEF Full
  <2> QED BY <2>2 DEF Rows
<1>3. ws = [i \in 1..Len(vs) |-> New(i)]
  BY <1>1 DEF UpdateVersion
<1> HIDE DEF ws
<1>4. ASSUME NEW i \in 1..Len(vs)
      PROVE  /\ ws[i] = New(i) /\ ws[i] \in Rows
             /\ ws[i].sha = vs[i].sha /\ ws[i].file = vs[i].file /\ ws[i].version = vs[i].version
  <2>1. vs[i] \in Rows
    OBVIOUS
  <2> HIDE DEF New
  <2>2. ws[i] = New(i)
    BY <1>3
  <2> HIDE DEF Full
  <2> QED BY <1>2, <2>1, <2>2 DEF New
<1>5. ws \in Seq(Rows) /\ Len(ws) = Len(vs)
  <2>1. ws \in [1..Len(vs) -> Rows]
    BY <1>3, <1>4
  <2> HIDE DEF New
  <2> QED BY <1>1, <2>1
<1>6. SameRows(vs, ws)
  BY <1>4, <1>5 DEF SameRows
<1>7. ASSUME NEW h \in Hash
      PROVE  LET r == GetBySha256(vs)[h]  u == GetBySha256(ws)[h] IN
             IF h = d /\ r.storage # "none" THEN u.storage = "compressed" ELSE u = r
  <2> DEFINE o == Oldest(vs, h)
  <2>1. Oldest(ws, h) = o
    BY <1>6, SameOldest
  <2>2. CASE o = 0
    <3>1. GetBySha256(ws)[h] = NoRecord /\ GetBySha256(vs)[h] = NoRecord /\ NoRecord.storage = "none"
      BY <2>1, <2>2, GetBySha256Is DEF NoRecord
    <3> QED BY <3>1
  <2>3. CASE o # 0
    <3>1. o \in 1..Len(vs) /\ vs[o].sha = h /\ vs[o].storage # "none"
      BY <2>3, RecordIs
    <3>2. GetBySha256(ws)[h] = ws[o] /\ GetBySha256(vs)[h] = vs[o]
      BY <2>1, <2>3, GetBySha256Is
    <3>3. h = d => o = Oldest(vs, d)
      OBVIOUS
    <3> HIDE DEF o
    <3> HIDE DEF Full, New
    <3>4. ws[o] = New(o) /\ vs[o] \in Rows
      BY <1>4, <3>1
    <3>5. CASE h = d
      <4>1. ws[o] = Full(vs[o])
        BY <3>1, <3>3, <3>4, <3>5 DEF New
      <4> QED BY <1>2, <3>1, <3>2, <3>4, <3>5, <4>1
    <3>6. CASE h # d
      <4>1. ws[o] = vs[o]
        BY <3>1, <3>4, <3>6 DEF New
      <4> QED BY <3>2, <3>6, <4>1
    <3> QED BY <3>5, <3>6
  <2> QED BY <2>2, <2>3
<1> QED BY <1>6, <1>7 DEF ws

\* No two records of a file have the same number.
Distinct(vs) ==
    \A i, j \in 1..Len(vs) : vs[i].file = vs[j].file /\ vs[i].version = vs[j].version => i = j

\* delete_by_sha256 leaves what the table says of the other contents.
Removed(ws, vs, h) ==
    /\ ws \in Seq(Rows)
    /\ Distinct(vs) => Distinct(ws)
    /\ \A x \in Hash : GetBySha256(ws)[x] = IF x = h THEN NoRecord ELSE GetBySha256(vs)[x]

LEMMA DeletedRecord ==
    ASSUME NEW vs \in Seq(Rows), NEW h \in Hash
    PROVE  Removed(DeleteBySha256(vs, h), vs, h)
<1> DEFINE ws == DeleteBySha256(vs, h)
           I == {i \in 1..Len(vs) : vs[i].sha # h}
<1>0. DOMAIN vs = 1..Len(vs)
  OBVIOUS
<1>1. ws = Pick(vs, I)
  BY <1>0, Zenon DEF DeleteBySha256
<1>2. I \in SUBSET (1..Len(vs))
  OBVIOUS
<1> HIDE DEF ws
<1>3. ws \in Seq(Rows) /\ \E m : Numbers(m, ws, vs, I)
  <2> HIDE DEF I
  <2> QED BY <1>1, <1>2, PickNumbers
<1>4. PICK m : Numbers(m, ws, vs, I)
  BY <1>3
<1>5. m \in [1..Len(ws) -> I] /\ (\A k, l \in 1..Len(ws) : k < l => m[k] < m[l])
      /\ (\A i \in I : \E k \in 1..Len(ws) : m[k] = i) /\ (\A k \in 1..Len(ws) : ws[k] = vs[m[k]])
  BY <1>4 DEF Numbers
<1>6. \A k \in 1..Len(ws) : m[k] \in 1..Len(vs) /\ ws[k] = vs[m[k]] /\ ws[k].sha # h
  BY <1>5
<1>7. Distinct(vs) => Distinct(ws)
  <2> SUFFICES ASSUME Distinct(vs), NEW i \in 1..Len(ws), NEW j \in 1..Len(ws),
                      ws[i].file = ws[j].file, ws[i].version = ws[j].version
               PROVE  i = j
    BY DEF Distinct
  <2>0. m[i] \in 1..Len(vs) /\ m[j] \in 1..Len(vs) /\ ws[i] = vs[m[i]] /\ ws[j] = vs[m[j]]
    BY <1>6
  <2> HIDE DEF I
  <2>1. m[i] = m[j] /\ m[i] \in Nat
    BY <2>0 DEF Distinct
  <2>2. i \in Nat /\ j \in Nat /\ ~(i < j) /\ ~(j < i)
    BY <1>3, <1>5, <2>1
  <2> QED BY <2>2
<1>8. ASSUME NEW x \in Hash
      PROVE  GetBySha256(ws)[x] = IF x = h THEN NoRecord ELSE GetBySha256(vs)[x]
  <2>1. CASE x = h
    <3>1. \A i \in 1..Len(ws) : ws[i].sha # x
      BY <1>6, <2>1
    <3>2. Oldest(ws, x) = 0
      BY <1>3, <3>1, OldestIs
    <3> QED BY <2>1, <3>2, GetBySha256Is
  <2>2. CASE x # h /\ Oldest(vs, x) = 0
    <3>1. \A i \in 1..Len(vs) : vs[i].sha # x
      BY <2>2, OldestIs
    <3>2. \A i \in 1..Len(ws) : ws[i].sha # x
      BY <1>6, <3>1
    <3>3. Oldest(ws, x) = 0
      BY <1>3, <3>2, OldestIs
    <3> QED BY <2>2, <3>3, GetBySha256Is
  <2>3. CASE x # h /\ Oldest(vs, x) # 0
    <3> DEFINE o == Oldest(vs, x)
    <3>1. o \in 1..Len(vs) /\ vs[o].sha = x /\ \A i \in 1..Len(vs) : vs[i].sha = x => o <= i
      BY <2>3, OldestIs
    <3>2. GetBySha256(vs)[x] = vs[o]
      BY <2>3, GetBySha256Is
    <3> HIDE DEF o
    <3>3. o \in I
      BY <2>3, <3>1
    <3> HIDE DEF I
    <3>4. PICK k \in 1..Len(ws) : m[k] = o
      BY <1>5, <3>3
    <3>5. ws[k] = vs[o] /\ ws[k].sha = x
      BY <1>6, <3>1, <3>4
    <3>6. ASSUME NEW l \in 1..Len(ws), ws[l].sha = x PROVE k <= l
      <4>1. o <= m[l] /\ m[l] \in Nat
        BY <1>6, <3>1, <3>6
      <4>2. ~(m[l] < m[k])
        BY <3>1, <3>4, <4>1
      <4>3. ~(l < k)
        BY <1>5, <4>2
      <4> QED BY <1>3, <4>3
    <3>7. Oldest(ws, x) = k
      BY <1>3, <3>5, <3>6, OldestAt
    <3>8. k # 0
      OBVIOUS
    <3>9. GetBySha256(ws)[x] = vs[o]
      BY <3>5, <3>7, <3>8, GetBySha256Is
    <3> QED BY <2>3, <3>2, <3>9
  <2> QED BY <2>1, <2>2, <2>3
<1> HIDE DEF I
<1> QED BY <1>3, <1>7, <1>8 DEF ws, Removed

\* get_deltas_for_base lists every content that is read as a delta of h.
LEMMA DeltasOfBase ==
    ASSUME NEW vs \in Seq(Rows), NEW h \in Hash
    PROVE  LET ds == GetDeltasForBase(vs, h) IN
           /\ ds \in Seq(Rows)
           /\ \A x \in Hash : GetBySha256(vs)[x].storage = "delta" /\ GetBySha256(vs)[x].base = h
                              => \E k \in 1..Len(ds) : ds[k].sha = x
<1> DEFINE ds == GetDeltasForBase(vs, h)
           I == {i \in 1..Len(vs) : vs[i].storage = "delta" /\ vs[i].base = h}
<1>0. DOMAIN vs = 1..Len(vs)
  OBVIOUS
<1>1. ds = Pick(vs, I)
  BY <1>0, Zenon DEF GetDeltasForBase
<1>2. I \in SUBSET (1..Len(vs))
  OBVIOUS
<1> HIDE DEF ds
<1>3. ds \in Seq(Rows) /\ \E m : Numbers(m, ds, vs, I)
  <2> HIDE DEF I
  <2> QED BY <1>1, <1>2, PickNumbers
<1>4. ASSUME NEW x \in Hash, GetBySha256(vs)[x].storage = "delta", GetBySha256(vs)[x].base = h
      PROVE  \E k \in 1..Len(ds) : ds[k].sha = x
  <2> DEFINE o == Oldest(vs, x)
  <2>1. o \in 1..Len(vs) /\ vs[o] = GetBySha256(vs)[x] /\ vs[o].sha = x
    BY <1>4, RecordIs
  <2> HIDE DEF o
  <2>2. o \in I
    BY <1>4, <2>1
  <2> HIDE DEF I
  <2> QED BY <1>3, <2>1, <2>2 DEF Numbers
<1> HIDE DEF I
<1> QED BY <1>3, <1>4 DEF ds

\* The number a new record gets is above those of its file.
LEMMA LatestVersion ==
    ASSUME NEW vs \in Seq(Rows), NEW f
    PROVE  /\ GetLatestVersion(vs, f) \in Nat
           /\ \A i \in 1..Len(vs) : vs[i].file = f => vs[i].version <= GetLatestVersion(vs, f)
<1> DEFINE I == {j \in 1..Len(vs) : vs[j].file = f}
           V == {0} \cup {vs[i].version : i \in I}
           Top(n) == \E v \in {0} \cup {vs[i].version : i \in {j \in I : j <= n}} :
                       \A j \in I : j <= n => vs[j].version <= v
           B == {n \in 0..Len(vs) : ~Top(n)}
<1>1. \A i \in 1..Len(vs) : vs[i].version \in Nat
  BY DEF Rows, Records
<1>2. ASSUME B # {} PROVE FALSE
  <2>1. PICK n \in B : \A k \in B : n <= k
    <3>1. B \subseteq Nat
      OBVIOUS
    <3> HIDE DEF B
    <3> QED BY <1>2, <3>1, LeastNatural
  <2>2. n \in 0..Len(vs) /\ ~Top(n)
    OBVIOUS
  <2>3. n # 0
    <3>1. Top(0)
      OBVIOUS
    <3> QED BY <2>2, <3>1
  <2>4. n - 1 \in 0..Len(vs) /\ n \in 1..Len(vs) /\ n - 1 \notin B
    <3> HIDE DEF B
    <3> QED BY <2>1, <2>2, <2>3
  <2>5. PICK v \in {0} \cup {vs[i].version : i \in {j \in I : j <= n-1}} : \A j \in I : j <= n-1 => vs[j].version <= v
    BY <2>4
  <2>6. v \in Nat
    BY <1>1, <2>5
  <2>7. CASE n \in I /\ vs[n].version > v
    <3>1. \A j \in I : j <= n => vs[j].version <= vs[n].version
      BY <1>1, <2>4, <2>5, <2>6, <2>7
    <3>2. vs[n].version \in {0} \cup {vs[i].version : i \in {j \in I : j <= n}}
      BY <2>4, <2>7
    <3> HIDE DEF I
    <3> QED BY <2>2, <3>1, <3>2
  <2>8. CASE ~(n \in I /\ vs[n].version > v)
    <3>1. \A j \in I : j <= n => vs[j].version <= v
      BY <1>1, <2>4, <2>5, <2>6, <2>8
    <3>2. v \in {0} \cup {vs[i].version : i \in {j \in I : j <= n}}
      BY <2>4, <2>5
    <3> QED BY <2>2, <3>1, <3>2
  <2> QED BY <2>7, <2>8
<1>3. Top(Len(vs))
  <2>1. Len(vs) \in 0..Len(vs)
    OBVIOUS
  <2> HIDE DEF Top
  <2> QED BY <1>2, <2>1
<1>4. \E v \in V : \A w \in V : w <= v
  <2>1. PICK v \in {0} \cup {vs[i].version : i \in {j \in I : j <= Len(vs)}} :
           \A j \in I : j <= Len(vs) => vs[j].version <= v
    BY <1>3
  <2>2. v \in V /\ v \in Nat
    BY <1>1, <2>1
  <2>3. \A j \in I : vs[j].version <= v
    BY <2>1
  <2> QED BY <2>2, <2>3
<1>5. V \subseteq Nat
  BY <1>1
<1>6. GetLatestVersion(vs, f) = Max(V)
  <2>1. DOMAIN vs = 1..Len(vs)
    OBVIOUS
  <2> QED BY <2>1, Zenon DEF GetLatestVersion
<1>7. \A i \in 1..Len(vs) : vs[i].file = f => vs[i].version \in V
  OBVIOUS
<1> HIDE DEF V
<1>8. Max(V) \in V /\ \A w \in V : w <= Max(V)
  <2>1. \E v \in V : \A w \in V : v >= w
    BY <1>4, <1>5
  <2>2. Max(V) \in V /\ \A w \in V : Max(V) >= w
    BY <2>1, Zenon DEF Max
  <2> QED BY <1>5, <2>2
<1> QED BY <1>5, <1>6, <1>7, <1>8

-----------------------------------------------------------------------------
(* Codecs.                                                                 *)

\* Contents, deltas and what zstd and xdelta3 make of them are bytes.
LEMMA PlainBytes ==
    ASSUME NEW h \in Hash
    PROVE  Plain(h) \in Bytes /\ Plain(h).of = h /\ Plain(h) # None
BY LfsAssumption DEF Plain, Bytes

LEMMA DeltaBytes ==
    ASSUME NEW h \in Hash, NEW b \in Hash \cup {None}
    PROVE  Delta(h, b) \in Bytes /\ Delta(h, b).of = h
BY DEF Delta, Bytes

\* What is compressed decompresses to what it was.
LEMMA CompressIs ==
    ASSUME NEW x \in Bytes
    PROVE  /\ Compress(x) \in Bytes /\ Compress(x).of = x.of /\ Compress(x) # None
           /\ Decompress(Compress(x)) = x
<1>1. Compress(x) \in Bytes /\ Compress(x).of = x.of
  BY DEF Compress, Bytes
<1>2. Compress(x) # None
  BY <1>1, LfsAssumption
<1>3. Decompress(Compress(x)) = x
  <2> DEFINE R(z) == [z |-> z, kind |-> x.kind, of |-> x.of, base |-> x.base]
  <2>1. x = R(x.z) /\ x.z \in Nat
    BY DEF Bytes
  <2>2. Compress(x) = R(x.z + 1)
    BY <2>1 DEF Compress, Bytes
  <2>3. R(x.z + 1).z = x.z + 1 /\ [R(x.z + 1) EXCEPT !.z = (x.z + 1) - 1] = R((x.z + 1) - 1)
    OBVIOUS
  <2>4. (x.z + 1) - 1 = x.z /\ x.z + 1 > 0
    BY <2>1
  <2> HIDE DEF R
  <2>5. Decompress(R(x.z + 1)) = R((x.z + 1) - 1)
    BY <2>3, <2>4 DEF Decompress
  <2> QED BY <2>1, <2>2, <2>4, <2>5
<1> QED BY <1>1, <1>2, <1>3

\* Where the codecs tell, decompressing keeps what the bytes were made from.
LEMMA DecompressIs ==
    ASSUME NEW x \in Bytes
    PROVE  Decompress(x) \in Bytes /\ (CodecsTell => Decompress(x).of = x.of)
BY DEF Decompress, Bytes, Junk, CodecsTell

\* Where the codecs tell, what is decoded from a delta is what the delta was made
\* from.
LEMMA DecodeIs ==
    ASSUME NEW src, NEW d \in Bytes
    PROVE  /\ DecodeDelta(src, d) \in Bytes \cup {None}
           /\ CodecsTell /\ DecodeDelta(src, d) # None => DecodeDelta(src, d).of = d.of
<1>1. Plain(d.of) \in Bytes /\ Plain(d.of).of = d.of /\ Junk \in Bytes
  BY DEF Plain, Junk, Bytes
<1> QED BY <1>1 DEF DecodeDelta, CodecsTell

\* A delta that fits, decoded against its source, gives the content.
LEMMA DecodeGives ==
    ASSUME NEW h \in Hash, NEW b \in Hash, DecodeFits(b, h)
    PROVE  DecodeDelta(Plain(b), Delta(h, b)) = Plain(h)
<1> DEFINE d == Delta(h, b)
<1>1. d.z = 0 /\ d.kind = "delta" /\ d.base = b /\ d.of = h /\ b # None
  BY LfsAssumption DEF Delta
<1> HIDE DEF d
<1>2. DecodeDelta(Plain(b), d) = Plain(h)
  BY <1>1 DEF DecodeDelta
<1> QED BY <1>2 DEF d

-----------------------------------------------------------------------------
(* Reading.                                                                *)

\* The contents of the backend.
Stores == [Hash -> Bytes \cup {None}]

\* What GetBySha256 returns.
Tells(rec) == \A h \in Hash : rec[h].storage = "delta" => rec[h].base \in Hash

LEMMA TableTells ==
    ASSUME NEW vs \in Seq(Rows)
    PROVE  Tells(GetBySha256(vs))
<1> SUFFICES ASSUME NEW h \in Hash, GetBySha256(vs)[h].storage = "delta"
             PROVE  GetBySha256(vs)[h].base \in Hash
  BY DEF Tells
<1>1. GetBySha256(vs)[h] \in Rows
  BY RecordIs
<1> QED BY <1>1 DEF Rows

\* Bytes that were read without a base.
LEMMA ReadBaseIs ==
    ASSUME NEW be \in Stores, NEW rec, NEW h \in Hash
    PROVE  /\ ReadBase(be, rec, h) \in Bytes \cup {None}
           /\ CodecsTell /\ ReadBase(be, rec, h) # None
              => be[h] # None /\ ReadBase(be, rec, h).of = be[h].of
<1>1. be[h] \in Bytes \cup {None}
  BY DEF Stores
<1> HIDE DEF Stores
<1> QED BY <1>1, DecompressIs DEF ReadBase

\* Bytes that were read through a delta.
LEMMA ReadDeltaIs ==
    ASSUME NEW be \in Stores, NEW src, NEW h \in Hash
    PROVE  /\ ReadDelta(be, h, src) \in Bytes \cup {None}
           /\ CodecsTell /\ ReadDelta(be, h, src) # None
              => be[h] # None /\ ReadDelta(be, h, src).of = be[h].of
<1>1. be[h] \in Bytes \cup {None}
  BY DEF Stores
<1>2. CASE src = None \/ be[h] = None
  BY <1>2 DEF ReadDelta
<1>3. CASE src # None /\ be[h] # None
  <2>1. be[h] \in Bytes /\ ReadDelta(be, h, src) = DecodeDelta(src, Decompress(be[h]))
    BY <1>1, <1>3 DEF ReadDelta
  <2>2. Decompress(be[h]) \in Bytes /\ (CodecsTell => Decompress(be[h]).of = be[h].of)
    BY <2>1, DecompressIs
  <2> QED BY <1>3, <2>1, <2>2, DecodeIs
<1> QED BY <1>2, <1>3

\* R solves the recursion in Reads.
ReadsWell(R, be, rec) ==
    /\ R \in [0..MaxDepth -> Stores]
    /\ \A h \in Hash : R[0][h] = ReadBase(be, rec, h)
    /\ \A n \in 1..MaxDepth : \A h \in Hash :
         R[n][h] = IF rec[h].storage = "none" THEN None
                   ELSE IF rec[h].storage = "delta" THEN ReadDelta(be, h, R[n-1][rec[h].base])
                   ELSE ReadBase(be, rec, h)

LEMMA ReadsAre ==
    ASSUME NEW be \in Stores, NEW rec, Tells(rec)
    PROVE  ReadsWell(Reads(be, rec), be, rec)
<1> DEFINE first == [h \in Hash |-> ReadBase(be, rec, h)]
           Turn(s) == [h \in Hash |->
                         IF rec[h].storage = "none" THEN None
                         ELSE IF rec[h].storage = "delta" THEN ReadDelta(be, h, s[rec[h].base])
                         ELSE ReadBase(be, rec, h)]
           step == [n \in 1..MaxDepth |-> [s \in Stores |-> Turn(s)]]
           Is(f) == f = [n \in 0..MaxDepth |->
                           [h \in Hash |->
                              IF n = 0 THEN ReadBase(be, rec, h)
                              ELSE IF rec[h].storage = "none" THEN None
                              ELSE IF rec[h].storage = "delta" THEN ReadDelta(be, h, f[n-1][rec[h].base])
                              ELSE ReadBase(be, rec, h)]]
           read == CHOOSE f : Is(f)
<1>1. MaxDepth \in Nat
  BY LfsAssumption
<1>2. first \in Stores /\ \A s : Turn(s) \in Stores
  <2>1. \A h \in Hash : ReadBase(be, rec, h) \in Bytes \cup {None}
    BY ReadBaseIs
  <2>2. \A h \in Hash : \A src : ReadDelta(be, h, src) \in Bytes \cup {None}
    BY ReadDeltaIs
  <2> QED BY <2>1, <2>2 DEF Stores
<1>3. step \in [1..MaxDepth -> [Stores -> Stores]]
  <2> HIDE DEF Turn
  <2> QED BY <1>2
<1>4. \E f : Iterates(f, Stores, MaxDepth, first, step)
  <2> HIDE DEF step, first
  <2> QED BY <1>1, <1>2, <1>3, IterationExists
<1>5. PICK f : Iterates(f, Stores, MaxDepth, first, step)
  BY <1>4
<1>6. f \in [0..MaxDepth -> Stores] /\ f[0] = first /\ \A n \in 1..MaxDepth : f[n] = Turn(f[n-1])
  <2>1. \A n \in 1..MaxDepth : n - 1 \in 0..MaxDepth
    BY <1>1
  <2> HIDE DEF Turn, first
  <2>2. f \in [0..MaxDepth -> Stores] /\ f[0] = first /\ \A n \in 1..MaxDepth : f[n] = step[n][f[n-1]]
    BY <1>5 DEF Iterates
  <2> QED BY <2>1, <2>2
<1>7. Is(f)
  <2>1. ASSUME NEW n \in 0..MaxDepth
        PROVE  f[n] = [h \in Hash |->
                         IF n = 0 THEN ReadBase(be, rec, h)
                         ELSE IF rec[h].storage = "none" THEN None
                         ELSE IF rec[h].storage = "delta" THEN ReadDelta(be, h, f[n-1][rec[h].base])
                         ELSE ReadBase(be, rec, h)]
    <3>1. n = 0 \/ (n # 0 /\ n \in 1..MaxDepth)
      BY <1>1
    <3> HIDE DEF step
    <3> QED BY <1>6, <3>1
  <2> HIDE DEF step, Turn, first
  <2> QED BY <1>6, <2>1
<1>8. Is(read)
  BY <1>7, Zenon
<1>9. Reads(be, rec) = read
  BY Zenon DEF Reads
<1> HIDE DEF read
<1>10. /\ read = [n \in 0..MaxDepth |-> read[n]] /\ read[0] = first
       /\ \A n \in 1..MaxDepth : read[n] = Turn(read[n-1])
  <2> HIDE DEF step
  <2>1. 0 \in 0..MaxDepth /\ \A n \in 1..MaxDepth : n # 0 /\ n \in 0..MaxDepth
    BY <1>1
  <2> QED BY <1>8, <2>1
<1>11. Iterates(read, Stores, MaxDepth, first, step)
  <2> HIDE DEF Turn, first
  <2>1. ASSUME NEW n \in 1..MaxDepth, read[n-1] \in Stores PROVE read[n] = step[n][read[n-1]]
    <3>1. step[n] = [s \in Stores |-> Turn(s)]
      OBVIOUS
    <3> HIDE DEF step
    <3> QED BY <1>10, <2>1, <3>1
  <2> HIDE DEF step
  <2> QED BY <1>1, <1>2, <1>3, <1>10, <2>1, FollowsIterates
<1>12. ReadsWell(read, be, rec)
  <2>1. read \in [0..MaxDepth -> Stores]
    BY <1>11 DEF Iterates
  <2> HIDE DEF step
  <2>2. \A h \in Hash : read[0][h] = ReadBase(be, rec, h)
    BY <1>10
  <2>3. ASSUME NEW n \in 1..MaxDepth, NEW h \in Hash
        PROVE  read[n][h] = IF rec[h].storage = "none" THEN None
                            ELSE IF rec[h].storage = "delta" THEN ReadDelta(be, h, read[n-1][rec[h].base])
                            ELSE ReadBase(be, rec, h)
    <3> DEFINE s == read[n-1]
    <3>1. read[n] = Turn(s)
      <4> HIDE DEF Turn
      <4> QED BY <1>10
    <3> HIDE DEF s, first
    <3>2. read[n][h] = IF rec[h].storage = "none" THEN None
                       ELSE IF rec[h].storage = "delta" THEN ReadDelta(be, h, s[rec[h].base])
                       ELSE ReadBase(be, rec, h)
      BY <3>1
    <3> QED BY <3>2 DEF s
  <2> HIDE DEF Turn, first
  <2> QED BY <2>1, <2>2, <2>3, Zenon DEF ReadsWell
<1> QED BY <1>9, <1>12

\* Where the codecs tell, what is read under a hash was made from what the stored
\* bytes were made from.
LEMMA ReadsOf ==
    ASSUME NEW be \in Stores, NEW rec, Tells(rec), CodecsTell, NEW h \in Hash,
           ReconstructBlob(be, rec, h) # None
    PROVE  be[h] # None /\ ReconstructBlob(be, rec, h).of = be[h].of
<1> DEFINE R == Reads(be, rec)
<1>1. ReadsWell(R, be, rec)
  BY ReadsAre
<1>2. ReconstructBlob(be, rec, h) = R[MaxDepth][h] /\ MaxDepth \in 1..MaxDepth
  BY LfsAssumption DEF ReconstructBlob
<1> HIDE DEF R
<1>3. R[MaxDepth][h] = IF rec[h].storage = "none" THEN None
                       ELSE IF rec[h].storage = "delta" THEN ReadDelta(be, h, R[MaxDepth-1][rec[h].base])
                       ELSE ReadBase(be, rec, h)
  BY <1>1, <1>2 DEF ReadsWell
<1> QED BY <1>2, <1>3, ReadBaseIs, ReadDeltaIs

\* D solves the recursion in Deeper.
DeeperWell(D, rec) ==
    /\ D[0] = {h \in Hash : rec[h].storage = "delta"}
    /\ \A n \in 1..MaxDepth : D[n] = {h \in Hash : rec[h].storage = "delta" /\ rec[h].base \in D[n-1]}

LEMMA DeeperAre ==
    ASSUME NEW rec
    PROVE  DeeperWell(Deeper(rec), rec)
<1> DEFINE S == SUBSET Hash
           first == {h \in Hash : rec[h].storage = "delta"}
           Turn(s) == {h \in Hash : rec[h].storage = "delta" /\ rec[h].base \in s}
           step == [n \in 1..MaxDepth |-> [s \in S |-> Turn(s)]]
           Is(f) == f = [n \in 0..MaxDepth |->
                           {h \in Hash : rec[h].storage = "delta" /\ (n > 0 => rec[h].base \in f[n-1])}]
           deeper == CHOOSE f : Is(f)
<1>1. MaxDepth \in Nat
  BY LfsAssumption
<1>2. first \in S /\ \A s : Turn(s) \in S
  OBVIOUS
<1> HIDE DEF S
<1>3. step \in [1..MaxDepth -> [S -> S]]
  <2> HIDE DEF Turn
  <2> QED BY <1>2
<1>4. \E f : Iterates(f, S, MaxDepth, first, step)
  <2> HIDE DEF step, first
  <2> QED BY <1>1, <1>2, <1>3, IterationExists
<1>5. PICK f : Iterates(f, S, MaxDepth, first, step)
  BY <1>4
<1>6. f \in [0..MaxDepth -> S] /\ f[0] = first /\ \A n \in 1..MaxDepth : f[n] = Turn(f[n-1])
  <2>1. \A n \in 1..MaxDepth : n - 1 \in 0..MaxDepth
    BY <1>1
  <2> HIDE DEF Turn, first
  <2>2. f \in [0..MaxDepth -> S] /\ f[0] = first /\ \A n \in 1..MaxDepth : f[n] = step[n][f[n-1]]
    BY <1>5 DEF Iterates
  <2> QED BY <2>1, <2>2
<1>7. Is(f)
  <2>1. ASSUME NEW n \in 0..MaxDepth
        PROVE  f[n] = {h \in Hash : rec[h].storage = "delta" /\ (n > 0 => rec[h].base \in f[n-1])}
    <3>1. (n = 0 /\ ~(n > 0)) \/ (n > 0 /\ n \in 1..MaxDepth)
      BY <1>1
    <3> HIDE DEF step
    <3> QED BY <1>6, <3>1
  <2> HIDE DEF step, Turn, first
  <2> QED BY <1>6, <2>1
<1>8. Is(deeper)
  BY <1>7, Zenon
<1>9. Deeper(rec) = deeper
  BY Zenon DEF Deeper
<1> HIDE DEF deeper
<1>10. deeper[0] = first /\ \A n \in 1..MaxDepth : deeper[n] = Turn(deeper[n-1])
  <2> HIDE DEF step
  <2>1. 0 \in 0..MaxDepth /\ ~(0 > 0) /\ \A n \in 1..MaxDepth : n > 0 /\ n \in 0..MaxDepth
    BY <1>1
  <2> QED BY <1>8, <2>1
<1> HIDE DEF step
<1> QED BY <1>9, <1>10 DEF DeeperWell

-----------------------------------------------------------------------------
(* Stored bytes that agree with the records.                               *)

\* A hash has a record exactly when there are bytes under it.
Paired(be, rec) == \A h \in Hash : be[h] = None <=> rec[h].storage = "none"

\* The bytes are what the record says, and a delta's base is there.
SoundAt(be, rec, h) ==
    \/ rec[h].storage = "none" /\ be[h] = None
    \/ rec[h].storage = "raw" /\ be[h] = Plain(h)
    \/ rec[h].storage = "compressed" /\ be[h] = Compress(Plain(h))
    \/ /\ rec[h].storage = "delta" /\ rec[h].base \in Hash
       /\ be[h] = Compress(Delta(h, rec[h].base)) /\ be[rec[h].base] # None

Sound(be, rec) == \A h \in Hash : SoundAt(be, rec, h)

\* WithinLimits, of the records given.
Limits(rec) ==
    /\ Deeper(rec)[MaxDepth] = {}
    /\ \A h \in Hash : rec[h].storage = "delta" => DecodeFits(rec[h].base, h)

\* Bytes that are read without a base.
LEMMA FullReads ==
    ASSUME NEW be, NEW rec, NEW h \in Hash, SoundAt(be, rec, h),
           rec[h].storage # "delta", be[h] # None
    PROVE  ReadBase(be, rec, h) = Plain(h) /\ rec[h].storage # "none"
<1>1. Plain(h) \in Bytes
  BY PlainBytes
<1>2. Decompress(Compress(Plain(h))) = Plain(h)
  BY <1>1, CompressIs
<1> QED BY <1>2 DEF SoundAt, ReadBase

\* A delta over a base that was read.
LEMMA DeltaReads ==
    ASSUME NEW be, NEW rec, NEW h \in Hash, SoundAt(be, rec, h),
           rec[h].storage = "delta", DecodeFits(rec[h].base, h)
    PROVE  ReadDelta(be, h, Plain(rec[h].base)) = Plain(h)
<1> DEFINE b == rec[h].base
<1>1. b \in Hash /\ be[h] = Compress(Delta(h, b))
  BY DEF SoundAt
<1>2. Delta(h, b) \in Bytes /\ Plain(b) # None
  BY <1>1, DeltaBytes, PlainBytes
<1>3. Decompress(be[h]) = Delta(h, b) /\ be[h] # None
  BY <1>1, <1>2, CompressIs
<1>4. DecodeDelta(Plain(b), Delta(h, b)) = Plain(h)
  BY <1>1, DecodeGives
<1> QED BY <1>2, <1>3, <1>4 DEF ReadDelta

\* Within the limits reconstruct_blob returns the content.
LEMMA SoundReconstructs ==
    ASSUME NEW be \in Stores, NEW rec, Tells(rec), Sound(be, rec), Limits(rec),
           NEW x \in Hash, be[x] # None
    PROVE  ReconstructBlob(be, rec, x) = Plain(x)
<1> DEFINE R == Reads(be, rec)
           D == Deeper(rec)
           Right(n) == \A h \in Hash : be[h] # None /\ h \notin D[n] => R[n][h] = Plain(h)
           B == {n \in 0..MaxDepth : ~Right(n)}
<1>1. ReadsWell(R, be, rec) /\ DeeperWell(D, rec) /\ MaxDepth \in Nat /\ MaxDepth # 0
  BY ReadsAre, DeeperAre, LfsAssumption
<1>2. D[MaxDepth] = {} /\ ReconstructBlob(be, rec, x) = R[MaxDepth][x]
  BY DEF Limits, ReconstructBlob
<1> HIDE DEF R, D
<1>3. ASSUME B # {} PROVE FALSE
  <2>1. PICK m \in B : \A k \in B : m <= k
    <3>1. B \subseteq Nat
      OBVIOUS
    <3> HIDE DEF B
    <3> QED BY <1>3, <3>1, LeastNatural
  <2>2. m \in 0..MaxDepth
    OBVIOUS
  <2>3. PICK h \in Hash : be[h] # None /\ h \notin D[m] /\ R[m][h] # Plain(h)
    OBVIOUS
  <2>4. SoundAt(be, rec, h)
    BY DEF Sound
  <2>5. CASE m = 0
    <3>1. rec[h].storage # "delta" /\ R[0][h] = ReadBase(be, rec, h)
      BY <1>1, <2>3, <2>5 DEF DeeperWell, ReadsWell
    <3> QED BY <2>3, <2>4, <2>5, <3>1, FullReads
  <2>6. CASE m # 0
    <3>1. m - 1 \in 0..MaxDepth /\ m \in 1..MaxDepth /\ m - 1 \notin B
      <4> HIDE DEF B
      <4> QED BY <1>1, <2>1, <2>2, <2>6
    <3>2. Right(m - 1)
      BY <3>1
    <3>3. R[m][h] = IF rec[h].storage = "none" THEN None
                    ELSE IF rec[h].storage = "delta" THEN ReadDelta(be, h, R[m-1][rec[h].base])
                    ELSE ReadBase(be, rec, h)
      BY <1>1, <3>1 DEF ReadsWell
    <3>4. CASE rec[h].storage # "delta"
      BY <2>3, <2>4, <3>3, <3>4, FullReads
    <3>5. CASE rec[h].storage = "delta"
      <4> DEFINE b == rec[h].base
      <4>1. b \notin D[m-1]
        BY <1>1, <2>3, <3>1, <3>5 DEF DeeperWell
      <4>2. b \in Hash /\ be[b] # None
        BY <2>4, <3>5 DEF SoundAt
      <4>3. R[m-1][b] = Plain(b)
        BY <3>2, <4>1, <4>2
      <4>4. DecodeFits(b, h)
        BY <3>5 DEF Limits
      <4>5. ReadDelta(be, h, Plain(b)) = Plain(h)
        BY <2>4, <3>5, <4>4, DeltaReads
      <4> QED BY <2>3, <3>3, <3>5, <4>3, <4>5
    <3> QED BY <3>4, <3>5
  <2> QED BY <2>5, <2>6
<1>4. Right(MaxDepth)
  <2>1. MaxDepth \in 0..MaxDepth
    BY <1>1
  <2> HIDE DEF Right
  <2> QED BY <1>3, <2>1
<1> QED BY <1>2, <1>4

\* So does GET.
LEMMA SoundGets ==
    ASSUME NEW be \in Stores, NEW rec, Tells(rec), Sound(be, rec), Limits(rec),
           NEW x \in Hash, be[x] # None
    PROVE  Get(be, rec, x) = Plain(x) /\ be[x].of = x
<1>1. SoundAt(be, rec, x)
  BY DEF Sound
<1>2. ReconstructBlob(be, rec, x) = Plain(x)
  BY SoundReconstructs
<1>3. Plain(x) \in Bytes /\ Plain(x) # None /\ Plain(x).of = x
  BY PlainBytes
<1>4. Decompress(Compress(Plain(x))) = Plain(x) /\ Compress(Plain(x)).of = x
  BY <1>3, CompressIs
<1>5. CASE rec[x].storage = "delta"
  <2> DEFINE b == rec[x].base
  <2>1. b \in Hash /\ be[x] = Compress(Delta(x, b))
    BY <1>1, <1>5 DEF SoundAt
  <2>2. Delta(x, b) \in Bytes /\ Delta(x, b).of = x
    BY <2>1, DeltaBytes
  <2>3. be[x].of = x
    BY <2>1, <2>2, CompressIs
  <2> QED BY <1>2, <1>3, <1>5, <2>3 DEF Get
<1>6. CASE rec[x].storage # "delta"
  BY <1>1, <1>3, <1>4, <1>6 DEF SoundAt, Get
<1> QED BY <1>5, <1>6

\* Where no content became a delta, limits that held still hold.
Narrower(rec, new) == \A h \in Hash : new[h].storage = "delta" => new[h] = rec[h]

LEMMA NarrowerLimits ==
    ASSUME NEW rec, NEW new, Narrower(rec, new), Limits(rec)
    PROVE  Limits(new)
<1> DEFINE D == Deeper(rec)
           E == Deeper(new)
           B == {n \in 0..MaxDepth : ~(E[n] \subseteq D[n])}
<1>1. DeeperWell(D, rec) /\ DeeperWell(E, new) /\ MaxDepth \in Nat
  BY DeeperAre, LfsAssumption
<1>2. D[MaxDepth] = {}
  BY DEF Limits
<1> HIDE DEF D, E
<1>3. ASSUME B # {} PROVE FALSE
  <2>1. PICK m \in B : \A k \in B : m <= k
    <3>1. B \subseteq Nat
      OBVIOUS
    <3> HIDE DEF B
    <3> QED BY <1>3, <3>1, LeastNatural
  <2>2. m \in 0..MaxDepth /\ ~(E[m] \subseteq D[m])
    OBVIOUS
  <2>3. CASE m = 0
    BY <1>1, <2>2, <2>3 DEF DeeperWell, Narrower
  <2>4. CASE m # 0
    <3>1. m - 1 \in 0..MaxDepth /\ m \in 1..MaxDepth /\ m - 1 \notin B
      <4> HIDE DEF B
      <4> QED BY <1>1, <2>1, <2>2, <2>4
    <3>2. E[m-1] \subseteq D[m-1]
      BY <3>1
    <3>3. D[m] = {h \in Hash : rec[h].storage = "delta" /\ rec[h].base \in D[m-1]}
          /\ E[m] = {h \in Hash : new[h].storage = "delta" /\ new[h].base \in E[m-1]}
      BY <1>1, <3>1 DEF DeeperWell
    <3> HIDE DEF B
    <3> QED BY <2>2, <3>2, <3>3 DEF Narrower
  <2> QED BY <2>3, <2>4
<1>4. E[MaxDepth] \subseteq D[MaxDepth]
  BY <1>1, <1>3
<1>5. \A h \in Hash : new[h].storage = "delta" => DecodeFits(new[h].base, h)
  BY DEF Limits, Narrower
<1> QED BY <1>2, <1>4, <1>5 DEF Limits, E

-----------------------------------------------------------------------------
(* The rebase loop.                                                        *)

States == [be : Stores, vs : Seq(Rows)]

\* One turn of the loop.
RebaseOne(s, d) ==
    LET r == ReconstructBlob(s.be, GetBySha256(s.vs), d)
    IN  IF s.be[d] = None \/ r = None THEN s
        ELSE [be |-> [s.be EXCEPT ![d] = Compress(r)], vs |-> UpdateVersion(s.vs, d)]

\* reconstruct_blob returns bytes or nothing.
LEMMA ReconstructType ==
    ASSUME NEW be \in Stores, NEW rec, Tells(rec), NEW h \in Hash
    PROVE  ReconstructBlob(be, rec, h) \in Bytes \cup {None}
<1>1. Reads(be, rec) \in [0..MaxDepth -> Stores]
  BY ReadsAre DEF ReadsWell
<1>2. MaxDepth \in 0..MaxDepth
  BY LfsAssumption
<1>3. Reads(be, rec)[MaxDepth] \in Stores
  BY <1>1, <1>2
<1> QED BY <1>3 DEF ReconstructBlob, Stores

\* Whatever the bytes are, a turn keeps the contents that have bytes, the rows of
\* the table, and what the bytes were made from.
Kept(s, t) ==
    /\ SameRows(s.vs, t.vs)
    /\ \A h \in Hash : t.be[h] = None <=> s.be[h] = None
    /\ CodecsTell => \A h \in Hash : s.be[h] # None => t.be[h].of = s.be[h].of

LEMMA KeptRefl ==
    ASSUME NEW s \in States
    PROVE  Kept(s, s)
<1>1. s.vs \in Seq(Rows)
  BY DEF States
<1> QED BY <1>1 DEF Kept, SameRows

LEMMA KeptTrans ==
    ASSUME NEW s, NEW t, NEW u, Kept(s, t), Kept(t, u)
    PROVE  Kept(s, u)
<1>1. SameRows(s.vs, u.vs)
  BY DEF Kept, SameRows
<1> QED BY <1>1 DEF Kept

\* A turn of the loop keeps them.
LEMMA RebaseKeeps ==
    ASSUME NEW s \in States, NEW d \in Hash
    PROVE  RebaseOne(s, d) \in States /\ Kept(s, RebaseOne(s, d))
<1> DEFINE rec == GetBySha256(s.vs)
           r == ReconstructBlob(s.be, rec, d)
           be == [s.be EXCEPT ![d] = Compress(r)]
           vs == UpdateVersion(s.vs, d)
<1>1. s.be \in Stores /\ s.vs \in Seq(Rows)
  BY DEF States
<1>2. Tells(rec)
  BY <1>1, TableTells
<1> HIDE DEF rec
<1>3. r \in Bytes \cup {None} /\ (CodecsTell /\ r # None => r.of = s.be[d].of)
  BY <1>1, <1>2, ReconstructType, ReadsOf
<1>4. CASE s.be[d] = None \/ r = None
  <2>1. RebaseOne(s, d) = s
    BY <1>4 DEF RebaseOne, rec
  <2> QED BY <2>1, KeptRefl
<1>5. CASE s.be[d] # None /\ r # None
  <2>1. RebaseOne(s, d) = [be |-> be, vs |-> vs]
    BY <1>5, Zenon DEF RebaseOne, rec
  <2>2. r \in Bytes
    BY <1>3, <1>5
  <2> HIDE DEF r
  <2>3. Compress(r) \in Bytes /\ Compress(r) # None /\ (CodecsTell => Compress(r).of = s.be[d].of)
    BY <1>3, <1>5, <2>2, CompressIs
  <2>4. be \in Stores
    BY <1>1, <2>3 DEF Stores
  <2>5. \A h \in Hash : be[h] = IF h = d THEN Compress(r) ELSE s.be[h]
    BY <1>1 DEF Stores
  <2>6. SameRows(s.vs, vs)
    BY <1>1, UpdatedRecord
  <2>7. vs \in Seq(Rows)
    BY <2>6 DEF SameRows
  <2> DEFINE t == [be |-> be, vs |-> vs]
  <2>8. t.be = be /\ t.vs = vs
    OBVIOUS
  <2>9. t \in States
    <3> HIDE DEF be, vs
    <3> QED BY <2>4, <2>7 DEF States
  <2> HIDE DEF t, be, vs
  <2>10. Kept(s, t)
    BY <1>5, <2>3, <2>5, <2>6, <2>8 DEF Kept
  <2> QED BY <2>1, <2>9, <2>10 DEF t
<1> QED BY <1>4, <1>5

\* Bytes that agree with the records still do so after a turn, and d is no delta.
LEMMA RebaseSound ==
    ASSUME NEW s \in States, NEW d \in Hash,
           Sound(s.be, GetBySha256(s.vs)), Limits(GetBySha256(s.vs))
    PROVE  LET t == RebaseOne(s, d)  new == GetBySha256(t.vs) IN
           Sound(t.be, new) /\ Narrower(GetBySha256(s.vs), new) /\ new[d].storage # "delta"
<1> DEFINE rec == GetBySha256(s.vs)
           r == ReconstructBlob(s.be, rec, d)
           be == [s.be EXCEPT ![d] = Compress(r)]
           vs == UpdateVersion(s.vs, d)
           new == GetBySha256(vs)
<1>1. s.be \in Stores /\ s.vs \in Seq(Rows)
  BY DEF States
<1>2. Tells(rec)
  BY <1>1, TableTells
<1>3. SoundAt(s.be, rec, d)
  BY DEF Sound
<1>4. CASE s.be[d] = None
  <2>1. RebaseOne(s, d) = s
    BY <1>4 DEF RebaseOne
  <2> HIDE DEF rec
  <2>2. rec[d].storage # "delta"
    <3>1. ASSUME rec[d].storage = "delta" PROVE FALSE
      <4>1. s.be[d] = Compress(Delta(d, rec[d].base)) /\ rec[d].base \in Hash
        BY <1>3, <3>1 DEF SoundAt
      <4>2. Delta(d, rec[d].base) \in Bytes
        BY <4>1, DeltaBytes
      <4> QED BY <1>4, <4>1, <4>2, CompressIs
    <3> QED BY <3>1
  <2> QED BY <2>1, <2>2 DEF Narrower, rec
<1>5. CASE s.be[d] # None
  <2>1. r = Plain(d) /\ Plain(d) \in Bytes /\ Plain(d) # None
    BY <1>1, <1>2, <1>5, SoundReconstructs, PlainBytes
  <2>2. RebaseOne(s, d) = [be |-> be, vs |-> vs]
    BY <1>5, <2>1, Zenon DEF RebaseOne
  <2>3. \A h \in Hash : be[h] = IF h = d THEN Compress(Plain(d)) ELSE s.be[h]
    <3> HIDE DEF r
    <3> QED BY <1>1, <2>1 DEF Stores
  <2>4. \A h \in Hash : be[h] = None <=> s.be[h] = None
    <3>1. Compress(Plain(d)) # None
      BY <2>1, CompressIs
    <3> HIDE DEF be
    <3> QED BY <1>5, <2>3, <3>1
  <2>5. \A h \in Hash : IF h = d /\ rec[h].storage # "none" THEN new[h].storage = "compressed" ELSE new[h] = rec[h]
    BY <1>1, UpdatedRecord
  <2> DEFINE t == RebaseOne(s, d)
  <2>6. t.be = be /\ t.vs = vs
    BY <2>2
  <2>7. rec[d].storage # "none"
    BY <1>3, <1>5 DEF SoundAt
  <2>8. GetBySha256(t.vs) = new
    BY <2>6
  <2> HIDE DEF be, vs, new, rec, t, r
  <2>9. new[d].storage = "compressed" /\ \A h \in Hash : h # d => new[h] = rec[h]
    BY <2>5, <2>7
  <2>10. Sound(be, new)
    <3> SUFFICES ASSUME NEW h \in Hash PROVE SoundAt(be, new, h)
      BY DEF Sound
    <3>1. CASE h = d
      BY <2>3, <2>9, <3>1 DEF SoundAt
    <3>2. CASE h # d
      <4>1. SoundAt(s.be, rec, h)
        BY DEF Sound, rec
      <4>2. new[h] = rec[h] /\ be[h] = s.be[h]
        BY <2>3, <2>9, <3>2
      <4> QED BY <2>4, <4>1, <4>2 DEF SoundAt
    <3> QED BY <3>1, <3>2
  <2>11. Narrower(rec, new)
    BY <2>9 DEF Narrower
  <2> QED BY <2>6, <2>8, <2>9, <2>10, <2>11 DEF t, rec
<1> QED BY <1>4, <1>5

\* The loop starts in the current state and takes one turn per delta.
RebaseRuns(f, h, n) ==
    /\ f \in [0..n -> States] /\ f[0] = [be |-> backend, vs |-> versions]
    /\ \A k \in 1..n : f[k] = RebaseOne(f[k-1], GetDeltasForBase(versions, h)[k].sha)

\* Rebased follows its recursion.
LEMMA RebasedRuns ==
    ASSUME backend \in Stores, versions \in Seq(Rows), NEW h \in Hash,
           NEW n \in 0..Len(GetDeltasForBase(versions, h))
    PROVE  \E f : RebaseRuns(f, h, n) /\ Rebased(h, n) = f[n]
<1> DEFINE ds == GetDeltasForBase(versions, h)
           first == [be |-> backend, vs |-> versions]
           step == [k \in 1..n |-> [s \in States |-> RebaseOne(s, ds[k].sha)]]
           Is(f) == f = [k \in 0..n |->
                          IF k = 0 THEN [be |-> backend, vs |-> versions]
                          ELSE LET s == f[k-1]
                                   d == ds[k].sha
                                   r == ReconstructBlob(s.be, GetBySha256(s.vs), d)
                               IN  IF s.be[d] = None \/ r = None THEN s
                                   ELSE [be |-> [s.be EXCEPT ![d] = Compress(r)],
                                         vs |-> UpdateVersion(s.vs, d)]]
           after == CHOOSE f : Is(f)
<1>1. n \in Nat /\ first \in States
  <2>1. Len(ds) \in Nat
    BY DeltasOfBase
  <2> HIDE DEF ds
  <2>2. first \in States
    BY DEF States
  <2> QED BY <2>1, <2>2
<1>2. \A k \in 1..n : ds[k].sha \in Hash
  <2>1. ds \in Seq(Rows)
    BY DeltasOfBase
  <2> SUFFICES ASSUME NEW k \in 1..n PROVE ds[k].sha \in Hash
    OBVIOUS
  <2>2. k \in 1..Len(ds)
    <3>1. Len(ds) \in Nat
      BY <2>1
    <3> HIDE DEF ds
    <3> QED BY <1>1, <3>1 DEF ds
  <2> HIDE DEF ds
  <2>3. ds[k] \in Rows
    BY <2>1, <2>2
  <2> QED BY <2>3 DEF Rows, Records
<1> HIDE DEF ds
<1>3. step \in [1..n -> [States -> States]]
  <2>1. \A k \in 1..n : \A s \in States : RebaseOne(s, ds[k].sha) \in States
    BY <1>2, RebaseKeeps
  <2> QED BY <2>1
<1>4. \E f : Iterates(f, States, n, first, step)
  <2> HIDE DEF step, first
  <2> QED BY <1>1, <1>3, IterationExists
<1>5. PICK f : Iterates(f, States, n, first, step)
  BY <1>4
<1>6. f \in [0..n -> States] /\ f[0] = first /\ \A k \in 1..n : f[k] = RebaseOne(f[k-1], ds[k].sha)
  <2>1. \A k \in 1..n : k - 1 \in 0..n
    BY <1>1
  <2> HIDE DEF first
  <2>2. f \in [0..n -> States] /\ f[0] = first /\ \A k \in 1..n : f[k] = step[k][f[k-1]]
    BY <1>5 DEF Iterates
  <2> QED BY <2>1, <2>2
<1> HIDE DEF step
<1>7. Is(f)
  <2>1. ASSUME NEW k \in 0..n
        PROVE  f[k] = IF k = 0 THEN first ELSE RebaseOne(f[k-1], ds[k].sha)
    <3>1. k = 0 \/ (k # 0 /\ k \in 1..n)
      BY <1>1
    <3> HIDE DEF first
    <3> QED BY <1>6, <3>1
  <2>2. f = [k \in 0..n |-> IF k = 0 THEN first ELSE RebaseOne(f[k-1], ds[k].sha)]
    <3> HIDE DEF first
    <3> QED BY <1>6, <2>1
  <2> QED BY <2>2, Zenon DEF RebaseOne
<1>8. Is(after)
  BY <1>7, Zenon
<1>9. Rebased(h, n) = after[n]
  BY Zenon DEF Rebased, ds
<1> HIDE DEF after
<1>10. after = [k \in 0..n |-> IF k = 0 THEN first ELSE RebaseOne(after[k-1], ds[k].sha)]
  BY <1>8, Zenon DEF RebaseOne
<1> HIDE DEF first, Is
<1>11. after = [k \in 0..n |-> after[k]] /\ after[0] = first
       /\ \A k \in 1..n : after[k] = RebaseOne(after[k-1], ds[k].sha)
  <2>1. 0 \in 0..n /\ \A k \in 1..n : k # 0 /\ k \in 0..n
    BY <1>1
  <2> QED BY <1>10, <2>1
<1>12. Iterates(after, States, n, first, step)
  <2>1. \A k \in 1..n : after[k-1] \in States => after[k] = step[k][after[k-1]]
    BY <1>11 DEF step
  <2> QED BY <1>1, <1>3, <1>11, <2>1, FollowsIterates
<1>13. RebaseRuns(after, h, n)
  BY <1>11, <1>12 DEF Iterates, RebaseRuns, first, ds
<1> QED BY <1>9, <1>13

\* So does the whole loop, wherever it stops.
LEMMA RebasedKeeps ==
    ASSUME backend \in Stores, versions \in Seq(Rows), NEW h \in Hash,
           NEW n \in 0..Len(GetDeltasForBase(versions, h))
    PROVE  Rebased(h, n) \in States /\ Kept([be |-> backend, vs |-> versions], Rebased(h, n))
<1> DEFINE ds == GetDeltasForBase(versions, h)
           first == [be |-> backend, vs |-> versions]
<1>1. PICK f : RebaseRuns(f, h, n) /\ Rebased(h, n) = f[n]
  BY RebasedRuns
<1>2. n \in Nat
  <2>1. Len(ds) \in Nat
    BY DeltasOfBase
  <2> HIDE DEF ds
  <2> QED BY <2>1
<1>3. /\ f \in [0..n -> States] /\ f[0] = first
      /\ \A k \in 1..n : f[k] = RebaseOne(f[k-1], ds[k].sha)
  BY <1>1 DEF RebaseRuns
<1>4. \A k \in 1..n : ds[k].sha \in Hash
  <2>1. ds \in Seq(Rows)
    BY DeltasOfBase
  <2>2. \A k \in 1..n : k \in 1..Len(ds)
    BY <1>2, <2>1
  <2> HIDE DEF ds
  <2> SUFFICES ASSUME NEW k \in 1..n PROVE ds[k].sha \in Hash
    OBVIOUS
  <2>3. ds[k] \in Rows
    BY <2>1, <2>2
  <2> QED BY <2>3 DEF Rows, Records
<1> HIDE DEF ds, first
<1> DEFINE B == {k \in 0..n : ~Kept(first, f[k])}
<1>5. ASSUME B # {} PROVE FALSE
  <2>1. PICK m \in B : \A k \in B : m <= k
    <3>1. B \subseteq Nat
      OBVIOUS
    <3> HIDE DEF B
    <3> QED BY <1>5, <3>1, LeastNatural
  <2>2. m \in 0..n /\ ~Kept(first, f[m])
    OBVIOUS
  <2>3. m # 0
    <3>1. f[0] \in States
      BY <1>2, <1>3
    <3>2. Kept(first, f[0])
      BY <1>3, <3>1, KeptRefl
    <3> QED BY <2>2, <3>2
  <2>4. m - 1 \in 0..n /\ m \in 1..n /\ m - 1 \notin B
    <3> HIDE DEF B
    <3> QED BY <1>2, <2>1, <2>2, <2>3
  <2>5. Kept(first, f[m-1]) /\ f[m-1] \in States
    BY <1>3, <2>4
  <2>6. Kept(f[m-1], f[m])
    BY <1>3, <1>4, <2>4, <2>5, RebaseKeeps
  <2> QED BY <2>2, <2>5, <2>6, KeptTrans
<1>6. n \in 0..n
  BY <1>2
<1>7. Kept(first, f[n])
  BY <1>5, <1>6
<1>8. f[n] \in States
  BY <1>3, <1>6
<1> QED BY <1>1, <1>7, <1>8 DEF first

\* After the whole loop nothing is a delta of h.
LEMMA RebasedSound ==
    ASSUME backend \in Stores, versions \in Seq(Rows), NEW h \in Hash,
           NEW n \in 0..Len(GetDeltasForBase(versions, h)),
           Sound(backend, GetBySha256(versions)), Limits(GetBySha256(versions))
    PROVE  LET s == Rebased(h, n)  rec == GetBySha256(s.vs) IN
           /\ Sound(s.be, rec)
           /\ n = Len(GetDeltasForBase(versions, h)) =>
                \A x \in Hash : rec[x].storage = "delta" => rec[x].base # h
<1> DEFINE ds == GetDeltasForBase(versions, h)
           first == [be |-> backend, vs |-> versions]
           old == GetBySha256(versions)
<1>1. PICK f : RebaseRuns(f, h, n) /\ Rebased(h, n) = f[n]
  BY RebasedRuns
<1>2. ds \in Seq(Rows) /\ \A x \in Hash : old[x].storage = "delta" /\ old[x].base = h => \E k \in 1..Len(ds) : ds[k].sha = x
  BY DeltasOfBase
<1>3. n \in Nat
  <2> DEFINE N == Len(ds)
  <2>1. N \in Nat
    BY <1>2
  <2> HIDE DEF N
  <2> QED BY <2>1 DEF N
<1>4. /\ f \in [0..n -> States] /\ f[0] = first
      /\ \A k \in 1..n : f[k] = RebaseOne(f[k-1], ds[k].sha)
  BY <1>1 DEF RebaseRuns
<1>5. \A k \in 1..n : ds[k].sha \in Hash
  <2>1. \A k \in 1..n : k \in 1..Len(ds)
    BY <1>2, <1>3
  <2> HIDE DEF ds
  <2> SUFFICES ASSUME NEW k \in 1..n PROVE ds[k].sha \in Hash
    OBVIOUS
  <2>2. ds[k] \in Rows
    BY <1>2, <2>1
  <2> QED BY <2>2 DEF Rows, Records
<1>6. first.be = backend /\ first.vs = versions
  OBVIOUS
<1>7. n = Len(GetDeltasForBase(versions, h)) <=> n = Len(ds)
  OBVIOUS
<1> HIDE DEF ds, first
<1> DEFINE rec(k) == GetBySha256(f[k].vs)
           Good(k) == /\ Sound(f[k].be, rec(k)) /\ Narrower(old, rec(k))
                      /\ \A j \in 1..k : rec(k)[ds[j].sha].storage # "delta"
           B == {k \in 0..n : ~Good(k)}
<1>8. ASSUME B # {} PROVE FALSE
  <2>1. PICK m \in B : \A k \in B : m <= k
    <3>1. B \subseteq Nat
      OBVIOUS
    <3> HIDE DEF B
    <3> QED BY <1>8, <3>1, LeastNatural
  <2>2. m \in 0..n /\ ~Good(m)
    OBVIOUS
  <2>3. m # 0
    <3>1. rec(0) = old /\ f[0].be = backend
      BY <1>4, <1>6
    <3>2. \A j \in 1..0 : FALSE
      OBVIOUS
    <3> HIDE DEF rec, old
    <3>3. Good(0)
      BY <3>1, <3>2 DEF Narrower, old
    <3> QED BY <2>2, <3>3
  <2>4. m - 1 \in 0..n /\ m \in 1..n /\ m - 1 \notin B
    <3> HIDE DEF B
    <3> QED BY <1>3, <2>1, <2>2, <2>3
  <2>5. Good(m - 1) /\ f[m-1] \in States
    BY <1>4, <2>4
  <2>6. f[m] = RebaseOne(f[m-1], ds[m].sha) /\ ds[m].sha \in Hash
    BY <1>4, <1>5, <2>4
  <2>7. Limits(rec(m-1))
    BY <2>5, NarrowerLimits
  <2>8. Sound(f[m].be, rec(m)) /\ Narrower(rec(m-1), rec(m)) /\ rec(m)[ds[m].sha].storage # "delta"
    BY <2>5, <2>6, <2>7, RebaseSound
  <2> HIDE DEF rec, old, B
  <2>9. Narrower(old, rec(m))
    BY <2>5, <2>8 DEF Narrower
  <2>10. ASSUME NEW j \in 1..m PROVE rec(m)[ds[j].sha].storage # "delta"
    <3>1. j = m \/ j \in 1..(m-1)
      BY <1>3, <2>4
    <3>2. ds[j].sha \in Hash
      BY <1>3, <1>5, <2>4
    <3> QED BY <2>5, <2>8, <3>1, <3>2 DEF Narrower
  <2> QED BY <2>2, <2>8, <2>9, <2>10
<1>9. Good(n)
  <2>1. n \in 0..n
    BY <1>3
  <2> HIDE DEF Good
  <2> QED BY <1>8, <2>1
<1>10. ASSUME n = Len(ds), NEW x \in Hash, rec(n)[x].storage = "delta", rec(n)[x].base = h PROVE FALSE
  <2> HIDE DEF rec, old
  <2>1. old[x].storage = "delta" /\ old[x].base = h
    BY <1>9, <1>10 DEF Narrower
  <2>2. PICK k \in 1..Len(ds) : ds[k].sha = x
    BY <1>2, <2>1
  <2> QED BY <1>9, <1>10, <2>2
<1> QED BY <1>1, <1>7, <1>9, <1>10

-----------------------------------------------------------------------------
(* Invariants.                                                             *)

\* The inductive invariant: the types, deltas that name a base, unique numbers, and,
\* for the servers and codecs they are promised for, bytes made from their content
\* and records that come and go with their bytes.
LfsInv ==
    /\ config \in Configs /\ backend \in Stores /\ versions \in Seq(Rows)
    /\ Distinct(versions)
    /\ CodecsTell => MadeFromContent
    /\ Undisturbed => Paired(backend, GetBySha256(versions))

\* What UploadLfs and UploadLfsUntagged store, whatever base they were given.
LEMMA EncodedIs ==
    ASSUME LfsInv, NEW h \in Hash, NEW b \in Hash \cup {None}
    PROVE  LET enc == Encoded(h, b) IN
           /\ enc.data \in Bytes /\ enc.data # None /\ enc.data.of = h
           /\ \/ enc.storage = "compressed" /\ enc.base = None /\ enc.data = Compress(Plain(h))
              \/ /\ enc.storage = "delta" /\ enc.base = b /\ b \in Hash /\ backend[b] # None
                 /\ enc.data = Compress(EncodeDelta(Get(backend, GetBySha256(versions), b), b, h))
<1> DEFINE rec == GetBySha256(versions)
           src == Get(backend, rec, b)
           full == [data |-> Compress(Plain(h)), storage |-> "compressed", base |-> None]
           diff == [data |-> Compress(EncodeDelta(src, b, h)), storage |-> "delta", base |-> b]
<1>1. Encoded(h, b) = full \/ (Encoded(h, b) = diff /\ b # None /\ backend[b] # None)
  BY Zenon DEF Encoded
<1> HIDE DEF src
<1>2. Plain(h) \in Bytes /\ Plain(h).of = h
  BY PlainBytes
<1>3. EncodeDelta(src, b, h) \in Bytes /\ EncodeDelta(src, b, h).of = h
  <2>1. (IF src = Plain(b) THEN b ELSE None) \in Hash \cup {None}
    OBVIOUS
  <2> QED BY <2>1, DeltaBytes DEF EncodeDelta
<1>4. CASE Encoded(h, b) = full
  BY <1>2, <1>4, CompressIs
<1>5. CASE Encoded(h, b) = diff /\ b # None /\ backend[b] # None
  BY <1>3, <1>5, CompressIs DEF src
<1> QED BY <1>1, <1>4, <1>5

\* What a step of an upload does to the records.
LEMMA RecordedVersion ==
    ASSUME LfsInv, NEW h \in Hash, NEW f \in File, NEW enc, RecordVersion(f, h, enc),
           enc.storage \in {"raw", "compressed", "delta"}, enc.base \in Hash \cup {None},
           enc.storage = "delta" => enc.base \in Hash
    PROVE  /\ versions' \in Seq(Rows) /\ Distinct(versions')
           /\ \A x \in Hash :
                LET rec == GetBySha256(versions)  new == GetBySha256(versions') IN
                IF x = h /\ rec[x].storage = "none"
                THEN new[x].storage = enc.storage /\ new[x].base = enc.base
                ELSE new[x] = rec[x]
<1> DEFINE latest == GetLatestVersion(versions, f)
           r == [file |-> f, version |-> latest + 1, sha |-> h, base |-> enc.base, storage |-> enc.storage]
<1>1. versions' = Append(versions, r)
  BY Zenon DEF RecordVersion
<1>2. versions \in Seq(Rows) /\ Distinct(versions)
  BY DEF LfsInv
<1>3. latest \in Nat /\ \A i \in 1..Len(versions) : versions[i].file = f => versions[i].version <= latest
  BY <1>2, LatestVersion
<1> HIDE DEF latest
<1>4. r \in Rows
  BY <1>3 DEF Rows, Records
<1>5. r.file = f /\ r.version = latest + 1 /\ r.sha = h /\ r.base = enc.base /\ r.storage = enc.storage
  OBVIOUS
<1> HIDE DEF r
<1>6. versions' \in Seq(Rows)
  BY <1>1, <1>2, <1>4
<1>7. Distinct(versions')
  <2> DEFINE n == Len(versions)
  <2>1. Len(versions') = n + 1 /\ n \in Nat /\ versions'[n + 1] = r /\ \A i \in 1..n : versions'[i] = versions[i]
    BY <1>1, <1>2, <1>4
  <2>2. \A i \in 1..n : versions[i].version \in Nat
    BY <1>2 DEF Rows, Records
  <2>3. \A i \in 1..n : ~(versions[i].file = r.file /\ versions[i].version = r.version)
    BY <1>3, <1>5, <2>2
  <2> HIDE DEF n
  <2>4. \A i \in 1..Len(versions') : i \in 1..n \/ i = n + 1
    BY <2>1
  <2>5. \A i, j \in 1..n : versions[i].file = versions[j].file /\ versions[i].version = versions[j].version => i = j
    BY <1>2 DEF Distinct, n
  <2> QED BY <2>1, <2>3, <2>4, <2>5 DEF Distinct
<1>8. \A x \in Hash : GetBySha256(versions')[x] =
        IF x = r.sha /\ GetBySha256(versions)[x].storage = "none" THEN r ELSE GetBySha256(versions)[x]
  BY <1>1, <1>2, <1>4, AppendedRecord
<1> QED BY <1>5, <1>6, <1>7, <1>8

\* What it does to the backend.
LEMMA InsertedIfAbsent ==
    ASSUME LfsInv, NEW h \in Hash, NEW data \in Bytes, data # None, data.of = h, InsertIfAbsent(h, data)
    PROVE  /\ backend' \in Stores
           /\ \A x \in Hash : backend'[x] = IF x = h /\ backend[x] = None THEN data ELSE backend[x]
           /\ MadeFromContent => MadeFromContent'
<1>1. backend \in Stores
  BY DEF LfsInv
<1>2. backend' = IF backend[h] = None THEN [backend EXCEPT ![h] = data] ELSE backend
  BY DEF InsertIfAbsent
<1>3. backend' \in Stores /\ \A x \in Hash : backend'[x] = IF x = h /\ backend[x] = None THEN data ELSE backend[x]
  BY <1>1, <1>2 DEF Stores
<1> QED BY <1>3 DEF MadeFromContent

\* What a step of a deletion does, up to where it stops.
LEMMA RebasedInv ==
    ASSUME LfsInv, NEW h \in Hash, NEW n \in 0..Len(GetDeltasForBase(versions, h))
    PROVE  LET s == Rebased(h, n) IN
           /\ s.be \in Stores /\ s.vs \in Seq(Rows) /\ Distinct(s.vs)
           /\ \A x \in Hash : s.be[x] = None <=> backend[x] = None
           /\ CodecsTell => \A x \in Hash : s.be[x] # None => s.be[x].of = x
           /\ \A x \in Hash : GetBySha256(s.vs)[x].storage = "none" <=> GetBySha256(versions)[x].storage = "none"
<1> DEFINE s == Rebased(h, n)
           first == [be |-> backend, vs |-> versions]
<1>1. backend \in Stores /\ versions \in Seq(Rows) /\ Distinct(versions) /\ (CodecsTell => MadeFromContent)
  BY DEF LfsInv
<1>2. s \in States /\ Kept(first, s)
  BY <1>1, RebasedKeeps
<1>3. first.be = backend /\ first.vs = versions
  OBVIOUS
<1> HIDE DEF s, first
<1>4. s.be \in Stores /\ s.vs \in Seq(Rows)
  BY <1>2 DEF States
<1>5. SameRows(versions, s.vs)
  BY <1>2, <1>3 DEF Kept
<1>6. Distinct(s.vs)
  BY <1>1, <1>5 DEF Distinct, SameRows
<1>7. \A x \in Hash : s.be[x] = None <=> backend[x] = None
  BY <1>2, <1>3 DEF Kept
<1>8. CodecsTell => \A x \in Hash : s.be[x] # None => s.be[x].of = x
  BY <1>1, <1>2, <1>3, <1>7 DEF Kept, MadeFromContent
<1>9. ASSUME NEW x \in Hash
      PROVE  GetBySha256(s.vs)[x].storage = "none" <=> GetBySha256(versions)[x].storage = "none"
  <2>1. Oldest(s.vs, x) = Oldest(versions, x)
    BY <1>1, <1>5, SameOldest
  <2>2. Oldest(s.vs, x) = 0 <=> GetBySha256(s.vs)[x].storage = "none"
    BY <1>4, RecordIs
  <2>3. Oldest(versions, x) = 0 <=> GetBySha256(versions)[x].storage = "none"
    BY <1>1, RecordIs
  <2> QED BY <2>1, <2>2, <2>3
<1> QED BY <1>4, <1>6, <1>7, <1>8, <1>9 DEF s

\* The invariant, of the state after a step that leaves the set-up.
LEMMA StoredAgain ==
    ASSUME LfsInv, UNCHANGED config, backend' \in Stores, versions' \in Seq(Rows), Distinct(versions'),
           CodecsTell => MadeFromContent',
           Undisturbed => Paired(backend', GetBySha256(versions'))
    PROVE  LfsInv'
<1>1. (CodecsTell' <=> CodecsTell) /\ (Undisturbed' <=> Undisturbed)
  BY DEF CodecsTell, Undisturbed
<1> QED BY <1>1 DEF LfsInv

\* Every step keeps the invariant.
LEMMA LfsStep ==
    ASSUME LfsInv, [LfsNext]_lfsVars
    PROVE  LfsInv'
<1>0. /\ config \in Configs /\ backend \in Stores /\ versions \in Seq(Rows) /\ Distinct(versions)
      /\ (CodecsTell => MadeFromContent) /\ (Undisturbed => Paired(backend, GetBySha256(versions)))
  BY DEF LfsInv
<1>1. CASE UNCHANGED lfsVars
  BY <1>1 DEF LfsInv, lfsVars, CodecsTell, Undisturbed, MadeFromContent
<1>2. CASE LfsNext
  <2>1. UNCHANGED config
    BY <1>2 DEF LfsNext
  <2>2. PICK h \in config.hashes :
         \/ \E f \in File, b \in config.hashes \cup {None} : UploadLfs(h, f, b)
         \/ \E b \in config.hashes \cup {None} : UploadLfsUntagged(h, b)
         \/ \E f \in File : UploadManifest(h, f)
         \/ UploadPlain(h) \/ Overwrite(h)
         \/ HandleDeleteBlob(h) \/ DeleteInterrupted(h) \/ BareDelete(h)
    BY <1>2 DEF LfsNext
  <2>3. config.hashes \subseteq Hash
    BY <1>0, LfsAssumption DEF Config
  <2>4. h \in Hash /\ Plain(h) \in Bytes /\ Plain(h) # None /\ Plain(h).of = h
    BY <2>2, <2>3, PlainBytes
  <2>5. ASSUME NEW f \in File, NEW b \in config.hashes \cup {None}, UploadLfs(h, f, b) PROVE LfsInv'
    <3> DEFINE enc == Encoded(h, b)
    <3>1. /\ enc.data \in Bytes /\ enc.data # None /\ enc.data.of = h
          /\ enc.storage \in {"raw", "compressed", "delta"} /\ enc.storage # "none"
          /\ enc.base \in Hash \cup {None} /\ (enc.storage = "delta" => enc.base \in Hash)
      BY <2>3, <2>4, EncodedIs
    <3>2. InsertIfAbsent(h, enc.data) /\ RecordVersion(f, h, enc)
      BY <2>5 DEF UploadLfs
    <3> HIDE DEF enc
    <3>3. /\ backend' \in Stores /\ (MadeFromContent => MadeFromContent')
          /\ \A x \in Hash : backend'[x] = IF x = h /\ backend[x] = None THEN enc.data ELSE backend[x]
      BY <2>4, <3>1, <3>2, InsertedIfAbsent
    <3>4. /\ versions' \in Seq(Rows) /\ Distinct(versions')
          /\ \A x \in Hash :
                LET rec == GetBySha256(versions)  new == GetBySha256(versions') IN
                IF x = h /\ rec[x].storage = "none"
                THEN new[x].storage = enc.storage /\ new[x].base = enc.base
                ELSE new[x] = rec[x]
      BY <2>4, <3>1, <3>2, RecordedVersion
    <3>5. Undisturbed => Paired(backend', GetBySha256(versions'))
      BY <1>0, <3>1, <3>3, <3>4 DEF Paired
    <3> QED BY <1>0, <2>1, <3>3, <3>4, <3>5, StoredAgain
  <2>6. ASSUME NEW b \in config.hashes \cup {None}, UploadLfsUntagged(h, b) PROVE LfsInv'
    <3> DEFINE data == Encoded(h, b).data
    <3>1. data \in Bytes /\ data # None /\ data.of = h
      BY <2>3, <2>4, EncodedIs
    <3>2. InsertIfAbsent(h, data) /\ versions' = versions /\ "lfs_untagged" \in config.requests
      BY <2>6 DEF UploadLfsUntagged, Asked
    <3> HIDE DEF data
    <3>3. backend' \in Stores /\ (MadeFromContent => MadeFromContent')
      BY <2>4, <3>1, <3>2, InsertedIfAbsent
    <3>4. ~Undisturbed
      BY <3>2 DEF Undisturbed
    <3> QED BY <1>0, <2>1, <3>2, <3>3, <3>4, StoredAgain
  <2>7. ASSUME NEW f \in File, UploadManifest(h, f) PROVE LfsInv'
    <3> DEFINE enc == AsIs(h)
    <3>1. InsertIfAbsent(h, Plain(h)) /\ RecordVersion(f, h, enc)
      BY <2>7 DEF UploadManifest
    <3>2. enc.storage = "raw" /\ enc.base = None
      BY DEF AsIs
    <3> HIDE DEF enc
    <3>3. /\ backend' \in Stores /\ (MadeFromContent => MadeFromContent')
          /\ \A x \in Hash : backend'[x] = IF x = h /\ backend[x] = None THEN Plain(h) ELSE backend[x]
      BY <2>4, <3>1, InsertedIfAbsent
    <3>4. /\ versions' \in Seq(Rows) /\ Distinct(versions')
          /\ \A x \in Hash :
                LET rec == GetBySha256(versions)  new == GetBySha256(versions') IN
                IF x = h /\ rec[x].storage = "none"
                THEN new[x].storage = enc.storage /\ new[x].base = enc.base
                ELSE new[x] = rec[x]
      BY <2>4, <3>1, <3>2, RecordedVersion
    <3>5. Undisturbed => Paired(backend', GetBySha256(versions'))
      BY <1>0, <2>4, <3>2, <3>3, <3>4 DEF Paired
    <3> QED BY <1>0, <2>1, <3>3, <3>4, <3>5, StoredAgain
  <2>8. CASE UploadPlain(h)
    <3>1. InsertIfAbsent(h, Plain(h)) /\ versions' = versions /\ "plain" \in config.requests
      BY <2>8 DEF UploadPlain, Asked
    <3>2. backend' \in Stores /\ (MadeFromContent => MadeFromContent')
      BY <2>4, <3>1, InsertedIfAbsent
    <3>3. ~Undisturbed
      BY <3>1 DEF Undisturbed
    <3> QED BY <1>0, <2>1, <3>1, <3>2, <3>3, StoredAgain
  <2>9. CASE Overwrite(h)
    <3>1. backend' = [backend EXCEPT ![h] = Plain(h)] /\ versions' = versions /\ "overwrite" \in config.requests
      BY <2>9 DEF Overwrite, Asked
    <3>2. backend' \in Stores /\ (MadeFromContent => MadeFromContent')
      BY <1>0, <2>4, <3>1 DEF Stores, MadeFromContent
    <3>3. ~Undisturbed
      BY <3>1 DEF Undisturbed
    <3> QED BY <1>0, <2>1, <3>1, <3>2, <3>3, StoredAgain
  <2>10. CASE HandleDeleteBlob(h)
    <3> DEFINE n == Len(GetDeltasForBase(versions, h))
               s == Rebased(h, n)
    <3>1. n \in 0..n
      <4>1. GetDeltasForBase(versions, h) \in Seq(Rows)
        BY <1>0, <2>4, DeltasOfBase
      <4>2. n \in Nat
        BY <4>1
      <4> HIDE DEF n
      <4> QED BY <4>2
    <3>2. /\ s.be \in Stores /\ s.vs \in Seq(Rows) /\ Distinct(s.vs)
          /\ \A x \in Hash : s.be[x] = None <=> backend[x] = None
          /\ CodecsTell => \A x \in Hash : s.be[x] # None => s.be[x].of = x
          /\ \A x \in Hash : GetBySha256(s.vs)[x].storage = "none" <=> GetBySha256(versions)[x].storage = "none"
      BY <2>4, <3>1, RebasedInv
    <3>3. \/ backend' = s.be /\ versions' = s.vs
          \/ /\ backend' = [s.be EXCEPT ![h] = None]
             /\ \/ versions' = DeleteBySha256(s.vs, h)
                \/ "metadata" \in config.faults /\ versions' = s.vs
      BY <2>10 DEF HandleDeleteBlob, MayFail
    <3> HIDE DEF n, s
    <3>4. Undisturbed => Paired(s.be, GetBySha256(s.vs))
      BY <1>0, <3>2 DEF Paired
    <3>5. CASE backend' = s.be /\ versions' = s.vs
      <4>1. CodecsTell => MadeFromContent'
        BY <3>2, <3>5 DEF MadeFromContent
      <4> QED BY <2>1, <3>2, <3>4, <3>5, <4>1, StoredAgain
    <3>6. CASE backend' = [s.be EXCEPT ![h] = None]
      <4>1. backend' \in Stores /\ \A x \in Hash : backend'[x] = IF x = h THEN None ELSE s.be[x]
        BY <2>4, <3>2, <3>6 DEF Stores
      <4>2. CodecsTell => MadeFromContent'
        BY <3>2, <4>1 DEF MadeFromContent
      <4>3. CASE versions' = DeleteBySha256(s.vs, h)
        <5>1. /\ versions' \in Seq(Rows) /\ Distinct(versions')
              /\ \A x \in Hash : GetBySha256(versions')[x] = IF x = h THEN NoRecord ELSE GetBySha256(s.vs)[x]
          <6> DEFINE vs == s.vs
          <6>1. vs \in Seq(Rows) /\ Distinct(vs) /\ versions' = DeleteBySha256(vs, h)
            BY <3>2, <4>3
          <6> HIDE DEF vs
          <6>2. /\ versions' \in Seq(Rows) /\ Distinct(versions')
                /\ \A x \in Hash : GetBySha256(versions')[x] = IF x = h THEN NoRecord ELSE GetBySha256(vs)[x]
            <7>1. Removed(versions', vs, h)
              BY <2>4, <6>1, DeletedRecord
            <7> QED BY <6>1, <7>1 DEF Removed
          <6> QED BY <6>2 DEF vs
        <5>2. NoRecord.storage = "none"
          BY DEF NoRecord
        <5>3. Undisturbed => Paired(backend', GetBySha256(versions'))
          BY <3>4, <4>1, <5>1, <5>2 DEF Paired
        <5> QED BY <2>1, <4>1, <4>2, <5>1, <5>3, StoredAgain
      <4>4. CASE "metadata" \in config.faults /\ versions' = s.vs
        <5>1. ~Undisturbed
          BY <4>4 DEF Undisturbed
        <5> QED BY <2>1, <3>2, <4>1, <4>2, <4>4, <5>1, StoredAgain
      <4>5. CASE versions' = s.vs /\ backend' = s.be
        BY <3>5, <4>5
      <4> QED BY <3>3, <4>3, <4>4, <4>5
    <3> QED BY <3>3, <3>5, <3>6
  <2>11. CASE DeleteInterrupted(h)
    <3> DEFINE N == Len(GetDeltasForBase(versions, h))
    <3>1. PICK k \in 1..N :
            /\ \/ backend' = Rebased(h, k - 1).be
               \/ "update" \in config.faults /\ backend' = Rebased(h, k).be
            /\ versions' = Rebased(h, k - 1).vs
      BY <2>11, Zenon DEF DeleteInterrupted, MayFail
    <3>2. N \in Nat
      <4>1. GetDeltasForBase(versions, h) \in Seq(Rows)
        BY <1>0, <2>4, DeltasOfBase
      <4> QED BY <4>1
    <3>3. k \in 0..N /\ k - 1 \in 0..N
      <4> HIDE DEF N
      <4> QED BY <3>2
    <3> DEFINE s == Rebased(h, k - 1)
               t == Rebased(h, k)
    <3>4. /\ s.be \in Stores /\ s.vs \in Seq(Rows) /\ Distinct(s.vs)
          /\ \A x \in Hash : s.be[x] = None <=> backend[x] = None
          /\ CodecsTell => \A x \in Hash : s.be[x] # None => s.be[x].of = x
          /\ \A x \in Hash : GetBySha256(s.vs)[x].storage = "none" <=> GetBySha256(versions)[x].storage = "none"
      BY <2>4, <3>3, RebasedInv
    <3>5. /\ t.be \in Stores
          /\ CodecsTell => \A x \in Hash : t.be[x] # None => t.be[x].of = x
      BY <2>4, <3>3, RebasedInv
    <3> HIDE DEF N, s, t
    <3>6. Undisturbed => Paired(s.be, GetBySha256(s.vs))
      BY <1>0, <3>4 DEF Paired
    <3>7. CASE backend' = s.be /\ versions' = s.vs
      <4>1. CodecsTell => MadeFromContent'
        BY <3>4, <3>7 DEF MadeFromContent
      <4> QED BY <2>1, <3>4, <3>6, <3>7, <4>1, StoredAgain
    <3>8. CASE "update" \in config.faults /\ backend' = t.be /\ versions' = s.vs
      <4>1. CodecsTell => MadeFromContent'
        BY <3>5, <3>8 DEF MadeFromContent
      <4>2. ~Undisturbed
        BY <3>8 DEF Undisturbed
      <4> QED BY <2>1, <3>4, <3>5, <3>8, <4>1, <4>2, StoredAgain
    <3> QED BY <3>1, <3>7, <3>8 DEF s, t
  <2>12. CASE BareDelete(h)
    <3>1. backend' = [backend EXCEPT ![h] = None] /\ versions' = versions /\ "bare_delete" \in config.requests
      BY <2>12 DEF BareDelete, Asked
    <3>2. backend' \in Stores /\ (MadeFromContent => MadeFromContent')
      BY <1>0, <2>4, <3>1 DEF Stores, MadeFromContent
    <3>3. ~Undisturbed
      BY <3>1 DEF Undisturbed
    <3> QED BY <1>0, <2>1, <3>1, <3>2, <3>3, StoredAgain
  <2> QED BY <2>2, <2>5, <2>6, <2>7, <2>8, <2>9, <2>10, <2>11, <2>12
<1> QED BY <1>1, <1>2

\* For every set of contents and files, every limit and every set-up.
THEOREM LfsInvariance == LfsSpec => []LfsInv
<1>1. LfsInit => LfsInv
  <2> SUFFICES ASSUME LfsInit PROVE LfsInv
    OBVIOUS
  <2>1. versions = <<>> /\ backend = [h \in Hash |-> None] /\ config \in Configs
    BY DEF LfsInit
  <2>2. versions \in Seq(Rows) /\ Len(versions) = 0 /\ Distinct(versions)
    BY <2>1 DEF Distinct
  <2>3. backend \in Stores /\ MadeFromContent
    BY <2>1 DEF Stores, MadeFromContent
  <2>4. \A h \in Hash : Oldest(versions, h) = 0
    <3>1. \A i \in 1..Len(versions) : FALSE
      BY <2>2
    <3> QED BY <2>2, <3>1, OldestIs
  <2>5. ASSUME NEW h \in Hash PROVE GetBySha256(versions)[h].storage = "none"
    <3>1. GetBySha256(versions)[h] = NoRecord
      BY <2>4, GetBySha256Is
    <3> QED BY <3>1 DEF NoRecord
  <2>6. Paired(backend, GetBySha256(versions))
    BY <2>1, <2>5 DEF Paired
  <2> QED BY <2>1, <2>2, <2>3, <2>6 DEF LfsInv
<1>2. LfsInv /\ [LfsNext]_lfsVars => LfsInv'
  BY LfsStep
<1> QED BY <1>1, <1>2, PTL DEF LfsSpec

\* For every set of contents and every set-up, the backend and the version table
\* keep their types.
THEOREM LfsTypeCorrect == LfsSpec => []LfsTypeOK
<1>1. LfsInv => LfsTypeOK
  <2> SUFFICES ASSUME LfsInv PROVE LfsTypeOK
    OBVIOUS
  <2>1. versions \in Seq(Rows) /\ Rows \subseteq Records
    BY DEF LfsInv, Rows
  <2> HIDE DEF Rows
  <2>2. versions \in Seq(Records)
    BY <2>1
  <2> QED BY <2>2 DEF LfsInv, Stores, LfsTypeOK
<1> QED BY <1>1, LfsInvariance, PTL

\* No two live records of a file share a version number, whatever uploads,
\* deletions and failing writes came before.
THEOREM LfsVersionsUnique == LfsSpec => []VersionsUnique
<1>1. LfsInv => VersionsUnique
  <2> SUFFICES ASSUME LfsInv PROVE VersionsUnique
    OBVIOUS
  <2>1. DOMAIN versions = 1..Len(versions)
    BY DEF LfsInv
  <2> QED BY <2>1 DEF LfsInv, Distinct, VersionsUnique
<1> QED BY <1>1, LfsInvariance, PTL

\* Where the codecs tell, the rebase loop of a deletion stores nothing under a hash
\* that was not made from its content, whatever requests and failing writes came
\* before.
THEOREM LfsStoredFromContent == LfsSpec => []StoredFromContent
<1>1. LfsInv => StoredFromContent
  BY DEF LfsInv, StoredFromContent
<1> QED BY <1>1, LfsInvariance, PTL

\* No version record outlives its blob while clients keep to LFS uploads, manifests
\* and DELETE.
THEOREM LfsNoStaleRecords == LfsSpec => []NoStaleRecords
<1>1. LfsInv => NoStaleRecords
  <2> SUFFICES ASSUME LfsInv, Undisturbed, NEW i \in DOMAIN versions
               PROVE  backend[versions[i].sha] # None
    BY DEF NoStaleRecords
  <2> DEFINE h == versions[i].sha
             rec == GetBySha256(versions)
  <2>1. versions \in Seq(Rows) /\ Paired(backend, rec)
    BY DEF LfsInv
  <2>2. i \in 1..Len(versions) /\ versions[i] \in Rows
    BY <2>1
  <2>3. h \in Hash
    BY <2>2 DEF Rows, Records
  <2> HIDE DEF h
  <2>4. Oldest(versions, h) # 0
    BY <2>1, <2>2, OldestIs DEF h
  <2>5. rec[h].storage # "none"
    BY <2>1, <2>3, <2>4, RecordIs
  <2> QED BY <2>1, <2>3, <2>5 DEF Paired, h
<1> QED BY <1>1, LfsInvariance, PTL

-----------------------------------------------------------------------------
(* Chains.                                                                 *)

\* Within the limits the bytes agree with the records.
SoundNow == Sound(backend, GetBySha256(versions))

\* An upload whose bytes agree with its record.
Uploaded(be, rec, be2, rec2, h, data) ==
    /\ \A x \in Hash : be2[x] = IF x = h /\ be[x] = None THEN data ELSE be[x]
    /\ \A x \in Hash : x # h \/ rec[x].storage # "none" => rec2[x] = rec[x]
    /\ rec[h].storage = "none" =>
         \/ rec2[h].storage = "raw" /\ data = Plain(h)
         \/ rec2[h].storage = "compressed" /\ data = Compress(Plain(h))
         \/ /\ rec2[h].storage = "delta" /\ rec2[h].base \in Hash /\ be[rec2[h].base] # None
            /\ data = Compress(Delta(h, rec2[h].base))

LEMMA UploadSound ==
    ASSUME NEW h \in Hash, NEW be, NEW rec, NEW be2, NEW rec2, NEW data,
           Sound(be, rec), Uploaded(be, rec, be2, rec2, h, data)
    PROVE  Sound(be2, rec2)
<1> SUFFICES ASSUME NEW x \in Hash PROVE SoundAt(be2, rec2, x)
  BY DEF Sound
<1>0. /\ \A y \in Hash : be2[y] = IF y = h /\ be[y] = None THEN data ELSE be[y]
      /\ \A y \in Hash : y # h \/ rec[y].storage # "none" => rec2[y] = rec[y]
  BY DEF Uploaded
<1>1. SoundAt(be, rec, x)
  BY DEF Sound
<1>2. \A y \in Hash : be[y] # None => be2[y] = be[y]
  BY <1>0
<1>3. CASE x = h /\ rec[x].storage = "none"
  <2>1. be[x] = None /\ be2[x] = data
    BY <1>0, <1>1, <1>3 DEF SoundAt
  <2> QED BY <1>2, <1>3, <2>1 DEF SoundAt, Uploaded
<1>4. CASE ~(x = h /\ rec[x].storage = "none")
  <2>1. rec2[x] = rec[x]
    BY <1>0, <1>4
  <2>2. x = h => be[x] # None
    <3>1. ASSUME x = h PROVE be[x] # None
      <4>1. Plain(x) # None /\ Compress(Plain(x)) # None
        BY PlainBytes, CompressIs
      <4>2. rec[x].base \in Hash => Compress(Delta(x, rec[x].base)) # None
        BY DeltaBytes, CompressIs
      <4> QED BY <1>1, <1>4, <3>1, <4>1, <4>2 DEF SoundAt
    <3> QED BY <3>1
  <2>3. be2[x] = be[x]
    BY <1>0, <2>2
  <2> QED BY <1>1, <1>2, <2>1, <2>3 DEF SoundAt
<1> QED BY <1>3, <1>4

\* Within the limits the delta of an upload is taken from the base's content.
LEMMA EncodedSound ==
    ASSUME LfsInv, SoundNow, WithinLimits, NEW h \in Hash, NEW b \in Hash \cup {None}
    PROVE  LET enc == Encoded(h, b) IN
           \/ enc.storage = "compressed" /\ enc.data = Compress(Plain(h))
           \/ /\ enc.storage = "delta" /\ enc.base \in Hash /\ backend[enc.base] # None
              /\ enc.data = Compress(Delta(h, enc.base))
<1> DEFINE enc == Encoded(h, b)
           rec == GetBySha256(versions)
<1>1. \/ enc.storage = "compressed" /\ enc.base = None /\ enc.data = Compress(Plain(h))
      \/ /\ enc.storage = "delta" /\ enc.base = b /\ b \in Hash /\ backend[b] # None
         /\ enc.data = Compress(EncodeDelta(Get(backend, rec, b), b, h))
  BY EncodedIs
<1>2. backend \in Stores /\ versions \in Seq(Rows)
  BY DEF LfsInv
<1>3. Tells(rec) /\ Sound(backend, rec) /\ Limits(rec)
  BY <1>2, TableTells DEF SoundNow, WithinLimits, Limits
<1> HIDE DEF enc, rec
<1>4. ASSUME b \in Hash, backend[b] # None PROVE EncodeDelta(Get(backend, rec, b), b, h) = Delta(h, b)
  <2>1. Get(backend, rec, b) = Plain(b)
    BY <1>2, <1>3, <1>4, SoundGets
  <2> QED BY <2>1 DEF EncodeDelta
<1> QED BY <1>1, <1>4 DEF enc

\* Within the limits, every step of an undisturbed server leaves bytes that agree
\* with the records.
LEMMA SoundStep ==
    ASSUME LfsInv, SoundNow, Undisturbed, WithinLimits, [LfsNext]_lfsVars
    PROVE  SoundNow'
<1> DEFINE rec == GetBySha256(versions)
<1>0. backend \in Stores /\ versions \in Seq(Rows) /\ config \in Configs /\ Sound(backend, rec) /\ Limits(rec)
  BY DEF LfsInv, SoundNow, WithinLimits, Limits
<1>1. CASE UNCHANGED lfsVars
  BY <1>1 DEF SoundNow, lfsVars
<1>2. CASE LfsNext
  <2>1. PICK h \in config.hashes :
         \/ \E f \in File, b \in config.hashes \cup {None} : UploadLfs(h, f, b)
         \/ \E b \in config.hashes \cup {None} : UploadLfsUntagged(h, b)
         \/ \E f \in File : UploadManifest(h, f)
         \/ UploadPlain(h) \/ Overwrite(h)
         \/ HandleDeleteBlob(h) \/ DeleteInterrupted(h) \/ BareDelete(h)
    BY <1>2 DEF LfsNext
  <2>2. config.hashes \subseteq Hash
    BY <1>0, LfsAssumption DEF Config
  <2>3. h \in Hash /\ Plain(h) \in Bytes /\ Plain(h) # None /\ Plain(h).of = h
    BY <2>1, <2>2, PlainBytes
  <2>4. config.requests \subseteq {"lfs", "manifest", "delete"} /\ config.faults \subseteq {"insert", "remove"}
    BY DEF Undisturbed
  <2>5. ASSUME NEW f \in File, NEW b \in config.hashes \cup {None}, UploadLfs(h, f, b) PROVE SoundNow'
    <3> DEFINE enc == Encoded(h, b)
    <3>1. /\ enc.data \in Bytes /\ enc.data # None /\ enc.data.of = h
          /\ enc.storage \in {"raw", "compressed", "delta"} /\ enc.storage # "none"
          /\ enc.base \in Hash \cup {None} /\ (enc.storage = "delta" => enc.base \in Hash)
      BY <2>2, <2>3, EncodedIs
    <3>2. \/ enc.storage = "compressed" /\ enc.data = Compress(Plain(h))
          \/ /\ enc.storage = "delta" /\ enc.base \in Hash /\ backend[enc.base] # None
             /\ enc.data = Compress(Delta(h, enc.base))
      BY <2>2, <2>3, EncodedSound
    <3>3. InsertIfAbsent(h, enc.data) /\ RecordVersion(f, h, enc)
      BY <2>5 DEF UploadLfs
    <3> HIDE DEF enc
    <3>4. \A x \in Hash : backend'[x] = IF x = h /\ backend[x] = None THEN enc.data ELSE backend[x]
      BY <2>3, <3>1, <3>3, InsertedIfAbsent
    <3> DEFINE new == GetBySha256(versions')
    <3>5. \A x \in Hash : IF x = h /\ rec[x].storage = "none"
                          THEN new[x].storage = enc.storage /\ new[x].base = enc.base
                          ELSE new[x] = rec[x]
      BY <2>3, <3>1, <3>3, RecordedVersion
    <3> HIDE DEF new, rec
    <3>6. \A x \in Hash : x # h \/ rec[x].storage # "none" => new[x] = rec[x]
      BY <3>5
    <3>7. rec[h].storage = "none" => new[h].storage = enc.storage /\ new[h].base = enc.base
      BY <2>3, <3>5
    <3>8. Uploaded(backend, rec, backend', new, h, enc.data)
      BY <3>2, <3>4, <3>6, <3>7 DEF Uploaded
    <3>9. Sound(backend', new)
      BY <1>0, <2>3, <3>8, UploadSound
    <3> QED BY <3>9 DEF SoundNow, new
  <2>6. ASSUME NEW f \in File, UploadManifest(h, f) PROVE SoundNow'
    <3> DEFINE enc == AsIs(h)
    <3>1. InsertIfAbsent(h, Plain(h)) /\ RecordVersion(f, h, enc)
      BY <2>6 DEF UploadManifest
    <3>2. enc.storage = "raw" /\ enc.base = None
      BY DEF AsIs
    <3> HIDE DEF enc
    <3>3. \A x \in Hash : backend'[x] = IF x = h /\ backend[x] = None THEN Plain(h) ELSE backend[x]
      BY <2>3, <3>1, InsertedIfAbsent
    <3> DEFINE new == GetBySha256(versions')
    <3>4. \A x \in Hash : IF x = h /\ rec[x].storage = "none"
                          THEN new[x].storage = enc.storage /\ new[x].base = enc.base
                          ELSE new[x] = rec[x]
      BY <2>3, <3>1, <3>2, RecordedVersion
    <3> HIDE DEF new, rec
    <3>5. \A x \in Hash : x # h \/ rec[x].storage # "none" => new[x] = rec[x]
      BY <3>4
    <3>6. rec[h].storage = "none" => new[h].storage = "raw"
      BY <2>3, <3>2, <3>4
    <3>7. Uploaded(backend, rec, backend', new, h, Plain(h))
      BY <3>3, <3>5, <3>6 DEF Uploaded
    <3>8. Sound(backend', new)
      BY <1>0, <2>3, <3>7, UploadSound
    <3> QED BY <3>8 DEF SoundNow, new
  <2>7. CASE HandleDeleteBlob(h)
    <3> DEFINE n == Len(GetDeltasForBase(versions, h))
               s == Rebased(h, n)
               old == GetBySha256(s.vs)
    <3>1. n \in 0..n
      <4>1. GetDeltasForBase(versions, h) \in Seq(Rows)
        BY <1>0, <2>3, DeltasOfBase
      <4>2. n \in Nat
        BY <4>1
      <4> HIDE DEF n
      <4> QED BY <4>2
    <3>2. s.be \in Stores /\ s.vs \in Seq(Rows)
      BY <2>3, <3>1, RebasedInv
    <3>3. Sound(s.be, old) /\ \A x \in Hash : old[x].storage = "delta" => old[x].base # h
      BY <1>0, <2>3, <3>1, RebasedSound
    <3>4. \/ backend' = s.be /\ versions' = s.vs
          \/ backend' = [s.be EXCEPT ![h] = None] /\ versions' = DeleteBySha256(s.vs, h)
      BY <2>4, <2>7 DEF HandleDeleteBlob, MayFail
    <3>5. CASE backend' = s.be /\ versions' = s.vs
      BY <3>3, <3>5 DEF SoundNow
    <3>6. CASE backend' = [s.be EXCEPT ![h] = None] /\ versions' = DeleteBySha256(s.vs, h)
      <4> DEFINE new == GetBySha256(versions')
                 vs == s.vs
      <4>1. vs \in Seq(Rows) /\ versions' = DeleteBySha256(vs, h) /\ old = GetBySha256(vs)
        BY <3>2, <3>6
      <4> HIDE DEF n, s, old, vs
      <4>2. Removed(versions', vs, h)
        BY <2>3, <4>1, DeletedRecord
      <4>3. \A x \in Hash : new[x] = IF x = h THEN NoRecord ELSE old[x]
        BY <4>1, <4>2 DEF Removed
      <4>4. \A x \in Hash : backend'[x] = IF x = h THEN None ELSE s.be[x]
        BY <2>3, <3>2, <3>6 DEF Stores
      <4>5. NoRecord.storage = "none"
        BY DEF NoRecord
      <4> HIDE DEF new
      <4>6. ASSUME NEW x \in Hash PROVE SoundAt(backend', new, x)
        <5>1. CASE x = h
          BY <4>3, <4>4, <4>5, <5>1 DEF SoundAt
        <5>2. CASE x # h
          <6>1. SoundAt(s.be, old, x) /\ (old[x].storage = "delta" => old[x].base # h)
            BY <3>3 DEF Sound
          <6>2. new[x] = old[x] /\ backend'[x] = s.be[x]
            BY <4>3, <4>4, <5>2
          <6> QED BY <4>4, <6>1, <6>2 DEF SoundAt
        <5> QED BY <5>1, <5>2
      <4> QED BY <4>6 DEF SoundNow, Sound, new
    <3> QED BY <3>4, <3>5, <3>6
  <2>8. CASE DeleteInterrupted(h)
    <3> DEFINE N == Len(GetDeltasForBase(versions, h))
    <3>1. PICK k \in 1..N :
            /\ \/ backend' = Rebased(h, k - 1).be
               \/ "update" \in config.faults
            /\ versions' = Rebased(h, k - 1).vs
      BY <2>8, Zenon DEF DeleteInterrupted, MayFail
    <3>2. N \in Nat
      <4>1. GetDeltasForBase(versions, h) \in Seq(Rows)
        BY <1>0, <2>3, DeltasOfBase
      <4> QED BY <4>1
    <3>3. k - 1 \in 0..N
      <4> HIDE DEF N
      <4> QED BY <3>2
    <3>4. Sound(Rebased(h, k - 1).be, GetBySha256(Rebased(h, k - 1).vs))
      BY <1>0, <2>3, <3>3, RebasedSound
    <3>5. backend' = Rebased(h, k - 1).be
      BY <2>4, <3>1
    <3> QED BY <3>1, <3>4, <3>5 DEF SoundNow
  <2>9. ~UploadPlain(h) /\ ~Overwrite(h) /\ ~BareDelete(h) /\ \A b : ~UploadLfsUntagged(h, b)
    BY <2>4 DEF UploadPlain, Overwrite, BareDelete, UploadLfsUntagged, Asked
  <2> QED BY <2>1, <2>5, <2>6, <2>7, <2>8, <2>9
<1> QED BY <1>1, <1>2

\* As long as chains and deltas stay within the limits of reconstruct_blob and no
\* other request writes below the version records, GET returns the content of every
\* stored blob: for every number of contents and files, every length of chains and
\* every sequence of uploads, deletions and interrupted rebases.
THEOREM LfsChainsKeepContent == LfsSpec => ChainsKeepContent
<1>1. LfsInit => SoundNow
  <2> SUFFICES ASSUME LfsInit, NEW h \in Hash PROVE SoundAt(backend, GetBySha256(versions), h)
    BY DEF SoundNow, Sound
  <2>1. versions = <<>> /\ backend[h] = None
    BY DEF LfsInit
  <2>2. versions \in Seq(Rows) /\ \A i \in 1..Len(versions) : FALSE
    BY <2>1
  <2>3. Oldest(versions, h) = 0
    BY <2>2, OldestIs
  <2>4. GetBySha256(versions)[h] = NoRecord
    BY <2>3, GetBySha256Is
  <2> QED BY <2>1, <2>4 DEF SoundAt, NoRecord
<1>2. LfsInv /\ SoundNow /\ Undisturbed /\ WithinLimits /\ [LfsNext]_lfsVars => SoundNow'
  BY SoundStep
<1>3. Undisturbed /\ [LfsNext]_lfsVars => Undisturbed'
  <2> SUFFICES ASSUME Undisturbed, [LfsNext]_lfsVars PROVE Undisturbed'
    OBVIOUS
  <2>1. config' = config
    BY DEF LfsNext, lfsVars
  <2> QED BY <2>1 DEF Undisturbed
<1>4. LfsInv /\ SoundNow /\ WithinLimits => GetReturnsContent /\ MadeFromContent
  <2> SUFFICES ASSUME LfsInv, SoundNow, WithinLimits, NEW h \in Hash, backend[h] # None
               PROVE  Get(backend, GetBySha256(versions), h) = Plain(h) /\ backend[h].of = h
    BY DEF GetReturnsContent, MadeFromContent
  <2> DEFINE rec == GetBySha256(versions)
  <2>1. backend \in Stores /\ versions \in Seq(Rows)
    BY DEF LfsInv
  <2>2. Tells(rec) /\ Sound(backend, rec) /\ Limits(rec)
    BY <2>1, TableTells DEF SoundNow, WithinLimits, Limits
  <2> HIDE DEF rec
  <2>3. Get(backend, rec, h) = Plain(h) /\ backend[h].of = h
    BY <2>1, <2>2, SoundGets
  <2> QED BY <2>3 DEF rec
<1> QED BY <1>1, <1>2, <1>3, <1>4, LfsInvariance, PTL DEF LfsSpec, ChainsKeepContent

-----------------------------------------------------------------------------
(* The backends: the invariant.                                            *)


\* What a call in progress remembers: the temporary file holds the bytes to be
\* stored, and only a removal that awaits its verification has taken effect.
TaskInv ==
    /\ task.pc \in {"temp", "synced"} => temp = call.form
    /\ call # None => (call.applied => task.pc = "removed")

\* IndexDescribesStore, also during a call: a bucket's index and content may differ
\* while a removal awaits its verification.
IndexInv ==
    ~shared =>
        \A h \in Hash : \/ h \in index <=> blobs[h] # None
                        \/ /\ kind = "s3"
                           /\ \/ answer[h] = "unsure"
                              \/ call # None /\ call.hash = h /\ task.pc = "removed"

Inv == TypeOK /\ TaskInv /\ IndexInv

-----------------------------------------------------------------------------
(* The invariant.                                                          *)

\* A call is a record with these fields, and it is not None.
LEMMA CallFields ==
  /\ \A do \in {"insert", "stream", "delete"}, h \in Hash, f \in Form, a \in BOOLEAN :
       /\ [do |-> do, hash |-> h, form |-> f, applied |-> a] \in Store!Calls
       /\ [do |-> do, hash |-> h, form |-> f, applied |-> a] # None
  /\ \A c \in Store!Calls : /\ c.do \in {"insert", "stream", "delete"} /\ c.hash \in Hash
                            /\ c.form \in Form /\ c.applied \in BOOLEAN
  /\ \A c \in Store!Calls, a \in BOOLEAN : [c EXCEPT !.applied = a] \in Store!Calls
BY CallAssumption DEF Store!Calls

\* A call that comes back leaves types and its task in order.
LEMMA Returning ==
  ASSUME TypeOK, call # None, NEW res \in {"ok", "absent", "unsure"}, Return(res)
  PROVE  /\ call' = None /\ task' = NoTask /\ answer' \in [Hash -> Store!Answers]
         /\ answer'[call.hash] = IF task.told THEN res ELSE "unsure"
         /\ \A h \in Hash \ {call.hash} : answer'[h] = answer[h]
BY CallFields DEF TypeOK, Return, Store!Answers

LEMMA Starting ==
  ASSUME Inv, NEW do \in {"insert", "stream", "delete"}, NEW h \in Hash, NEW f \in Form,
         NEW told \in BOOLEAN, Start(do, h, f, told)
  PROVE  Inv'
<1> USE StorageAssumption DEF Inv, Start
<1>1. call' \in Store!Calls /\ call' # None /\ call'.applied = FALSE
  BY CallFields
<1>2. task' \in Tasks /\ task' # NoTask /\ task'.pc = "start"
  BY DEF Tasks, NoTask
<1>3. TypeOK'
  BY <1>1, <1>2 DEF TypeOK
<1>4. TaskInv'
  BY <1>1, <1>2 DEF TaskInv
<1>5. IndexInv'
  BY DEF IndexInv, TypeOK
<1> QED BY <1>3, <1>4, <1>5

\* A call that comes back may have changed what is stored and indexed under its own
\* hash, where both agree again unless a bucket's call ended in an error.
LEMMA Concluding ==
  ASSUME Inv, call # None, NEW res \in {"ok", "absent", "unsure"}, Return(res), UNCHANGED <<shared, kind>>,
         temp' \in Form \cup {None}, loose' \in [Hash -> SUBSET (Form \cup {None, Torn})],
         blobs' \in [Hash -> Form \cup {None, Torn}], index' \subseteq Hash,
         \A h \in Hash \ {call.hash} : blobs'[h] = blobs[h] /\ (h \in index' <=> h \in index),
         ~shared => \/ call.hash \in index' <=> blobs'[call.hash] # None
                    \/ kind = "s3" /\ (res = "unsure" \/ ~task.told)
  PROVE  Inv'
<1> USE DEF Inv
<1>1. /\ call' = None /\ task' = NoTask /\ answer' \in [Hash -> Store!Answers]
      /\ answer'[call.hash] = IF task.told THEN res ELSE "unsure"
      /\ \A h \in Hash \ {call.hash} : answer'[h] = answer[h]
  BY Returning
<1>2. TypeOK'
  BY <1>1 DEF TypeOK, Tasks, NoTask
<1>3. TaskInv'
  BY <1>1 DEF TaskInv, NoTask
<1>4. IndexInv'
  BY <1>1 DEF IndexInv
<1> QED BY <1>2, <1>3, <1>4

LEMMA MemorySteps ==
  ASSUME Inv, MemoryInsert \/ MemoryReadFails \/ MemoryDelete
  PROVE  Inv'
<1> USE StorageAssumption DEF Inv
<1>1. call # None /\ call \in Store!Calls /\ kind = "memory" /\ UNCHANGED <<loose, shared, kind, temp>>
  BY DEF MemoryInsert, MemoryReadFails, MemoryDelete, At, TypeOK
<1>2. call.hash \in Hash /\ call.form \in Form /\ call.form # None
  BY <1>1, CallFields
<1>3. ~shared => (call.hash \in index <=> blobs[call.hash] # None)
  BY <1>1, <1>2 DEF IndexInv
<1>4. PICK res \in {"ok", "absent", "unsure"} : Return(res)
  BY DEF MemoryInsert, MemoryReadFails, MemoryDelete
<1>5. /\ blobs' \in [Hash -> Form \cup {None, Torn}] /\ index' \subseteq Hash
      /\ \A h \in Hash \ {call.hash} : blobs'[h] = blobs[h] /\ (h \in index' <=> h \in index)
      /\ ~shared => (call.hash \in index' <=> blobs'[call.hash] # None)
  BY <1>2, <1>3 DEF MemoryInsert, MemoryReadFails, MemoryDelete, Put, Indexed, Unindexed, TypeOK
<1> QED BY <1>1, <1>4, <1>5, Concluding DEF TypeOK

LEMMA FsSteps ==
  ASSUME Inv, FsWriteTemp \/ FsSync \/ FsRename \/ FsFails \/ FsDelete
  PROVE  Inv'
<1> USE StorageAssumption DEF Inv
<1>1. call # None /\ call \in Store!Calls /\ kind = "filesystem" /\ UNCHANGED <<shared, kind>>
  BY DEF FsWriteTemp, FsSync, FsRename, FsFails, FsDelete, At, TypeOK
<1>2. call.hash \in Hash /\ call.form \in Form /\ call.form # None
  BY <1>1, CallFields
<1>3. ~shared => (call.hash \in index <=> blobs[call.hash] # None)
  BY <1>1, <1>2 DEF IndexInv
<1>4. CASE FsWriteTemp \/ FsSync
  <2>1. task' \in Tasks /\ task'.pc \in {"temp", "synced"} /\ task'.pc # "removed" /\ task.pc # "removed"
    BY <1>4 DEF FsWriteTemp, FsSync, At, TypeOK, Tasks
  <2>2. temp' = call.form /\ UNCHANGED <<blobs, loose, call, answer, index>>
    BY <1>4 DEF FsWriteTemp, FsSync, At, TaskInv
  <2>3. TypeOK'
    BY <1>1, <1>2, <2>1, <2>2 DEF TypeOK, NoTask
  <2> QED BY <1>1, <2>1, <2>2, <2>3 DEF TaskInv, IndexInv
<1>5. CASE FsRename
  <2>1. temp = call.form /\ Return("ok") /\ temp' = None
    BY <1>5 DEF FsRename, At, TaskInv
  <2>2. /\ blobs' \in [Hash -> Form \cup {None, Torn}] /\ index' \subseteq Hash
        /\ \A h \in Hash \ {call.hash} : blobs'[h] = blobs[h] /\ (h \in index' <=> h \in index)
        /\ call.hash \in index' /\ blobs'[call.hash] # None
    BY <1>2, <1>5, <2>1 DEF FsRename, Put, Indexed, TypeOK
  <2>3. loose' \in [Hash -> SUBSET (Form \cup {None, Torn})]
    BY <1>2, <1>5 DEF FsRename, Loosen, TypeOK
  <2> QED BY <1>1, <2>1, <2>2, <2>3, Concluding
<1>6. CASE FsFails
  BY <1>1, <1>3, <1>6, Concluding DEF FsFails, TypeOK
<1>7. CASE FsDelete
  <2>1. PICK res \in {"ok", "absent", "unsure"} : Return(res)
    BY <1>7 DEF FsDelete
  <2>2. /\ blobs' \in [Hash -> Form \cup {None, Torn}] /\ index' \subseteq Hash
        /\ \A h \in Hash \ {call.hash} : blobs'[h] = blobs[h] /\ (h \in index' <=> h \in index)
        /\ ~shared => (call.hash \in index' <=> blobs'[call.hash] # None)
    BY <1>2, <1>3, <1>7 DEF FsDelete, Put, Unindexed, TypeOK
  <2>3. loose' \in [Hash -> SUBSET (Form \cup {None, Torn})] /\ temp' = temp
    <3>1. (loose' = loose \/ Loosen({})) /\ temp' = temp
      BY <1>7 DEF FsDelete
    <3>2. loose \in [Hash -> SUBSET (Form \cup {None, Torn})] /\ blobs[call.hash] \in Form \cup {None, Torn}
      BY <1>2 DEF TypeOK
    <3>3. loose[call.hash] \cup {blobs[call.hash]} \cup {} \in SUBSET (Form \cup {None, Torn})
      BY <1>2, <3>2
    <3>4. Loosen({}) => loose' \in [Hash -> SUBSET (Form \cup {None, Torn})]
      BY <1>2, <3>2, <3>3 DEF Loosen
    <3> QED BY <3>1, <3>2, <3>4
  <2> QED BY <1>1, <2>1, <2>2, <2>3, Concluding DEF TypeOK
<1> QED BY <1>4, <1>5, <1>6, <1>7

LEMMA S3Steps ==
  ASSUME Inv, S3WriteTemp \/ S3Put \/ S3Delete \/ S3Verify
  PROVE  Inv'
<1> USE StorageAssumption DEF Inv
<1>1. call # None /\ call \in Store!Calls /\ kind = "s3" /\ UNCHANGED <<loose, shared, kind>>
  BY DEF S3WriteTemp, S3Put, S3Delete, S3Verify, At, TypeOK
<1>2. call.hash \in Hash /\ call.form \in Form /\ call.form # None
  BY <1>1, CallFields
<1>3. CASE S3WriteTemp /\ task' = [task EXCEPT !.pc = "temp"]
  <2>1. task' \in Tasks /\ task'.pc = "temp" /\ task.pc # "removed"
    BY <1>3 DEF S3WriteTemp, At, TypeOK, Tasks
  <2>2. temp' = call.form /\ UNCHANGED <<blobs, call, answer, index>>
    BY <1>3, <2>1 DEF S3WriteTemp, Return, NoTask
  <2>3. TypeOK'
    BY <1>1, <1>2, <2>1, <2>2 DEF TypeOK, NoTask
  <2> QED BY <1>1, <2>1, <2>2, <2>3 DEF TaskInv, IndexInv
<1>4. CASE S3WriteTemp /\ Return("unsure") /\ UNCHANGED temp
  BY <1>1, <1>4, Concluding DEF S3WriteTemp, TypeOK
<1>5. CASE S3Put
  <2>1. PICK res \in {"ok", "unsure"} : /\ Return(res) /\ (Put(call.form) \/ UNCHANGED blobs)
                                        /\ res = "ok" => Put(call.form) /\ Indexed
                                        /\ res = "unsure" => UNCHANGED index
    BY <1>5 DEF S3Put
  <2>2. /\ blobs' \in [Hash -> Form \cup {None, Torn}] /\ index' \subseteq Hash
        /\ \A h \in Hash \ {call.hash} : blobs'[h] = blobs[h] /\ (h \in index' <=> h \in index)
        /\ res = "ok" => call.hash \in index' /\ blobs'[call.hash] # None
    BY <1>2, <2>1 DEF Put, Indexed, TypeOK
  <2> QED BY <1>1, <1>5, <2>1, <2>2, Concluding DEF S3Put, TypeOK
<1>6. CASE S3Delete
  <2>1. PICK existed \in BOOLEAN, removed \in BOOLEAN :
          /\ IF removed THEN Put(None) ELSE UNCHANGED blobs
          /\ \/ /\ task' = [task EXCEPT !.pc = "removed", !.existed = existed]
                /\ call' = [call EXCEPT !.applied = removed] /\ UNCHANGED answer
             \/ Return("unsure")
    <3>1. S3Exists(call.hash) \subseteq BOOLEAN
      BY DEF S3Exists
    <3> QED BY <1>6, <3>1, ZenonT(40) DEF S3Delete
  <2>2. /\ blobs' \in [Hash -> Form \cup {None, Torn}] /\ UNCHANGED <<index, temp>>
        /\ \A h \in Hash \ {call.hash} : blobs'[h] = blobs[h]
    BY <1>2, <1>6, <2>1 DEF S3Delete, Put, TypeOK
  <2>3. CASE Return("unsure")
    BY <1>1, <2>2, <2>3, Concluding DEF TypeOK
  <2>4. CASE /\ task' = [task EXCEPT !.pc = "removed", !.existed = existed]
             /\ call' = [call EXCEPT !.applied = removed] /\ UNCHANGED answer
    <3>1. task' \in Tasks /\ task'.pc = "removed" /\ task' # NoTask
      BY <2>4 DEF TypeOK, Tasks, NoTask
    <3>2. call' \in Store!Calls /\ call' # None /\ call'.hash = call.hash
      BY <1>1, <2>4, CallFields, CallAssumption DEF Store!Calls
    <3>3. TypeOK'
      BY <1>1, <2>2, <2>4, <3>1, <3>2 DEF TypeOK
    <3> QED BY <1>1, <2>2, <2>4, <3>1, <3>2, <3>3 DEF TaskInv, IndexInv
  <2> QED BY <2>1, <2>3, <2>4, Zenon
<1>7. CASE S3Verify
  <2>1. PICK res \in {"ok", "absent", "unsure"} :
          /\ Return(res) /\ UNCHANGED blobs
          /\ \/ blobs[call.hash] = None /\ Unindexed
             \/ res = "unsure" /\ UNCHANGED index
    BY <1>7 DEF S3Verify
  <2>2. /\ index' \subseteq Hash
        /\ \A h \in Hash \ {call.hash} : h \in index' <=> h \in index
        /\ res = "unsure" \/ (call.hash \notin index' /\ blobs'[call.hash] = None)
    BY <2>1 DEF Unindexed, TypeOK
  <2> QED BY <1>1, <1>7, <2>1, <2>2, Concluding DEF S3Verify, TypeOK
<1> QED BY <1>3, <1>4, <1>5, <1>6, <1>7 DEF S3WriteTemp

\* A new process lists what is stored; the world outside changes a shared storage.
LEMMA WorldSteps ==
  ASSUME Inv, Kill \/ PowerCut \/ (\E h \in Hash : Settle(h) \/ \E v \in {None, Raw} : Outside(h, v))
  PROVE  Inv'
<1> USE StorageAssumption DEF Inv
<1>1. ASSUME NEW b \in [Hash -> Form \cup {None, Torn}], Restart(b),
             loose' \in [Hash -> SUBSET (Form \cup {None, Torn})]
      PROVE  Inv'
  <2>1. TypeOK'
    BY <1>1 DEF Restart, TypeOK, Listed, Tasks, NoTask, Store!Answers
  <2> QED BY <1>1, <2>1 DEF Restart, TaskInv, IndexInv, Listed, NoTask
<1>2. CASE Kill
  BY <1>1, <1>2 DEF Kill, TypeOK
<1>3. CASE PowerCut
  BY <1>1, <1>3 DEF PowerCut
<1>4. ASSUME NEW h \in Hash, Settle(h) PROVE Inv'
  BY <1>4 DEF Settle, TypeOK, TaskInv, IndexInv
<1>5. ASSUME NEW h \in Hash, NEW v \in {None, Raw}, Outside(h, v) PROVE Inv'
  BY <1>5 DEF Outside, TypeOK, TaskInv, IndexInv
<1> QED BY <1>2, <1>3, <1>4, <1>5

LEMMA Invariant == Spec => []Inv
<1> USE StorageAssumption
<1>1. Init => Inv
  <2> SUFFICES ASSUME Init PROVE Inv
    OBVIOUS
  <2>1. TypeOK
    BY DEF Init, TypeOK, Listed, Tasks, NoTask, Store!Answers
  <2> QED BY <2>1 DEF Init, Inv, TaskInv, IndexInv, Listed, NoTask
<1>2. Inv /\ [Next]_vars => Inv'
  <2> SUFFICES ASSUME Inv, [Next]_vars PROVE Inv'
    OBVIOUS
  <2>1. ASSUME NEW h \in Hash, \/ Insert(h) \/ TryInsert(h) \/ InsertStream(h) \/ Delete(h) \/ TryDelete(h)
                               \/ \E f \in Form : InsertWithHash(h, f) \/ TryInsertWithHash(h, f)
        PROVE  Inv'
    BY <2>1, Starting DEF Insert, TryInsert, InsertStream, Delete, TryDelete, InsertWithHash, TryInsertWithHash
  <2>2. CASE Step
    BY <2>2, MemorySteps, FsSteps, S3Steps DEF Step
  <2>3. CASE UNCHANGED vars
    BY <2>3 DEF vars, Inv, TypeOK, TaskInv, IndexInv
  <2> QED BY <2>1, <2>2, <2>3, WorldSteps DEF Next
<1> QED BY <1>1, <1>2, PTL DEF Spec

\* For any number of blobs: between calls the index names exactly what is stored,
\* except where a bucket's call ended in an error.
THEOREM IndexIsRight == Spec => []IndexDescribesStore
<1>1. Inv => IndexDescribesStore
  BY DEF Inv, IndexInv, IndexDescribesStore
<1> QED BY <1>1, Invariant, PTL

-----------------------------------------------------------------------------
(* Each backend implements BlobStore: its steps are the promise's steps,   *)
(* with FsWriteTemp, FsSync and the like invisible.                        *)

\* A call that comes back, having taken effect in this step or not.
LEMMA ReturnIsWork ==
  ASSUME Inv, call # None, NEW effect \in BOOLEAN, NEW res \in {"ok", "absent", "unsure"}, Return(res),
         IF effect THEN Store!TakeEffect ELSE UNCHANGED <<blobs, loose>>,
         res = "ok" => call.applied \/ effect, res = "absent" => call.do = "delete",
         UNCHANGED <<shared, kind>>
  PROVE  Store!StoreNext
<1> DEFINE told == IF task.told THEN res ELSE "unsure"
<1>1. told \in {"pending", "ok", "absent", "unsure"} /\ told # "pending"
  OBVIOUS
<1>2. Store!Work(effect, told)
  BY <1>1 DEF Return, Store!Work
<1> QED BY <1>1, <1>2 DEF Store!StoreNext

\* What a step stores is what its call asked for.
LEMMA PutTakesEffect ==
  ASSUME Inv, call # None, ~call.applied,
         Put(IF call.do = "delete" THEN None ELSE call.form),
         \/ UNCHANGED loose
         \/ Loosen(IF call.do = "stream" THEN {Torn} ELSE {})
  PROVE  Store!TakeEffect
BY CallFields DEF Inv, TypeOK, Put, Loosen, Store!TakeEffect

LEMMA MemoryImplements ==
  ASSUME Inv, MemoryInsert \/ MemoryReadFails \/ MemoryDelete
  PROVE  Store!StoreNext
<1>1. call # None /\ ~call.applied /\ UNCHANGED <<loose, shared, kind>>
  BY DEF MemoryInsert, MemoryReadFails, MemoryDelete, At, Inv, TaskInv
<1>2. CASE MemoryInsert
  BY <1>1, <1>2, PutTakesEffect, ReturnIsWork DEF MemoryInsert, At
<1>3. CASE MemoryReadFails
  BY <1>1, <1>3, ReturnIsWork DEF MemoryReadFails
<1>4. CASE MemoryDelete
  BY <1>1, <1>4, PutTakesEffect, ReturnIsWork DEF MemoryDelete, At
<1> QED BY <1>2, <1>3, <1>4

LEMMA FsImplements ==
  ASSUME Inv, FsWriteTemp \/ FsSync \/ FsRename \/ FsFails \/ FsDelete
  PROVE  Store!StoreNext \/ UNCHANGED Store!storeVars
<1>1. call # None /\ ~call.applied /\ UNCHANGED <<shared, kind>>
  BY DEF FsWriteTemp, FsSync, FsRename, FsFails, FsDelete, At, Inv, TaskInv
<1>2. CASE FsWriteTemp \/ FsSync
  BY <1>2 DEF FsWriteTemp, FsSync, Store!storeVars
<1>3. CASE FsRename
  <2>1. call.do \in {"insert", "stream"} /\ temp = call.form
    BY <1>3 DEF FsRename, At, Inv, TaskInv
  <2>2. Store!TakeEffect
    BY <1>1, <1>3, <2>1, PutTakesEffect DEF FsRename
  <2> QED BY <1>1, <1>3, <2>1, <2>2, ReturnIsWork DEF FsRename
<1>4. CASE FsFails
  BY <1>1, <1>4, ReturnIsWork DEF FsFails
<1>5. CASE FsDelete
  <2>1. call.do = "delete"
    BY <1>5 DEF FsDelete, At
  <2>2. CASE Put(None) /\ Loosen({}) /\ Return("ok")
    <3>1. Store!TakeEffect
      BY <1>1, <2>1, <2>2, PutTakesEffect
    <3> QED BY <1>1, <2>2, <3>1, ReturnIsWork
  <2>3. CASE (Return("absent") \/ Return("unsure")) /\ UNCHANGED <<blobs, loose>>
    BY <1>1, <2>1, <2>3, ReturnIsWork
  <2> QED BY <1>5, <2>2, <2>3 DEF FsDelete
<1> QED BY <1>2, <1>3, <1>4, <1>5

LEMMA S3Implements ==
  ASSUME Inv, S3WriteTemp \/ S3Put \/ S3Delete \/ S3Verify
  PROVE  Store!StoreNext \/ UNCHANGED Store!storeVars
<1>1. call # None /\ UNCHANGED <<loose, shared, kind>>
  BY DEF S3WriteTemp, S3Put, S3Delete, S3Verify, At
<1>2. CASE S3WriteTemp
  BY <1>1, <1>2, ReturnIsWork, ZenonT(40) DEF S3WriteTemp, Store!storeVars
<1>3. CASE S3Put
  <2>1. ~call.applied /\ call.do \in {"insert", "stream"}
    BY <1>3 DEF S3Put, At, Inv, TaskInv
  <2>2. Put(call.form) => Store!TakeEffect
    BY <1>1, <2>1, PutTakesEffect
  <2>3. CASE Put(call.form) /\ (Return("ok") \/ Return("unsure"))
    BY <1>1, <2>2, <2>3, ReturnIsWork
  <2>4. CASE UNCHANGED blobs /\ Return("unsure")
    BY <1>1, <2>4, ReturnIsWork, Zenon
  <2> QED BY <1>3, <2>3, <2>4 DEF S3Put
<1>4. CASE S3Delete
  <2>1. ~call.applied /\ call.do = "delete"
    BY <1>4 DEF S3Delete, At, Inv, TaskInv
  <2>2. PICK removed \in BOOLEAN :
          /\ IF removed THEN Put(None) ELSE UNCHANGED blobs
          /\ \/ call' = [call EXCEPT !.applied = removed] /\ UNCHANGED answer
             \/ Return("unsure")
    BY <1>4 DEF S3Delete
  <2>3. IF removed THEN Store!TakeEffect ELSE UNCHANGED <<blobs, loose>>
    BY <1>1, <2>1, <2>2, PutTakesEffect
  <2>4. CASE Return("unsure")
    BY <1>1, <2>3, <2>4, ReturnIsWork
  <2>5. CASE call' = [call EXCEPT !.applied = removed] /\ UNCHANGED answer
    <3>1. call' = [call EXCEPT !.applied = call.applied \/ removed]
      BY <2>1, <2>5
    <3>2. Store!Work(removed, "pending")
      BY <1>1, <2>3, <2>5, <3>1 DEF Store!Work
    <3> QED BY <3>2 DEF Store!StoreNext
  <2> QED BY <2>2, <2>4, <2>5
\* The object is gone: the removal has taken effect, or takes effect now.
<1>5. CASE S3Verify
  <2>1. call.do = "delete" /\ call \in Store!Calls
    BY <1>1, <1>5 DEF S3Verify, At, Inv, TypeOK
  <2>2. CASE Return("unsure")
    BY <1>1, <1>5, <2>2, ReturnIsWork DEF S3Verify
  <2>3. CASE blobs[call.hash] = None /\ (Return("ok") \/ Return("absent"))
    <3>1. UNCHANGED blobs /\ blobs = [blobs EXCEPT ![call.hash] = None]
      BY <1>5, <2>3 DEF S3Verify, Inv, TypeOK
    <3>2. ~call.applied => Store!TakeEffect
      BY <1>1, <2>1, <3>1, PutTakesEffect DEF Put
    <3> QED BY <1>1, <2>1, <2>3, <3>1, <3>2, ReturnIsWork
  <2> QED BY <1>5, <2>2, <2>3 DEF S3Verify
<1> QED BY <1>2, <1>3, <1>4, <1>5

\* The three backends keep what the trait promises, for any number of blobs and
\* encodings, whatever request fails, whenever the process ends and whoever else
\* writes: every step of a backend is a step of BlobStore or invisible to it.
THEOREM BackendsKeepThePromise == Spec => KeepsThePromise
<1>1. Init => Store!StoreInit
  BY StorageAssumption DEF Init, Store!StoreInit
<1>2. Inv /\ [Next]_vars => [Store!StoreNext]_(Store!storeVars)
  <2> SUFFICES ASSUME Inv, [Next]_vars PROVE Store!StoreNext \/ UNCHANGED Store!storeVars
    OBVIOUS
  <2> USE StorageAssumption
  <2>1. ASSUME NEW h \in Hash, \/ Insert(h) \/ TryInsert(h) \/ InsertStream(h) \/ Delete(h) \/ TryDelete(h)
                               \/ \E f \in Form : InsertWithHash(h, f) \/ TryInsertWithHash(h, f)
        PROVE  Store!StoreNext
    <3>1. \E do \in {"insert", "stream", "delete"}, f \in Form, told \in BOOLEAN : Start(do, h, f, told)
      BY <2>1 DEF Insert, TryInsert, InsertStream, Delete, TryDelete, InsertWithHash, TryInsertWithHash
    <3>2. \E do \in {"insert", "stream", "delete"}, f \in Form : Store!Begin(do, h, f)
      BY <3>1 DEF Start, Store!Begin
    <3> QED BY <3>2 DEF Store!StoreNext
  <2>2. CASE Step
    BY <2>2, MemoryImplements, FsImplements, S3Implements DEF Step
  <2>3. ASSUME NEW h \in Hash, Settle(h) PROVE Store!StoreNext
    BY <2>3 DEF Settle, Store!Settle, Store!StoreNext
  <2>4. ASSUME NEW h \in Hash, NEW v \in {None, Raw}, Outside(h, v) PROVE Store!StoreNext
    BY <2>4 DEF Outside, Store!Outside, Store!StoreNext
  <2>5. CASE Kill
    BY <2>5 DEF Kill, Restart, Store!Crash, Store!StoreNext
  <2>6. CASE PowerCut
    BY <2>6 DEF PowerCut, Restart, Store!Crash, Store!StoreNext
  <2>7. CASE UNCHANGED vars
    BY <2>7 DEF vars, Store!storeVars
  <2> QED BY <2>1, <2>2, <2>3, <2>4, <2>5, <2>6, <2>7 DEF Next
<1> QED BY <1>1, <1>2, Invariant, PTL DEF Spec, KeepsThePromise, Store!StoreSpec
==============================================================================
