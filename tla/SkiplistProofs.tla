--------------------------- MODULE SkiplistProofs ---------------------------
(* Proofs about Skiplist, for any finite range of timestamps, any number of levels and
   any levels drawn: every row summarises exactly what it covers, the bounds are exact,
   the list implements the ordered set, and the queries answer as that set does.

   The nodes a walk meets before a timestamp fall in level, and together their rows
   stand for exactly the timestamps after the last higher node (FallingSums).  An
   insertion changes what a row covers only by the new timestamp and, for a row it comes
   between, by what the new row takes over (CoveredWhenGrown). *)
EXTENDS Skiplist, FiniteSetTheorems, NaturalsInduction, TLAPS

-----------------------------------------------------------------------------
(* Naturals, and finite sets of them. *)
LEMMA LeastNatural ==
  ASSUME NEW T, T \subseteq Nat, T # {}
  PROVE  \E m \in T : \A n \in T : m <= n
  <1> DEFINE R == OpToRel(<, Nat)
  <1>1. IsWellFoundedOn(R, Nat)
    BY NatLessThanWellFounded, Zenon
  <1> HIDE DEF R
  <1>2. PICK m \in T : \A n \in T : ~(<<n, m>> \in R)
    BY <1>1, WFMin
  <1>3. \A n \in T : ~(n < m)
    BY <1>2, Zenon DEF R, OpToRel
  <1> QED BY <1>3

LEMMA MinFacts ==
  ASSUME NEW T, T \subseteq Nat, T # {}
  PROVE  Min(T) \in T /\ \A n \in T : Min(T) <= n
  <1>1. \E m \in T : \A n \in T : m <= n
    BY LeastNatural
  <1> QED BY <1>1, Zenon DEF Min

LEMMA MaxFacts ==
  ASSUME NEW T, NEW b \in Nat, T \subseteq 0 .. b, T # {}
  PROVE  Max(T) \in T /\ \A n \in T : n <= Max(T)
  <1> DEFINE U == {b - n : n \in T}
  <1>1. U \subseteq Nat /\ U # {}
    <2>1. ASSUME NEW n \in T PROVE b - n \in Nat
      <3>1. n \in Nat /\ n <= b
        OBVIOUS
      <3> QED BY <3>1
    <2> QED BY <2>1
  <1> HIDE DEF U
  <1>2. PICK m \in U : \A n \in U : m <= n
    BY <1>1, LeastNatural
  <1>3. PICK k \in T : m = b - k
    BY <1>2 DEF U
  <1>4. \A n \in T : k >= n
    <2>1. ASSUME NEW n \in T PROVE k >= n
      <3>1. b - n \in U
        BY DEF U
      <3>2. m <= b - n
        BY <1>2, <3>1
      <3> QED BY <1>3, <3>2
    <2> QED BY <2>1
  <1>5. Max(T) \in T /\ \A n \in T : Max(T) >= n
    BY <1>4, Zenon DEF Max
  <1> QED BY <1>5

LEMMA FiniteTimestamps ==
  ASSUME NEW T \in SUBSET Timestamps
  PROVE  IsFiniteSet(T) /\ Cardinality(T) \in Nat /\ T \subseteq 0 .. Infinite /\ T \subseteq Nat
  <1>1. T \subseteq 0 .. Infinite /\ T \subseteq Nat
    BY TimestampsAssumption, InfiniteAssumption
  <1>2. IsFiniteSet(0 .. Infinite)
    BY FS_Interval, InfiniteAssumption
  <1> QED BY <1>1, <1>2, FS_Subset, FS_CardinalityType

LEMMA DisjointUnion ==
  ASSUME NEW A \in SUBSET Timestamps, NEW B \in SUBSET Timestamps, A \intersect B = {}
  PROVE  Cardinality(A \union B) = Cardinality(A) + Cardinality(B)
  <1>1. IsFiniteSet(A) /\ IsFiniteSet(B) /\ Cardinality(A) \in Nat /\ Cardinality(B) \in Nat
    BY FiniteTimestamps
  <1>2. Cardinality(A \union B) = Cardinality(A) + Cardinality(B) - Cardinality(A \intersect B)
    BY <1>1, FS_Union
  <1>3. Cardinality(A \intersect B) = 0
    BY FS_EmptySet
  <1> QED BY <1>1, <1>2, <1>3

-----------------------------------------------------------------------------
(* What CountOf computes: sums from the first timestamp on. *)
LEMMA SummedInTurn ==
  ASSUME NEW rows, NEW ts
  PROVE  \E sum : /\ CountOf(rows, ts) = sum[Infinite] /\ sum[0] = 0
                  /\ \A n \in 1 .. Infinite :
                       sum[n] = sum[n - 1] + (IF n \in ts THEN rows[n].c ELSE 0)
  <1> DEFINE N == Infinite
             Gain(n) == IF n \in ts THEN rows[n].c ELSE 0
             Sum(f, n) == IF n = 0 THEN 0 ELSE f[n - 1] + Gain(n)
             Good(k, f) == f = [n \in 0 .. k |-> Sum(f, n)]
             T == {k \in Nat : ~\E f : Good(k, f)}
  <1> HIDE DEF Gain
  <1>1. T = {}
    <2>1. SUFFICES ASSUME T # {} PROVE FALSE
      OBVIOUS
    <2>2. PICK k \in T : \A j \in T : k <= j
      <3>1. T \subseteq Nat
        OBVIOUS
      <3> HIDE DEF T
      <3> QED BY <2>1, <3>1, LeastNatural
    <2>3. k \in Nat /\ ~\E f : Good(k, f)
      BY <2>2
    <2>4. CASE k = 0
      <3> DEFINE f == [n \in 0 .. 0 |-> 0]
      <3>1. Good(0, f)
        OBVIOUS
      <3> HIDE DEF f, Good
      <3> QED BY <2>3, <2>4, <3>1
    <2>5. CASE k # 0
      <3>1. k - 1 \in Nat /\ k - 1 \notin T
        <4>1. k - 1 \in Nat /\ ~(k <= k - 1)
          BY <2>3, <2>5
        <4> HIDE DEF T
        <4> QED BY <2>2, <4>1
      <3>2. PICK f : Good(k - 1, f)
        BY <3>1
      <3> DEFINE g == [n \in 0 .. k |-> IF n < k THEN f[n] ELSE f[k - 1] + Gain(k)]
      <3>3. \A n \in 0 .. k - 1 : f[n] = Sum(f, n)
        BY <3>1, <3>2
      <3>4. \A n \in 0 .. k : g[n] = Sum(g, n)
        <4>1. TAKE n \in 0 .. k
        <4>2. CASE n = 0
          BY <3>1, <3>3, <4>2, <2>5
        <4>3. CASE n # 0 /\ n < k
          <5>1. n \in 0 .. k - 1 /\ n - 1 \in 0 .. k /\ n - 1 < k
            BY <2>3, <4>3
          <5>2. g[n] = f[n] /\ g[n - 1] = f[n - 1]
            BY <5>1, <4>3
          <5> QED BY <3>3, <4>3, <5>1, <5>2
        <4>4. CASE n = k
          <5>1. k - 1 \in 0 .. k /\ k - 1 < k /\ ~(k < k) /\ k \in 0 .. k
            BY <2>3, <2>5
          <5>2. g[k - 1] = f[k - 1] /\ g[k] = f[k - 1] + Gain(k)
            BY <5>1
          <5> QED BY <2>5, <4>4, <5>2
        <4> QED BY <2>3, <4>2, <4>3, <4>4
      <3>5. Good(k, g)
        <4>1. g = [n \in 0 .. k |-> g[n]]
          OBVIOUS
        <4> HIDE DEF g
        <4> QED BY <3>4, <4>1
      <3> HIDE DEF g, Good
      <3> QED BY <2>3, <3>5
    <2> QED BY <2>4, <2>5
  <1>2. \E f : Good(N, f)
    <2>1. N \in Nat
      BY InfiniteAssumption
    <2> QED BY <1>1, <2>1
  <1> DEFINE after == CHOOSE f : Good(N, f)
  <1>3. Good(N, after)
    <2> HIDE DEF Good
    <2> QED BY <1>2, Zenon
  <1>4. CountOf(rows, ts) = after[N]
    BY Zenon DEF CountOf, Gain
  <1> HIDE DEF after
  <1>5. \A n \in 0 .. N : after[n] = Sum(after, n)
    BY <1>3
  <1>6. 0 \in 0 .. N /\ 1 .. N \subseteq 0 .. N /\ \A n \in 1 .. N : n # 0
    BY InfiniteAssumption
  <1>7. after[0] = 0 /\ \A n \in 1 .. N : after[n] = after[n - 1] + Gain(n)
    BY <1>5, <1>6
  <1> QED BY <1>4, <1>7, Zenon DEF Gain

-----------------------------------------------------------------------------
(* Rows, and what several of them stand for together. *)
Stored(rows) == DOMAIN rows \subseteq Timestamps /\ \A t \in DOMAIN rows : rows[t] \in Row

Summarised(rows) ==
  /\ Stored(rows)
  /\ \A t \in DOMAIN rows :
       rows[t].h = Covered(rows, t) /\ rows[t].c = Cardinality(Covered(rows, t))

Together(rows, ts) == UNION {Covered(rows, t) : t \in ts}

Apart(rows, ts) == \A t, u \in ts : t # u => Covered(rows, t) \intersect Covered(rows, u) = {}

LEMMA RowFacts ==
  ASSUME NEW rows, Stored(rows), NEW t \in DOMAIN rows
  PROVE  /\ t \in Timestamps /\ t \in Nat \ {0} /\ t \in 1 .. Infinite /\ t < Infinite
         /\ rows[t].l \in 1 .. MaxLevel /\ rows[t].l \in Nat
         /\ rows[t].h \in SUBSET Timestamps /\ rows[t].c \in Int
         /\ rows[t] = [l |-> rows[t].l, h |-> rows[t].h, c |-> rows[t].c]
  <1>1. t \in Timestamps /\ rows[t] \in Row
    BY DEF Stored
  <1>2. t \in Nat \ {0} /\ t < Infinite /\ Infinite \in Nat
    BY <1>1, TimestampsAssumption, InfiniteAssumption
  <1>3. rows[t].l \in 1 .. MaxLevel /\ rows[t].l \in Nat /\ rows[t].h \in SUBSET Timestamps
        /\ rows[t].c \in Int /\ rows[t] = [l |-> rows[t].l, h |-> rows[t].h, c |-> rows[t].c]
    BY <1>1, LevelAssumption DEF Row, Levels
  <1> QED BY <1>1, <1>2, <1>3

LEMMA CoveredFacts ==
  ASSUME NEW rows, Stored(rows), NEW t \in DOMAIN rows
  PROVE  /\ t \in Covered(rows, t) /\ Covered(rows, t) \subseteq DOMAIN rows
         /\ Covered(rows, t) \in SUBSET Timestamps
         /\ Cardinality(Covered(rows, t)) \in Nat
  <1>1. t \in Nat /\ \A v \in DOMAIN rows : v \in Nat
    BY RowFacts
  <1>2. t \in Covered(rows, t)
    BY <1>1 DEF Covered
  <1>3. Covered(rows, t) \in SUBSET Timestamps /\ Covered(rows, t) \subseteq DOMAIN rows
    BY DEF Covered, Stored
  <1> QED BY <1>2, <1>3, FiniteTimestamps

LEMMA XorOfApart ==
  ASSUME NEW rows, Summarised(rows), NEW ts \in SUBSET DOMAIN rows, Apart(rows, ts)
  PROVE  XorOf(rows, ts) = Together(rows, ts)
  <1> DEFINE Has(u) == {t \in ts : u \in rows[t].h}
  <1>1. Stored(rows) /\ \A t \in ts : rows[t].h = Covered(rows, t)
    BY DEF Summarised
  <1>2. Together(rows, ts) \subseteq Timestamps
    BY <1>1, CoveredFacts DEF Together
  <1>3. ASSUME NEW u \in Together(rows, ts) PROVE Cardinality(Has(u)) % 2 = 1
    <2>1. PICK t \in ts : u \in Covered(rows, t)
      BY DEF Together
    <2>2. Has(u) = {t}
      BY <1>1, <2>1 DEF Apart
    <2>3. Cardinality(Has(u)) = 1
      BY <2>2, FS_Singleton
    <2> HIDE DEF Has
    <2> QED BY <2>3
  <1>4. ASSUME NEW u \in Timestamps \ Together(rows, ts) PROVE Cardinality(Has(u)) % 2 # 1
    <2>1. Has(u) = {}
      BY <1>1 DEF Together
    <2>2. Cardinality(Has(u)) = 0
      BY <2>1, FS_EmptySet
    <2> HIDE DEF Has
    <2> QED BY <2>2
  <1>5. XorOf(rows, ts) = {u \in Timestamps : Cardinality(Has(u)) % 2 = 1}
    BY DEF XorOf
  <1> HIDE DEF Has
  <1>6. \A u \in Timestamps : u \in Together(rows, ts) <=> Cardinality(Has(u)) % 2 = 1
    BY <1>3, <1>4
  <1> QED BY <1>2, <1>5, <1>6, Zenon

LEMMA CountOfApart ==
  ASSUME NEW rows, Summarised(rows), NEW ts \in SUBSET DOMAIN rows, Apart(rows, ts)
  PROVE  CountOf(rows, ts) = Cardinality(Together(rows, ts))
  <1>1. Stored(rows) /\ \A t \in ts : rows[t].c = Cardinality(Covered(rows, t))
    BY DEF Summarised
  <1>2. \A t \in ts : t \in 1 .. Infinite /\ t \in Nat /\ Covered(rows, t) \in SUBSET Timestamps
    BY <1>1, RowFacts, CoveredFacts
  <1> DEFINE First(n) == {t \in ts : t <= n}
             Upto(n) == Together(rows, First(n))
  <1>3. PICK sum : /\ CountOf(rows, ts) = sum[Infinite] /\ sum[0] = 0
                   /\ \A n \in 1 .. Infinite :
                        sum[n] = sum[n - 1] + (IF n \in ts THEN rows[n].c ELSE 0)
    BY SummedInTurn
  <1> DEFINE Bad == {n \in 0 .. Infinite : sum[n] # Cardinality(Upto(n))}
  <1>4. \A n \in Nat : Upto(n) \in SUBSET Timestamps
    BY <1>2 DEF Together
  <1>5. sum[0] = Cardinality(Upto(0))
    <2>1. First(0) = {}
      BY <1>2
    <2>2. Upto(0) = {}
      BY <2>1 DEF Together
    <2> QED BY <1>3, <2>2, FS_EmptySet
  <1>6. ASSUME NEW n \in 1 .. Infinite, sum[n - 1] = Cardinality(Upto(n - 1))
        PROVE  sum[n] = Cardinality(Upto(n))
    <2>1. n \in Nat /\ n - 1 \in Nat
      BY InfiniteAssumption
    <2>2. CASE n \notin ts
      <3>1. First(n) = First(n - 1)
        BY <1>2, <2>1, <2>2
      <3>2. Cardinality(Upto(n - 1)) \in Nat
        BY <1>4, <2>1, FiniteTimestamps
      <3>3. sum[n] = sum[n - 1] + 0
        BY <1>3, <2>2
      <3>4. Upto(n) = Upto(n - 1)
        BY <3>1
      <3> HIDE DEF Upto
      <3> QED BY <1>6, <3>2, <3>3, <3>4
    <2>3. CASE n \in ts
      <3>1. First(n) = First(n - 1) \union {n}
        BY <1>2, <2>1, <2>3
      <3>2. Upto(n) = Upto(n - 1) \union Covered(rows, n)
        BY <3>1, Zenon DEF Together
      <3>3. Upto(n - 1) \intersect Covered(rows, n) = {}
        <4>1. \A t \in First(n - 1) : t \in ts /\ t # n
          BY <1>2, <2>1
        <4>2. \A t \in First(n - 1) : Covered(rows, t) \intersect Covered(rows, n) = {}
          BY <4>1, <2>3 DEF Apart
        <4> HIDE DEF First
        <4> QED BY <4>2 DEF Together
      <3>4. Cardinality(Upto(n)) = Cardinality(Upto(n - 1)) + Cardinality(Covered(rows, n))
        <4>1. Upto(n - 1) \in SUBSET Timestamps /\ Covered(rows, n) \in SUBSET Timestamps
          BY <1>2, <1>4, <2>1, <2>3
        <4> HIDE DEF Upto
        <4> QED BY <3>2, <3>3, <4>1, DisjointUnion
      <3>5. sum[n] = sum[n - 1] + rows[n].c
        BY <1>3, <2>3
      <3> HIDE DEF Upto
      <3> QED BY <1>1, <1>6, <2>3, <3>4, <3>5
    <2> QED BY <2>2, <2>3
  <1> HIDE DEF Upto
  <1>7. Bad = {}
    <2>1. SUFFICES ASSUME Bad # {} PROVE FALSE
      OBVIOUS
    <2>2. Bad \subseteq Nat
      BY InfiniteAssumption
    <2>3. PICK m \in Bad : \A n \in Bad : m <= n
      <3> HIDE DEF Bad
      <3> QED BY <2>1, <2>2, LeastNatural
    <2>4. m \in 0 .. Infinite /\ sum[m] # Cardinality(Upto(m))
      BY <2>3
    <2>5. m # 0 /\ m \in 1 .. Infinite /\ m - 1 \in 0 .. Infinite /\ ~(m <= m - 1)
      BY <1>5, <2>4, InfiniteAssumption
    <2>6. sum[m - 1] = Cardinality(Upto(m - 1))
      BY <2>3, <2>5
    <2> QED BY <1>6, <2>4, <2>5, <2>6
  <1>8. CountOf(rows, ts) = Cardinality(Upto(Infinite))
    BY <1>3, <1>7, InfiniteAssumption
  <1>9. First(Infinite) = ts
    BY <1>2, InfiniteAssumption
  <1> QED BY <1>8, <1>9 DEF Upto

-----------------------------------------------------------------------------
(* Walks.  The nodes below a level that no later node before "to" is higher than
   partition the timestamps after the last node of that level. *)
Falling(rows, to, level) ==
  {u \in DOMAIN rows : /\ u < to /\ rows[u].l < level
                       /\ \A w \in DOMAIN rows : u < w /\ w < to => rows[w].l <= rows[u].l}

Suffix(rows, to, level) ==
  {x \in DOMAIN rows : x < to /\ \A v \in DOMAIN rows : x <= v /\ v < to => rows[v].l < level}

LEMMA FallingApart ==
  ASSUME NEW rows, Stored(rows), NEW to \in Nat, NEW level \in Nat
  PROVE  Apart(rows, Falling(rows, to, level))
  <1>1. \A t \in DOMAIN rows : t \in Nat /\ rows[t].l \in Nat
    BY RowFacts
  <1>2. ASSUME NEW t \in Falling(rows, to, level), NEW u \in Falling(rows, to, level), t < u
        PROVE  Covered(rows, t) \intersect Covered(rows, u) = {}
    <2>1. t \in DOMAIN rows /\ u \in DOMAIN rows /\ rows[u].l <= rows[t].l
      BY <1>2 DEF Falling
    <2>2. ASSUME NEW x \in Covered(rows, t) PROVE x \notin Covered(rows, u)
      <3>1. x \in DOMAIN rows /\ x <= t
        BY DEF Covered
      <3> QED BY <1>1, <1>2, <2>1, <3>1 DEF Covered
    <2> QED BY <2>2
  <1>3. \A t, u \in Falling(rows, to, level) : t \in Nat /\ u \in Nat /\ (t # u => t < u \/ u < t)
    BY <1>1 DEF Falling
  <1> QED BY <1>2, <1>3 DEF Apart

LEMMA FallingCovers ==
  ASSUME NEW rows, Stored(rows), NEW to \in Nat, NEW level \in Nat
  PROVE  Together(rows, Falling(rows, to, level)) = Suffix(rows, to, level)
  <1>1. \A t \in DOMAIN rows : t \in Nat /\ rows[t].l \in Nat /\ rows[t].l \in 0 .. MaxLevel
    <2>1. MaxLevel \in Nat
      BY LevelAssumption
    <2> QED BY <2>1, RowFacts
  <1>2. ASSUME NEW u \in Falling(rows, to, level), NEW x \in Covered(rows, u)
        PROVE  x \in Suffix(rows, to, level)
    <2>1. /\ u \in DOMAIN rows /\ u < to /\ rows[u].l < level
          /\ \A w \in DOMAIN rows : u < w /\ w < to => rows[w].l <= rows[u].l
      BY DEF Falling
    <2>2. /\ x \in DOMAIN rows /\ x <= u
          /\ \A v \in DOMAIN rows : x <= v /\ v < u => rows[v].l < rows[u].l
      BY <1>1, <2>1 DEF Covered
    <2>3. ASSUME NEW v \in DOMAIN rows, x <= v, v < to PROVE rows[v].l < level
      <3>1. v < u \/ v = u \/ u < v
        BY <1>1, <2>1
      <3> QED BY <1>1, <2>1, <2>2, <2>3, <3>1
    <2> QED BY <1>1, <2>1, <2>2, <2>3 DEF Suffix
  <1>3. ASSUME NEW x \in Suffix(rows, to, level)
        PROVE  \E u \in Falling(rows, to, level) : x \in Covered(rows, u)
    <2>1. /\ x \in DOMAIN rows /\ x < to
          /\ \A v \in DOMAIN rows : x <= v /\ v < to => rows[v].l < level
      BY DEF Suffix
    <2> DEFINE Nodes == {v \in DOMAIN rows : x <= v /\ v < to}
               Heights == {rows[v].l : v \in Nodes}
               top == Max(Heights)
               Tops == {v \in Nodes : rows[v].l = top}
               u == Min(Tops)
    <2>2. x \in Nodes
      BY <1>1, <2>1
    <2>3. top \in Heights /\ \A n \in Heights : n <= top
      <3>1. Heights # {} /\ Heights \subseteq 0 .. MaxLevel /\ MaxLevel \in Nat
        BY <1>1, <2>2, LevelAssumption
      <3> HIDE DEF Heights
      <3> QED BY <3>1, MaxFacts
    <2>4. \A v \in Nodes : rows[v].l <= top
      <3>1. \A v \in Nodes : rows[v].l \in Heights
        OBVIOUS
      <3> HIDE DEF Heights, top, Nodes
      <3> QED BY <2>3, <3>1
    <2>5. Tops # {} /\ Tops \subseteq Nat
      <3>1. PICK v \in Nodes : rows[v].l = top
        BY <2>3
      <3> QED BY <1>1, <3>1
    <2> HIDE DEF top
    <2>6. u \in Tops /\ \A v \in Tops : u <= v
      <3> HIDE DEF Tops
      <3> QED BY <2>5, MinFacts
    <2> HIDE DEF u
    <2>7. u \in DOMAIN rows /\ x <= u /\ u < to /\ rows[u].l = top /\ rows[u].l < level
      BY <2>1, <2>6
    <2>8. ASSUME NEW v \in DOMAIN rows, x <= v, v < u PROVE rows[v].l < top
      <3>1. v \in Nodes
        BY <1>1, <2>1, <2>7, <2>8
      <3>2. rows[v].l <= top /\ rows[v].l # top
        BY <1>1, <2>4, <2>6, <2>7, <2>8, <3>1
      <3> QED BY <1>1, <2>7, <3>2
    <2>9. x \in Covered(rows, u)
      BY <1>1, <2>1, <2>7, <2>8 DEF Covered
    <2>10. ASSUME NEW w \in DOMAIN rows, u < w, w < to PROVE rows[w].l <= rows[u].l
      <3>1. w \in Nodes
        BY <1>1, <2>1, <2>7, <2>10
      <3> QED BY <2>4, <2>7, <3>1
    <2>11. u \in Falling(rows, to, level)
      BY <2>7, <2>10 DEF Falling
    <2> QED BY <2>9, <2>11
  <1> QED BY <1>2, <1>3 DEF Together

(* So their rows say what these timestamps are. *)
LEMMA FallingSums ==
  ASSUME NEW rows, Summarised(rows), NEW to \in Nat, NEW level \in Nat
  PROVE  /\ XorOf(rows, Falling(rows, to, level)) = Suffix(rows, to, level)
         /\ CountOf(rows, Falling(rows, to, level)) = Cardinality(Suffix(rows, to, level))
  <1>1. Stored(rows) /\ Falling(rows, to, level) \in SUBSET DOMAIN rows
    BY DEF Summarised, Falling
  <1> QED BY <1>1, FallingApart, FallingCovers, XorOfApart, CountOfApart

(* A whole walk from the start meets the nodes that fall. *)
LEMMA VisibleFalls ==
  ASSUME NEW rows, Stored(rows), NEW to \in Nat
  PROVE  /\ Visible(rows, 0, to, MaxLevel) = Falling(rows, to, MaxLevel + 1)
         /\ Suffix(rows, to, MaxLevel + 1) = {x \in DOMAIN rows : x < to}
  <1>1. \A t \in DOMAIN rows : /\ t \in Nat /\ 0 < t
                               /\ rows[t].l \in Nat /\ rows[t].l <= MaxLevel /\ rows[t].l < MaxLevel + 1
    <2>1. MaxLevel \in Nat
      BY LevelAssumption
    <2> QED BY <2>1, RowFacts
  <1>2. Visible(rows, 0, to, MaxLevel) = Falling(rows, to, MaxLevel + 1)
    BY <1>1, Zenon DEF Visible, Falling
  <1>3. Suffix(rows, to, MaxLevel + 1) = {x \in DOMAIN rows : x < to}
    BY <1>1, Zenon DEF Suffix
  <1> QED BY <1>2, <1>3

LEMMA WholeWalk ==
  ASSUME NEW rows, Summarised(rows), NEW to \in Nat
  PROVE  /\ XorOf(rows, Visible(rows, 0, to, MaxLevel)) = {x \in DOMAIN rows : x < to}
         /\ CountOf(rows, Visible(rows, 0, to, MaxLevel)) = Cardinality({x \in DOMAIN rows : x < to})
  <1>1. Stored(rows) /\ MaxLevel + 1 \in Nat
    BY LevelAssumption DEF Summarised
  <1> QED BY <1>1, VisibleFalls, FallingSums

(* A walk from the last node of a level, or the start. *)
LEMMA LaterWalk ==
  ASSUME NEW rows, Stored(rows), NEW to \in Nat, NEW level \in 1 .. MaxLevel, NEW from \in Nat,
         from < to \/ from = 0,
         \A x \in DOMAIN rows : from < x /\ x < to => rows[x].l < level,
         from = 0 \/ (from \in DOMAIN rows /\ rows[from].l >= level)
  PROVE  /\ Visible(rows, from, to, level - 1) = Falling(rows, to, level)
         /\ Suffix(rows, to, level) = {x \in DOMAIN rows : from < x /\ x < to}
  <1>1. level \in Nat /\ level - 1 \in Nat
    BY LevelAssumption
  <1>2. \A t \in DOMAIN rows : t \in Nat /\ 0 < t /\ rows[t].l \in Nat
    BY RowFacts
  <1>3. \A t \in DOMAIN rows : rows[t].l <= level - 1 <=> rows[t].l < level
    BY <1>1, <1>2
  <1>4. ASSUME NEW u \in Visible(rows, from, to, level - 1) PROVE u \in Falling(rows, to, level)
    <2>1. /\ u \in DOMAIN rows /\ from < u /\ u < to /\ rows[u].l < level
          /\ \A w \in DOMAIN rows : u < w /\ w < to /\ rows[w].l < level => rows[w].l <= rows[u].l
      BY <1>3 DEF Visible
    <2>2. ASSUME NEW w \in DOMAIN rows, u < w, w < to PROVE rows[w].l <= rows[u].l
      <3>1. from < w
        BY <1>2, <2>1, <2>2
      <3> QED BY <2>1, <2>2, <3>1
    <2> QED BY <2>1, <2>2 DEF Falling
  <1>5. ASSUME NEW u \in Falling(rows, to, level) PROVE u \in Visible(rows, from, to, level - 1)
    <2>1. /\ u \in DOMAIN rows /\ u < to /\ rows[u].l < level
          /\ \A w \in DOMAIN rows : u < w /\ w < to => rows[w].l <= rows[u].l
      BY DEF Falling
    <2>2. from < u
      <3>1. SUFFICES ASSUME from # 0, u <= from PROVE FALSE
        BY <1>2, <2>1
      <3>2. from \in DOMAIN rows /\ rows[from].l >= level /\ from < to
        BY <3>1
      <3>3. u = from \/ u < from
        BY <1>2, <2>1, <3>1
      <3> QED BY <1>1, <1>2, <2>1, <3>2, <3>3
    <2> QED BY <1>3, <2>1, <2>2 DEF Visible
  <1>6. ASSUME NEW x \in Suffix(rows, to, level) PROVE from < x
    <2>1. /\ x \in DOMAIN rows /\ x < to
          /\ \A v \in DOMAIN rows : x <= v /\ v < to => rows[v].l < level
      BY DEF Suffix
    <2> QED BY <1>1, <1>2, <2>1
  <1>7. ASSUME NEW x \in DOMAIN rows, from < x, x < to PROVE x \in Suffix(rows, to, level)
    <2>1. \A v \in DOMAIN rows : x <= v => from < v
      BY <1>2, <1>7
    <2> QED BY <1>7, <2>1 DEF Suffix
  <1>8. Suffix(rows, to, level) = {x \in DOMAIN rows : from < x /\ x < to}
    BY <1>6, <1>7 DEF Suffix
  <1> QED BY <1>4, <1>5, <1>8

-----------------------------------------------------------------------------
(* A timestamp among the others. *)

(* The first node of its height after t. *)
Reaches(rows, t, u) ==
  u \in DOMAIN rows /\ t < u /\ \A w \in DOMAIN rows : t < w /\ w < u => rows[w].l < rows[u].l

(* The rows with one more, of whatever fingerprints. *)
Grown(rows, after, t, level) ==
  /\ t \in Timestamps \ DOMAIN rows /\ level \in Levels
  /\ DOMAIN after = DOMAIN rows \union {t} /\ after[t].l = level
  /\ \A u \in DOMAIN rows : after[u].l = rows[u].l

LEMMA CoveringReaches ==
  ASSUME NEW rows, Stored(rows), NEW t \in Nat, NEW low \in Nat
  PROVE  Covering(rows, t, low) = {u \in DOMAIN rows : rows[u].l >= low /\ Reaches(rows, t, u)}
  <1>1. MaxLevel \in Nat /\ \A u \in DOMAIN rows :
           /\ u \in Nat /\ u # 0 /\ rows[u].l \in Nat /\ rows[u].l <= MaxLevel /\ rows[u].l \in 1 .. MaxLevel
    BY RowFacts, LevelAssumption
  <1> DEFINE After(l) == {u \in DOMAIN rows : rows[u].l = l /\ u > t}
  <1>2. ASSUME NEW l \in Nat
        PROVE  /\ FirstAfter(rows, l, t) = 0 <=> After(l) = {}
               /\ After(l) # {} => /\ FirstAfter(rows, l, t) \in After(l)
                                   /\ \A n \in After(l) : FirstAfter(rows, l, t) <= n
    <2>1. After(l) \subseteq Nat /\ 0 \notin After(l)
      BY <1>1
    <2>2. FirstAfter(rows, l, t) = IF After(l) = {} THEN 0 ELSE Min(After(l))
      BY DEF FirstAfter
    <2>3. After(l) # {} => Min(After(l)) \in After(l) /\ \A n \in After(l) : Min(After(l)) <= n
      <3> HIDE DEF After
      <3> QED BY <2>1, MinFacts
    <2> HIDE DEF After
    <2> QED BY <2>1, <2>2, <2>3
  <1>3. ASSUME NEW u \in Covering(rows, t, low) PROVE Reaches(rows, t, u)
    <2>1. /\ u \in DOMAIN rows /\ u = FirstAfter(rows, rows[u].l, t)
          /\ \A l \in rows[u].l + 1 .. MaxLevel : FirstAfter(rows, l, t) = 0 \/ u < FirstAfter(rows, l, t)
      BY DEF Covering
    <2>2. u \in After(rows[u].l) /\ \A n \in After(rows[u].l) : u <= n
      <3>1. FirstAfter(rows, rows[u].l, t) # 0 /\ rows[u].l \in Nat
        BY <1>1, <2>1
      <3> HIDE DEF After
      <3> QED BY <1>2, <2>1, <3>1
    <2>3. ASSUME NEW w \in DOMAIN rows, t < w, w < u, ~(rows[w].l < rows[u].l) PROVE FALSE
      <3>1. CASE rows[w].l = rows[u].l
        BY <1>1, <2>1, <2>2, <2>3, <3>1
      <3>2. CASE rows[w].l > rows[u].l
        <4>1. rows[w].l \in rows[u].l + 1 .. MaxLevel /\ rows[w].l \in Nat
          BY <1>1, <2>1, <3>2
        <4>2. w \in After(rows[w].l)
          BY <1>1, <2>3
        <4>3. FirstAfter(rows, rows[w].l, t) # 0 /\ FirstAfter(rows, rows[w].l, t) <= w
          <5> HIDE DEF After
          <5> QED BY <1>2, <4>1, <4>2
        <4>4. FirstAfter(rows, rows[w].l, t) \in Nat
          <5>1. FirstAfter(rows, rows[w].l, t) \in After(rows[w].l)
            <6> HIDE DEF After
            <6> QED BY <1>2, <4>1, <4>2
          <5> QED BY <1>1, <5>1
        <4>5. u < FirstAfter(rows, rows[w].l, t)
          BY <2>1, <4>1, <4>3
        <4> QED BY <1>1, <2>1, <2>3, <4>3, <4>4, <4>5
      <3> QED BY <1>1, <2>1, <2>3, <3>1, <3>2
    <2> QED BY <1>1, <2>1, <2>2, <2>3 DEF Reaches
  <1>4. ASSUME NEW u \in DOMAIN rows, rows[u].l >= low, Reaches(rows, t, u)
        PROVE  u \in Covering(rows, t, low)
    <2>1. t < u /\ \A w \in DOMAIN rows : t < w /\ w < u => rows[w].l < rows[u].l
      BY <1>4 DEF Reaches
    <2>2. ASSUME NEW l \in Nat, l > rows[u].l, FirstAfter(rows, l, t) # 0 PROVE u < FirstAfter(rows, l, t)
      <3>1. FirstAfter(rows, l, t) \in After(l)
        BY <1>2, <2>2
      <3> QED BY <1>1, <2>1, <2>2, <3>1
    <2>3. u = FirstAfter(rows, rows[u].l, t)
      <3>1. u \in After(rows[u].l) /\ rows[u].l \in Nat
        BY <1>1, <2>1
      <3>2. FirstAfter(rows, rows[u].l, t) \in After(rows[u].l) /\ FirstAfter(rows, rows[u].l, t) <= u
        <4> HIDE DEF After
        <4> QED BY <1>2, <3>1
      <3> QED BY <1>1, <2>1, <3>2
    <2>4. \A l \in rows[u].l + 1 .. MaxLevel : l \in Nat /\ l > rows[u].l
      BY <1>1
    <2>5. \A l \in rows[u].l + 1 .. MaxLevel : FirstAfter(rows, l, t) = 0 \/ u < FirstAfter(rows, l, t)
      BY <2>2, <2>4
    <2> QED BY <1>4, <2>3, <2>5, Zenon DEF Covering
  <1>5. \A u \in Covering(rows, t, low) : u \in DOMAIN rows /\ rows[u].l >= low
    BY DEF Covering
  <1> QED BY <1>3, <1>4, <1>5

(* What a node covers once there is a timestamp more. *)
LEMMA CoveredWhenGrown ==
  ASSUME NEW rows, Stored(rows), NEW after, NEW t, NEW level, Grown(rows, after, t, level)
  PROVE  /\ Covered(after, t) = {t} \union Suffix(rows, t, level)
         /\ \A u \in DOMAIN rows :
              /\ ~Reaches(rows, t, u) => Covered(after, u) = Covered(rows, u)
              /\ Reaches(rows, t, u) /\ rows[u].l > level => Covered(after, u) = {t} \union Covered(rows, u)
              /\ Reaches(rows, t, u) /\ rows[u].l <= level =>
                   /\ Suffix(rows, t, rows[u].l) \subseteq Covered(rows, u)
                   /\ Covered(after, u) = Covered(rows, u) \ Suffix(rows, t, rows[u].l)
  <1>1. /\ t \in Nat /\ level \in Nat /\ t \notin DOMAIN rows
        /\ DOMAIN after = DOMAIN rows \union {t} /\ after[t].l = level
        /\ \A u \in DOMAIN rows : after[u].l = rows[u].l /\ u \in Nat /\ u # t /\ rows[u].l \in Nat
    <2>1. /\ t \in Timestamps /\ level \in 1 .. MaxLevel /\ t \notin DOMAIN rows
          /\ DOMAIN after = DOMAIN rows \union {t} /\ after[t].l = level
          /\ \A u \in DOMAIN rows : after[u].l = rows[u].l
      BY DEF Grown, Levels
    <2>2. t \in Nat /\ level \in Nat
      BY <2>1, TimestampsAssumption, LevelAssumption
    <2>3. \A u \in DOMAIN rows : u \in Nat /\ u # t /\ rows[u].l \in Nat
      BY <2>1, RowFacts
    <2> QED BY <2>1, <2>2, <2>3
  <1>2. Covered(after, t) = {t} \union Suffix(rows, t, level)
    <2>1. ASSUME NEW x \in Covered(after, t) PROVE x = t \/ x \in Suffix(rows, t, level)
      BY <1>1, <2>1 DEF Covered, Suffix
    <2>2. t \in Covered(after, t)
      BY <1>1 DEF Covered
    <2>3. ASSUME NEW x \in Suffix(rows, t, level) PROVE x \in Covered(after, t)
      BY <1>1, <2>3 DEF Covered, Suffix
    <2> QED BY <2>1, <2>2, <2>3
  <1>3. ASSUME NEW u \in DOMAIN rows, ~Reaches(rows, t, u) PROVE Covered(after, u) = Covered(rows, u)
    <2>1. ASSUME NEW x \in Covered(after, u) PROVE x \in Covered(rows, u)
      <3>1. /\ x \in DOMAIN after /\ x <= u
            /\ ~\E v \in DOMAIN after : x <= v /\ v < u /\ after[v].l >= after[u].l
        BY DEF Covered
      <3>2. x # t
        <4>1. SUFFICES ASSUME x = t PROVE FALSE
          OBVIOUS
        <4>2. t < u
          BY <1>1, <3>1, <4>1
        <4>3. PICK w \in DOMAIN rows : t < w /\ w < u /\ ~(rows[w].l < rows[u].l)
          BY <1>3, <4>2 DEF Reaches
        <4> QED BY <1>1, <3>1, <4>1, <4>3
      <3> QED BY <1>1, <3>1, <3>2 DEF Covered
    <2>2. ASSUME NEW x \in Covered(rows, u) PROVE x \in Covered(after, u)
      <3>1. /\ x \in DOMAIN rows /\ x <= u
            /\ ~\E v \in DOMAIN rows : x <= v /\ v < u /\ rows[v].l >= rows[u].l
        BY DEF Covered
      <3>2. ~(x <= t /\ t < u)
        <4>1. SUFFICES ASSUME x <= t, t < u PROVE FALSE
          OBVIOUS
        <4>2. PICK w \in DOMAIN rows : t < w /\ w < u /\ ~(rows[w].l < rows[u].l)
          BY <1>3, <4>1 DEF Reaches
        <4> QED BY <1>1, <3>1, <4>1, <4>2
      <3> QED BY <1>1, <3>1, <3>2 DEF Covered
    <2> QED BY <2>1, <2>2
  <1>4. ASSUME NEW u \in DOMAIN rows, Reaches(rows, t, u)
        PROVE  t < u /\ \A w \in DOMAIN rows : t < w /\ w < u => rows[w].l < rows[u].l
    BY <1>4 DEF Reaches
  <1>5. ASSUME NEW u \in DOMAIN rows, Reaches(rows, t, u), rows[u].l > level
        PROVE  Covered(after, u) = {t} \union Covered(rows, u)
    <2>1. t < u /\ \A w \in DOMAIN rows : t < w /\ w < u => rows[w].l < rows[u].l
      BY <1>4, <1>5
    <2>2. ASSUME NEW x \in Covered(after, u), x # t PROVE x \in Covered(rows, u)
      BY <1>1, <2>2 DEF Covered
    <2>3. t \in Covered(after, u)
      <3>1. ASSUME NEW v \in DOMAIN after, t <= v, v < u PROVE ~(after[v].l >= after[u].l)
        <4>1. CASE v = t
          BY <1>1, <1>5, <4>1
        <4>2. CASE v # t
          BY <1>1, <2>1, <3>1, <4>2
        <4> QED BY <4>1, <4>2
      <3> QED BY <1>1, <2>1, <3>1 DEF Covered
    <2>4. ASSUME NEW x \in Covered(rows, u) PROVE x \in Covered(after, u)
      BY <1>1, <1>5, <2>4 DEF Covered
    <2> QED BY <2>2, <2>3, <2>4
  <1>6. ASSUME NEW u \in DOMAIN rows, Reaches(rows, t, u), rows[u].l <= level
        PROVE  /\ Suffix(rows, t, rows[u].l) \subseteq Covered(rows, u)
               /\ Covered(after, u) = Covered(rows, u) \ Suffix(rows, t, rows[u].l)
    <2>1. t < u /\ \A w \in DOMAIN rows : t < w /\ w < u => rows[w].l < rows[u].l
      BY <1>4, <1>6
    <2>2. ASSUME NEW x \in Suffix(rows, t, rows[u].l) PROVE x \in Covered(rows, u) /\ x < t
      <3>1. /\ x \in DOMAIN rows /\ x < t
            /\ \A v \in DOMAIN rows : x <= v /\ v < t => rows[v].l < rows[u].l
        BY DEF Suffix
      <3>2. ASSUME NEW v \in DOMAIN rows, x <= v, v < u PROVE rows[v].l < rows[u].l
        <4>1. v < t \/ t < v
          BY <1>1
        <4> QED BY <2>1, <3>1, <3>2, <4>1
      <3> QED BY <1>1, <2>1, <3>1, <3>2 DEF Covered
    <2>3. ASSUME NEW x \in Covered(rows, u), x < t PROVE x \in Suffix(rows, t, rows[u].l)
      <3>1. /\ x \in DOMAIN rows /\ x <= u
            /\ ~\E v \in DOMAIN rows : x <= v /\ v < u /\ rows[v].l >= rows[u].l
        BY DEF Covered
      <3>2. ASSUME NEW v \in DOMAIN rows, x <= v, v < t PROVE rows[v].l < rows[u].l
        <4>1. v < u
          BY <1>1, <2>1, <3>2
        <4> QED BY <1>1, <3>1, <3>2, <4>1
      <3> QED BY <2>3, <3>1, <3>2 DEF Suffix
    <2>4. ASSUME NEW x \in Covered(after, u) PROVE x \in Covered(rows, u) /\ ~(x < t)
      <3>1. /\ x \in DOMAIN after /\ x <= u
            /\ ~\E v \in DOMAIN after : x <= v /\ v < u /\ after[v].l >= after[u].l
        BY DEF Covered
      <3>2. ~(x <= t)
        BY <1>1, <1>6, <2>1, <3>1
      <3>3. x \in DOMAIN rows /\ x \in Nat
        BY <1>1, <3>1, <3>2
      <3> QED BY <1>1, <3>1, <3>2, <3>3 DEF Covered
    <2>5. ASSUME NEW x \in Covered(rows, u), ~(x < t) PROVE x \in Covered(after, u)
      <3>1. /\ x \in DOMAIN rows /\ x <= u
            /\ ~\E v \in DOMAIN rows : x <= v /\ v < u /\ rows[v].l >= rows[u].l
        BY DEF Covered
      <3>2. ~(x <= t)
        BY <1>1, <2>5, <3>1
      <3> QED BY <1>1, <3>1, <3>2 DEF Covered
    <2> QED BY <2>2, <2>3, <2>4, <2>5
  <1> QED BY <1>2, <1>3, <1>5, <1>6

-----------------------------------------------------------------------------
(* insertTimestamp. *)

LEMMA SuffixFacts ==
  ASSUME NEW rows, Stored(rows), NEW t, NEW level
  PROVE  /\ Suffix(rows, t, level) \subseteq DOMAIN rows /\ Suffix(rows, t, level) \in SUBSET Timestamps
         /\ t \notin Suffix(rows, t, level)
         /\ IsFiniteSet(Suffix(rows, t, level)) /\ Cardinality(Suffix(rows, t, level)) \in Nat
  <1>1. Suffix(rows, t, level) \subseteq DOMAIN rows /\ Suffix(rows, t, level) \in SUBSET Timestamps
    BY DEF Suffix, Stored
  <1>2. t \notin Suffix(rows, t, level)
    <2>1. SUFFICES ASSUME t \in DOMAIN rows, t < t PROVE FALSE
      BY DEF Suffix
    <2>2. t \in Nat
      BY <2>1, RowFacts
    <2> QED BY <2>1, <2>2
  <1> QED BY <1>1, <1>2, FiniteTimestamps

(* The row of the new timestamp, and what becomes of the row of an old one. *)
OwnRow(rows, t, level) ==
  [l |-> level, h |-> SymDiff({t}, Suffix(rows, t, level)), c |-> Cardinality(Suffix(rows, t, level)) + 1]

Reduced(row, lost) == [row EXCEPT !.h = SymDiff(@, lost), !.c = @ - Cardinality(lost)]

GivesUp(rows, t, u) == Reduced(rows[u], Suffix(rows, t, rows[u].l))

Updated(rows, after, t, level, u) ==
  \/ ~Reaches(rows, t, u) /\ after[u] = rows[u]
  \/ Reaches(rows, t, u) /\ rows[u].l > level /\ after[u] = Extended(rows[u], t)
  \/ Reaches(rows, t, u) /\ rows[u].l <= level /\ after[u] = GivesUp(rows, t, u)
  \/ /\ Reaches(rows, t, u) /\ rows[u].l <= level
     /\ Suffix(rows, t, rows[u].l) = {} /\ after[u] = rows[u]

LEMMA OwnRowExact ==
  ASSUME NEW rows, Stored(rows), NEW t \in Timestamps, NEW level \in Levels
  PROVE  /\ OwnRow(rows, t, level).l = level
         /\ OwnRow(rows, t, level).h = {t} \union Suffix(rows, t, level)
         /\ OwnRow(rows, t, level).c = Cardinality({t} \union Suffix(rows, t, level))
         /\ OwnRow(rows, t, level) \in Row
  <1> DEFINE S == Suffix(rows, t, level)
  <1>1. t \notin S /\ S \in SUBSET Timestamps /\ IsFiniteSet(S) /\ Cardinality(S) \in Nat
    BY SuffixFacts
  <1> HIDE DEF S
  <1>2. SymDiff({t}, S) = {t} \union S
    BY <1>1 DEF SymDiff
  <1>3. Cardinality({t} \union S) = Cardinality(S) + 1
    <2>1. Cardinality(S \union {t}) = Cardinality(S) + 1
      BY <1>1, FS_AddElement
    <2>2. S \union {t} = {t} \union S
      OBVIOUS
    <2> QED BY <2>1, <2>2
  <1>4. OwnRow(rows, t, level) = [l |-> level, h |-> {t} \union S, c |-> Cardinality(S) + 1]
    BY <1>2 DEF OwnRow, S
  <1>5. {t} \union S \in SUBSET Timestamps /\ Cardinality(S) + 1 \in Int
    BY <1>1
  <1>6. OwnRow(rows, t, level) \in Row
    BY <1>4, <1>5 DEF Row
  <1> QED BY <1>3, <1>4, <1>6 DEF S

LEMMA RowExcept ==
  ASSUME NEW row \in Row, NEW x, NEW n, NEW new, new = [row EXCEPT !.h = x, !.c = n]
  PROVE  new = [l |-> row.l, h |-> x, c |-> n]
  <1>1. PICK l \in Levels, h \in SUBSET Timestamps, c \in Int : row = [l |-> l, h |-> h, c |-> c]
    BY DEF Row
  <1>2. new = [l |-> l, h |-> x, c |-> n]
    BY <1>1
  <1>3. row.l = l
    BY <1>1
  <1> QED BY <1>2, <1>3

LEMMA ExtendedExact ==
  ASSUME NEW row \in Row, NEW A \in SUBSET Timestamps, row.h = A, row.c = Cardinality(A),
         NEW t \in Timestamps \ A
  PROVE  /\ Extended(row, t) \in Row /\ Extended(row, t).l = row.l
         /\ Extended(row, t).h = {t} \union A /\ Extended(row, t).c = Cardinality({t} \union A)
  <1>1. IsFiniteSet(A) /\ Cardinality(A) \in Nat
    BY FiniteTimestamps
  <1>2. Cardinality({t} \union A) = Cardinality(A) + 1
    <2>1. Cardinality(A \union {t}) = Cardinality(A) + 1
      BY <1>1, FS_AddElement
    <2>2. A \union {t} = {t} \union A
      OBVIOUS
    <2> QED BY <2>1, <2>2
  <1>3. SymDiff({t}, A) = {t} \union A
    BY DEF SymDiff
  <1>4. row = [l |-> row.l, h |-> A, c |-> Cardinality(A)] /\ row.l \in Levels
    BY DEF Row
  <1>5. Extended(row, t) = [l |-> row.l, h |-> {t} \union A, c |-> Cardinality(A) + 1]
    <2> DEFINE x == SymDiff({t}, row.h)
               n == row.c + 1
    <2>1. x = {t} \union A /\ n = Cardinality(A) + 1
      BY <1>3
    <2>2. Extended(row, t) = [row EXCEPT !.h = x, !.c = n]
      BY DEF Extended
    <2> HIDE DEF x, n
    <2>3. Extended(row, t) = [l |-> row.l, h |-> x, c |-> n]
      BY <2>2, RowExcept
    <2> QED BY <2>1, <2>3
  <1>6. {t} \union A \in SUBSET Timestamps /\ Cardinality(A) + 1 \in Int
    BY <1>1
  <1>7. Extended(row, t) \in Row
    BY <1>4, <1>5, <1>6 DEF Row
  <1> QED BY <1>2, <1>5, <1>7

LEMMA GivesUpExact ==
  ASSUME NEW row \in Row, NEW A \in SUBSET Timestamps, row.h = A, row.c = Cardinality(A),
         NEW B \in SUBSET A
  PROVE  /\ Reduced(row, B) \in Row /\ Reduced(row, B).l = row.l
         /\ Reduced(row, B).h = A \ B /\ Reduced(row, B).c = Cardinality(A \ B)
  <1>1. B \in SUBSET Timestamps /\ A \ B \in SUBSET Timestamps
    OBVIOUS
  <1>2. Cardinality(A) \in Nat /\ Cardinality(B) \in Nat /\ Cardinality(A \ B) \in Nat
    BY <1>1, FiniteTimestamps
  <1>3. Cardinality(A) = Cardinality(A \ B) + Cardinality(B)
    <2>1. A = (A \ B) \union B /\ (A \ B) \intersect B = {}
      OBVIOUS
    <2> QED BY <1>1, <2>1, DisjointUnion
  <1>4. SymDiff(A, B) = A \ B
    BY DEF SymDiff
  <1>5. row = [l |-> row.l, h |-> A, c |-> Cardinality(A)] /\ row.l \in Levels
    BY DEF Row
  <1> DEFINE new == Reduced(row, B)
  <1>6. new = [l |-> row.l, h |-> SymDiff(A, B), c |-> Cardinality(A) - Cardinality(B)]
    <2> DEFINE x == SymDiff(row.h, B)
               n == row.c - Cardinality(B)
    <2>1. x = SymDiff(A, B) /\ n = Cardinality(A) - Cardinality(B)
      OBVIOUS
    <2>2. new = [row EXCEPT !.h = x, !.c = n]
      BY DEF Reduced
    <2> HIDE DEF x, n
    <2> HIDE DEF new
    <2>3. new = [l |-> row.l, h |-> x, c |-> n]
      BY <2>2, RowExcept
    <2> QED BY <2>1, <2>3
  <1>7. Cardinality(A) - Cardinality(B) = Cardinality(A \ B) /\ Cardinality(A \ B) \in Int
    BY <1>2, <1>3
  <1>8. new = [l |-> row.l, h |-> A \ B, c |-> Cardinality(A \ B)]
    BY <1>4, <1>6, <1>7
  <1>9. new \in Row
    BY <1>1, <1>5, <1>7, <1>8 DEF Row
  <1> QED BY <1>8, <1>9

LEMMA GrownSummarised ==
  ASSUME NEW rows, Summarised(rows), NEW after, NEW t, NEW level, Grown(rows, after, t, level),
         after[t] = OwnRow(rows, t, level), \A u \in DOMAIN rows : Updated(rows, after, t, level, u)
  PROVE  Summarised(after)
  <1>1. /\ Stored(rows) /\ t \in Timestamps /\ t \notin DOMAIN rows /\ level \in Levels
        /\ DOMAIN after = DOMAIN rows \union {t} /\ level \in Nat
        /\ \A u \in DOMAIN rows :
             rows[u] \in Row /\ rows[u].h = Covered(rows, u) /\ rows[u].c = Cardinality(Covered(rows, u))
    BY LevelAssumption DEF Summarised, Stored, Grown, Levels
  <1> DEFINE Exact(u) == /\ after[u] \in Row /\ after[u].h = Covered(after, u)
                         /\ after[u].c = Cardinality(Covered(after, u))
  <1>2. Exact(t)
    <2>1. /\ after[t] \in Row /\ after[t].h = {t} \union Suffix(rows, t, level)
          /\ after[t].c = Cardinality({t} \union Suffix(rows, t, level))
      BY <1>1, OwnRowExact
    <2>2. Covered(after, t) = {t} \union Suffix(rows, t, level)
      BY <1>1, CoveredWhenGrown
    <2> QED BY <2>1, <2>2
  <1>3. ASSUME NEW u \in DOMAIN rows PROVE Exact(u)
    <2> DEFINE A == Covered(rows, u)
               B == Suffix(rows, t, rows[u].l)
    <2>1. A \in SUBSET Timestamps /\ t \notin A
      BY <1>1, CoveredFacts
    <2>2. rows[u] \in Row /\ rows[u].h = A /\ rows[u].c = Cardinality(A) /\ rows[u].l \in Nat
      BY <1>1, RowFacts
    <2>3. CASE ~Reaches(rows, t, u)
      <3>1. after[u] = rows[u]
        BY <2>3 DEF Updated
      <3>2. Covered(after, u) = A
        BY <1>1, <2>3, CoveredWhenGrown
      <3> QED BY <2>2, <3>1, <3>2
    <2>4. CASE Reaches(rows, t, u) /\ rows[u].l > level
      <3>1. after[u] = Extended(rows[u], t)
        BY <1>1, <2>2, <2>4 DEF Updated
      <3>2. Covered(after, u) = {t} \union A
        BY <1>1, <2>4, CoveredWhenGrown
      <3>3. rows[u] \in Row /\ t \in Timestamps \ A
        BY <1>1, <2>1
      <3> HIDE DEF A
      <3> QED BY <2>1, <2>2, <3>1, <3>2, <3>3, ExtendedExact
    <2>5. CASE Reaches(rows, t, u) /\ rows[u].l <= level
      <3>1. B \subseteq A /\ Covered(after, u) = A \ B
        BY <1>1, <2>5, CoveredWhenGrown
      <3>2. CASE B = {} /\ after[u] = rows[u]
        <4>1. Covered(after, u) = A
          BY <3>1, <3>2
        <4> QED BY <2>2, <3>2, <4>1
      <3>3. CASE after[u] = GivesUp(rows, t, u)
        <4>1. after[u] = Reduced(rows[u], B)
          BY <3>3 DEF GivesUp
        <4>2. rows[u] \in Row /\ A \in SUBSET Timestamps /\ B \in SUBSET A
          BY <2>1, <2>2, <3>1
        <4> HIDE DEF A, B
        <4> QED BY <2>2, <3>1, <4>1, <4>2, GivesUpExact
      <3>4. after[u] = GivesUp(rows, t, u) \/ (B = {} /\ after[u] = rows[u])
        BY <1>1, <2>2, <2>5 DEF Updated
      <3> QED BY <3>2, <3>3, <3>4
    <2>6. rows[u].l > level \/ rows[u].l <= level
      BY <1>1, <2>2
    <2> QED BY <2>3, <2>4, <2>5, <2>6
  <1>4. \A u \in DOMAIN after : Exact(u)
    BY <1>1, <1>2, <1>3
  <1>5. DOMAIN after \subseteq Timestamps
    BY <1>1 DEF Stored
  <1> QED BY <1>4, <1>5 DEF Summarised, Stored

LEMMA WithRowGrows ==
  ASSUME NEW rows, Stored(rows), NEW t \in Timestamps \ DOMAIN rows, NEW row \in Row
  PROVE  /\ Grown(rows, WithRow(rows, t, row), t, row.l) /\ Stored(WithRow(rows, t, row))
         /\ DOMAIN WithRow(rows, t, row) = DOMAIN rows \union {t}
         /\ WithRow(rows, t, row)[t] = row
         /\ \A u \in DOMAIN rows : u # t /\ WithRow(rows, t, row)[u] = rows[u]
  <1> DEFINE after == WithRow(rows, t, row)
  <1>1. DOMAIN after = DOMAIN rows \union {t} /\ after[t] = row
    BY DEF WithRow
  <1>2. \A u \in DOMAIN rows : u # t /\ after[u] = rows[u]
    BY DEF WithRow
  <1>3. row.l \in Levels
    BY DEF Row
  <1> HIDE DEF after
  <1>4. Grown(rows, after, t, row.l)
    BY <1>1, <1>2, <1>3 DEF Grown
  <1>5. Stored(after)
    BY <1>1, <1>2 DEF Stored
  <1> QED BY <1>1, <1>2, <1>4, <1>5 DEF after

(* A later step rewrites rows without moving them. *)
LEMMA RewrittenGrows ==
  ASSUME NEW rows, NEW after, NEW t, NEW level, Grown(rows, after, t, level),
         NEW final, DOMAIN final = DOMAIN after,
         \A u \in DOMAIN after : final[u].l = after[u].l
  PROVE  Grown(rows, final, t, level)
  BY DEF Grown

LEMMA LowestSuffix ==
  ASSUME NEW rows, Stored(rows), NEW t
  PROVE  Suffix(rows, t, 1) = {}
  <1>1. ASSUME NEW x \in Suffix(rows, t, 1) PROVE FALSE
    <2>1. x \in DOMAIN rows /\ x < t /\ \A v \in DOMAIN rows : x <= v /\ v < t => rows[v].l < 1
      BY DEF Suffix
    <2>2. x \in Nat /\ rows[x].l \in Nat /\ rows[x].l \in 1 .. MaxLevel
      BY <2>1, RowFacts
    <2>3. rows[x].l < 1
      BY <2>1, <2>2
    <2> QED BY <2>2, <2>3, LevelAssumption
  <1> QED BY <1>1

LEMMA BareRow ==
  ASSUME NEW rows, NEW t \in Timestamps, NEW level \in Levels, Suffix(rows, t, level) = {}
  PROVE  [l |-> level, h |-> {t}, c |-> 1] = OwnRow(rows, t, level)
  <1>1. SymDiff({t}, {}) = {t}
    BY DEF SymDiff
  <1>2. Cardinality({}) + 1 = 1
    BY FS_EmptySet
  <1> QED BY <1>1, <1>2 DEF OwnRow

LEMMA AppendKeeps ==
  ASSUME NEW rows, Summarised(rows), NEW t \in Timestamps \ DOMAIN rows, NEW level \in Levels,
         \A u \in DOMAIN rows : u < t
  PROVE  /\ Summarised(AppendRow(rows, t, level))
         /\ DOMAIN AppendRow(rows, t, level) = DOMAIN rows \union {t}
  <1> DEFINE preceding == {u \in DOMAIN rows : rows[u].l >= level /\ u < t}
             from == IF preceding = {} THEN 0 ELSE Max(preceding)
             covered == Visible(rows, from, t, level - 1)
             row == IF level = 1 THEN [l |-> 1, h |-> {t}, c |-> 1]
                    ELSE [l |-> level, h |-> SymDiff({t}, XorOf(rows, covered)),
                          c |-> CountOf(rows, covered) + 1]
             after == WithRow(rows, t, row)
  <1>1. AppendRow(rows, t, level) = after
    BY DEF AppendRow
  <1>2. /\ Stored(rows) /\ level \in 1 .. MaxLevel /\ level \in Nat /\ t \in Nat /\ MaxLevel \in Nat
        /\ \A u \in DOMAIN rows : u \in Nat /\ rows[u].l \in Nat
    BY RowFacts, LevelAssumption, TimestampsAssumption DEF Summarised, Levels
  <1>3. row = OwnRow(rows, t, level)
    <2>1. CASE level = 1
      BY <1>2, <2>1, LowestSuffix, BareRow
    <2>2. CASE level # 1
      <3>1. /\ from \in Nat /\ (from < t \/ from = 0)
            /\ \A x \in DOMAIN rows : from < x /\ x < t => rows[x].l < level
            /\ from = 0 \/ (from \in DOMAIN rows /\ rows[from].l >= level)
        <4>1. CASE preceding = {}
          BY <1>2, <4>1
        <4>2. CASE preceding # {}
          <5>1. preceding \subseteq 0 .. t
            BY <1>2
          <5>2. Max(preceding) \in preceding /\ \A n \in preceding : n <= Max(preceding)
            <6> HIDE DEF preceding
            <6> QED BY <1>2, <4>2, <5>1, MaxFacts
          <5>3. from = Max(preceding)
            BY <4>2
          <5> HIDE DEF from
          <5>4. from \in DOMAIN rows /\ rows[from].l >= level /\ from < t
            BY <5>2, <5>3
          <5>5. \A x \in DOMAIN rows : from < x /\ x < t => rows[x].l < level
            BY <1>2, <5>2, <5>3, <5>4
          <5> QED BY <1>2, <5>4, <5>5
        <4> QED BY <4>1, <4>2
      <3> HIDE DEF from
      <3>2. covered = Falling(rows, t, level)
        BY <1>2, <3>1, LaterWalk
      <3>3. XorOf(rows, covered) = Suffix(rows, t, level)
            /\ CountOf(rows, covered) = Cardinality(Suffix(rows, t, level))
        BY <1>2, <3>2, FallingSums
      <3> HIDE DEF covered
      <3> QED BY <2>2, <3>3 DEF OwnRow
    <2> QED BY <2>1, <2>2
  <1> HIDE DEF row
  <1>4. row \in Row /\ row.l = level
    BY <1>2, <1>3, OwnRowExact
  <1>5. /\ Grown(rows, after, t, level) /\ DOMAIN after = DOMAIN rows \union {t} /\ after[t] = row
        /\ \A u \in DOMAIN rows : after[u] = rows[u]
    BY <1>2, <1>4, WithRowGrows
  <1> HIDE DEF after
  <1>6. \A u \in DOMAIN rows : Updated(rows, after, t, level, u)
    <2>1. \A u \in DOMAIN rows : ~Reaches(rows, t, u)
      BY <1>2 DEF Reaches
    <2> QED BY <1>5, <2>1 DEF Updated
  <1>7. Summarised(after)
    BY <1>3, <1>5, <1>6, GrownSummarised
  <1> QED BY <1>1, <1>5, <1>7

(* The strategies that extend the nodes of higher levels and leave the others alone. *)
LEMMA ExtendingKeeps ==
  ASSUME NEW rows, Summarised(rows), NEW t \in Timestamps \ DOMAIN rows, NEW level \in Levels,
         \A l \in 0 .. level : Suffix(rows, t, l) = {},
         NEW after, after = WithRow(rows, t, [l |-> level, h |-> {t}, c |-> 1]),
         NEW final,
         final = [u \in DOMAIN after |-> IF u \in Covering(after, t, level + 1)
                                         THEN Extended(after[u], t) ELSE after[u]]
  PROVE  Summarised(final) /\ DOMAIN final = DOMAIN rows \union {t}
  <1>1. /\ Stored(rows) /\ level \in 0 .. level /\ level \in Nat /\ t \in Nat
        /\ \A u \in DOMAIN rows : u \in Nat /\ rows[u].l \in Nat /\ rows[u] \in Row
    BY RowFacts, LevelAssumption, TimestampsAssumption DEF Summarised, Levels, Stored
  <1> DEFINE row == [l |-> level, h |-> {t}, c |-> 1]
  <1>2. row = OwnRow(rows, t, level)
    BY <1>1, BareRow
  <1>4. after = WithRow(rows, t, row)
    OBVIOUS
  <1> HIDE DEF row
  <1>3. row \in Row /\ row.l = level
    <2>1. OwnRow(rows, t, level) \in Row /\ OwnRow(rows, t, level).l = level
      BY <1>1, OwnRowExact
    <2> QED BY <1>2, <2>1
  <1>5. /\ Grown(rows, after, t, level) /\ Stored(after)
        /\ DOMAIN after = DOMAIN rows \union {t} /\ after[t] = row
        /\ \A u \in DOMAIN rows : u # t /\ after[u] = rows[u]
    <2> DEFINE new == WithRow(rows, t, row)
    <2>1. /\ Grown(rows, new, t, row.l) /\ Stored(new)
          /\ DOMAIN new = DOMAIN rows \union {t} /\ new[t] = row
          /\ \A u \in DOMAIN rows : u # t /\ new[u] = rows[u]
      BY <1>1, <1>3, WithRowGrows
    <2>2. after = new
      BY <1>4
    <2> HIDE DEF new
    <2> QED BY <1>3, <2>1, <2>2
  <1>6. Covering(after, t, level + 1)
          = {u \in DOMAIN after : after[u].l >= level + 1 /\ Reaches(after, t, u)}
    BY <1>1, <1>5, CoveringReaches
  <1>7. t \notin Covering(after, t, level + 1)
    <2>1. ~(t < t)
      BY <1>1
    <2>2. \A u \in Covering(after, t, level + 1) : Reaches(after, t, u)
      BY <1>6
    <2> QED BY <2>1, <2>2 DEF Reaches
  <1>8. \A u \in DOMAIN rows : Reaches(after, t, u) <=> Reaches(rows, t, u)
    <2>1. \A w \in DOMAIN after : t < w => w \in DOMAIN rows
      BY <1>1, <1>5
    <2> QED BY <1>5, <2>1 DEF Reaches
  <1>9. DOMAIN final = DOMAIN rows \union {t} /\ final[t] = row
    BY <1>5, <1>7
  <1>10. ASSUME NEW u \in DOMAIN rows
         PROVE  Updated(rows, final, t, level, u)
    <2>1. u \in Covering(after, t, level + 1) <=> rows[u].l > level /\ Reaches(rows, t, u)
      <3>1. u \in Covering(after, t, level + 1) <=> after[u].l >= level + 1 /\ Reaches(after, t, u)
        BY <1>5, <1>6
      <3>2. after[u] = rows[u] /\ rows[u].l \in Nat
        BY <1>1, <1>5
      <3>3. after[u].l >= level + 1 <=> rows[u].l > level
        BY <1>1, <3>2
      <3> QED BY <1>8, <3>1, <3>3
    <2>2. CASE rows[u].l > level /\ Reaches(rows, t, u)
      <3>1. final[u] = Extended(rows[u], t)
        BY <1>5, <2>1, <2>2
      <3> QED BY <2>2, <3>1 DEF Updated
    <2>3. CASE ~(rows[u].l > level /\ Reaches(rows, t, u))
      <3>1. final[u] = rows[u]
        BY <1>5, <2>1, <2>3
      <3>2. rows[u].l <= level => Suffix(rows, t, rows[u].l) = {}
        BY <1>1
      <3>3. ~Reaches(rows, t, u) \/ (Reaches(rows, t, u) /\ rows[u].l <= level)
        BY <1>1, <2>3
      <3> QED BY <3>1, <3>2, <3>3 DEF Updated
    <2> QED BY <2>2, <2>3
  <1>11. \A u \in DOMAIN after : final[u].l = after[u].l
    <2>1. ASSUME NEW u \in DOMAIN after PROVE final[u].l = after[u].l
      <3>1. after[u] \in Row
        BY <1>5 DEF Stored
      <3>2. Extended(after[u], t).l = after[u].l
        BY <3>1 DEF Extended, Row
      <3> QED BY <3>2
    <2> QED BY <2>1
  <1>12. DOMAIN final = DOMAIN after
    OBVIOUS
  <1>13. Grown(rows, final, t, level)
    BY <1>5, <1>11, <1>12, RewrittenGrows
  <1>14. Summarised(final)
    BY <1>2, <1>9, <1>10, <1>13, GrownSummarised
  <1> QED BY <1>9, <1>14

LEMMA PrependKeeps ==
  ASSUME NEW rows, Summarised(rows), NEW t \in Timestamps \ DOMAIN rows, NEW level \in Levels,
         \A u \in DOMAIN rows : t < u
  PROVE  /\ Summarised(PrependRow(rows, t, level))
         /\ DOMAIN PrependRow(rows, t, level) = DOMAIN rows \union {t}
  <1>1. \A l \in 0 .. level : Suffix(rows, t, l) = {}
    <2>1. t \in Nat /\ \A u \in DOMAIN rows : u \in Nat
      BY RowFacts, TimestampsAssumption DEF Summarised
    <2> QED BY <2>1 DEF Suffix
  <1> DEFINE after == WithRow(rows, t, [l |-> level, h |-> {t}, c |-> 1])
             final == [u \in DOMAIN after |-> IF u \in Covering(after, t, level + 1)
                                              THEN Extended(after[u], t) ELSE after[u]]
  <1>2. PrependRow(rows, t, level) = final
    BY DEF PrependRow
  <1>3. Summarised(final) /\ DOMAIN final = DOMAIN rows \union {t}
    BY <1>1, ExtendingKeeps
  <1> QED BY <1>2, <1>3

LEMMA InsertLowKeeps ==
  ASSUME NEW rows, Summarised(rows), NEW t \in Timestamps \ DOMAIN rows
  PROVE  /\ Summarised(InsertLowRow(rows, t))
         /\ DOMAIN InsertLowRow(rows, t) = DOMAIN rows \union {t}
  <1>1. Stored(rows) /\ 1 \in Levels /\ 1 + 1 = 2
    BY LevelAssumption DEF Summarised, Levels
  <1>2. Suffix(rows, t, 0) = {} /\ Suffix(rows, t, 1) = {}
    <2>1. Suffix(rows, t, 0) \subseteq Suffix(rows, t, 1)
      <3>1. \A v \in DOMAIN rows : rows[v].l \in Nat
        BY <1>1, RowFacts
      <3> QED BY <3>1 DEF Suffix
    <2> QED BY <1>1, <2>1, LowestSuffix
  <1>3. \A l \in 0 .. 1 : Suffix(rows, t, l) = {}
    <2>1. \A l \in 0 .. 1 : l = 0 \/ l = 1
      OBVIOUS
    <2> QED BY <1>2, <2>1
  <1> DEFINE after == WithRow(rows, t, [l |-> 1, h |-> {t}, c |-> 1])
             final == [u \in DOMAIN after |-> IF u \in Covering(after, t, 1 + 1)
                                              THEN Extended(after[u], t) ELSE after[u]]
  <1>4. InsertLowRow(rows, t) = final
    BY <1>1 DEF InsertLowRow
  <1>5. Summarised(final) /\ DOMAIN final = DOMAIN rows \union {t}
    BY <1>1, <1>3, ExtendingKeeps
  <1> QED BY <1>4, <1>5

LEMMA InsertHighKeeps ==
  ASSUME NEW rows, Summarised(rows), NEW t \in Timestamps \ DOMAIN rows, NEW level \in Levels
  PROVE  /\ Summarised(InsertHighRow(rows, t, level))
         /\ DOMAIN InsertHighRow(rows, t, level) = DOMAIN rows \union {t}
  <1> DEFINE taken == {u \in Visible(rows, 0, t, MaxLevel) : rows[u].l < level}
             below(l) == {u \in taken : rows[u].l < l}
             row == [l |-> level, h |-> SymDiff({t}, XorOf(rows, taken)), c |-> CountOf(rows, taken) + 1]
             after == WithRow(rows, t, row)
             heights == {rows[u].l : u \in taken} \union {level}
             low == Min(heights) + 1
             covering == Covering(after, t, low)
             Lost(u) == [after[u] EXCEPT !.h = SymDiff(@, XorOf(rows, below(after[u].l))),
                                         !.c = @ - CountOf(rows, below(after[u].l))]
             final == [u \in DOMAIN after |->
                         IF u \notin covering THEN after[u]
                         ELSE IF after[u].l > level THEN Extended(after[u], t)
                         ELSE Lost(u)]
  <1>1. InsertHighRow(rows, t, level) = final
    BY DEF InsertHighRow
  <1>2. /\ Stored(rows) /\ level \in Nat /\ t \in Nat /\ MaxLevel \in Nat /\ level <= MaxLevel
        /\ \A u \in DOMAIN rows : u \in Nat /\ rows[u].l \in Nat /\ rows[u] \in Row
    BY RowFacts, LevelAssumption, TimestampsAssumption DEF Summarised, Levels, Stored
  <1>3. Visible(rows, 0, t, MaxLevel) = Falling(rows, t, MaxLevel + 1)
    BY <1>2, VisibleFalls
  <1>4. taken = Falling(rows, t, level)
    BY <1>2, <1>3 DEF Falling
  <1>5. ASSUME NEW l \in Nat, l <= level PROVE below(l) = Falling(rows, t, l)
    <2>1. \A u \in Falling(rows, t, level) : u \in DOMAIN rows
      BY DEF Falling
    <2>2. below(l) = {u \in Falling(rows, t, level) : rows[u].l < l}
      BY <1>4
    <2> HIDE DEF below
    <2> QED BY <1>2, <1>5, <2>1, <2>2 DEF Falling
  <1>6. row = OwnRow(rows, t, level)
    <2>1. XorOf(rows, taken) = Suffix(rows, t, level)
          /\ CountOf(rows, taken) = Cardinality(Suffix(rows, t, level))
      BY <1>2, <1>4, FallingSums
    <2> HIDE DEF taken
    <2> QED BY <2>1 DEF OwnRow
  <1> HIDE DEF row
  <1>7. row \in Row /\ row.l = level
    <2>1. OwnRow(rows, t, level) \in Row /\ OwnRow(rows, t, level).l = level
      BY <1>2, OwnRowExact
    <2> QED BY <1>6, <2>1
  <1>8. /\ Grown(rows, after, t, level) /\ Stored(after)
        /\ DOMAIN after = DOMAIN rows \union {t} /\ after[t] = row
        /\ \A u \in DOMAIN rows : u # t /\ after[u] = rows[u]
    BY <1>2, <1>7, WithRowGrows
  <1> HIDE DEF after
  <1>9. /\ low - 1 \in Nat /\ low \in Nat /\ low - 1 <= level
        /\ \A u \in taken : low - 1 <= rows[u].l
    <2>1. heights \subseteq Nat /\ heights # {} /\ level \in heights /\ \A u \in taken : rows[u].l \in heights
      BY <1>2, <1>4 DEF Falling
    <2> HIDE DEF heights, taken
    <2>2. Min(heights) \in heights /\ \A n \in heights : Min(heights) <= n
      BY <2>1, MinFacts
    <2>3. Min(heights) \in Nat /\ low = Min(heights) + 1
      BY <2>1, <2>2
    <2> HIDE DEF low
    <2>4. low - 1 = Min(heights) /\ low \in Nat
      BY <2>3
    <2> QED BY <2>1, <2>2, <2>3, <2>4
  <1> HIDE DEF low
  <1>10. covering = {u \in DOMAIN after : after[u].l >= low /\ Reaches(after, t, u)}
    BY <1>2, <1>8, <1>9, CoveringReaches
  <1>11. t \notin covering
    <2>1. ~(t < t)
      BY <1>2
    <2>2. \A u \in covering : Reaches(after, t, u)
      BY <1>10
    <2> QED BY <2>1, <2>2 DEF Reaches
  <1>12. \A u \in DOMAIN rows : Reaches(after, t, u) <=> Reaches(rows, t, u)
    <2>1. \A w \in DOMAIN after : t < w => w \in DOMAIN rows
      BY <1>2, <1>8
    <2> QED BY <1>8, <2>1 DEF Reaches
  <1>13. ASSUME NEW u \in DOMAIN rows
         PROVE  u \in covering <=> rows[u].l >= low /\ Reaches(rows, t, u)
    <2>1. u \in covering <=> after[u].l >= low /\ Reaches(after, t, u)
      BY <1>8, <1>10
    <2> QED BY <1>8, <1>12, <2>1
  <1> HIDE DEF covering
  <1>14. DOMAIN final = DOMAIN rows \union {t} /\ final[t] = row /\ DOMAIN final = DOMAIN after
    BY <1>8, <1>11
  <1>15. ASSUME NEW u \in DOMAIN rows
         PROVE  final[u] = IF ~(rows[u].l >= low /\ Reaches(rows, t, u)) THEN rows[u]
                           ELSE IF rows[u].l > level THEN Extended(rows[u], t)
                           ELSE Lost(u)
    <2> HIDE DEF Lost
    <2> QED BY <1>8, <1>13
  <1>16. ASSUME NEW u \in DOMAIN rows, rows[u].l <= level PROVE Lost(u) = GivesUp(rows, t, u)
    <2> DEFINE b == below(rows[u].l)
    <2>1. after[u] = rows[u] /\ rows[u].l \in Nat
      BY <1>2, <1>8
    <2>2. Lost(u) = [rows[u] EXCEPT !.h = SymDiff(@, XorOf(rows, b)), !.c = @ - CountOf(rows, b)]
      BY <2>1
    <2>3. b = Falling(rows, t, rows[u].l)
      BY <1>5, <1>16, <2>1
    <2> HIDE DEF b
    <2>4. XorOf(rows, b) = Suffix(rows, t, rows[u].l)
          /\ CountOf(rows, b) = Cardinality(Suffix(rows, t, rows[u].l))
      BY <1>2, <2>1, <2>3, FallingSums
    <2> HIDE DEF Lost
    <2> QED BY <2>2, <2>4 DEF GivesUp, Reduced
  <1>17. ASSUME NEW u \in DOMAIN rows, rows[u].l < low PROVE rows[u].l <= level /\ Suffix(rows, t, rows[u].l) = {}
    <2>1. rows[u].l \in Nat /\ rows[u].l <= low - 1 /\ rows[u].l <= level
      BY <1>2, <1>9, <1>17
    <2>2. below(rows[u].l) = {}
      <3>1. \A v \in taken : rows[v].l \in Nat /\ ~(rows[v].l < rows[u].l)
        <4>1. \A v \in taken : rows[v].l \in Nat
          BY <1>2, <1>4 DEF Falling
        <4> HIDE DEF taken
        <4> QED BY <1>9, <2>1, <4>1
      <3> HIDE DEF taken
      <3> QED BY <3>1
    <2>3. Falling(rows, t, rows[u].l) = {}
      BY <1>5, <2>1, <2>2
    <2>4. Together(rows, {}) = {}
      BY DEF Together
    <2>5. Together(rows, Falling(rows, t, rows[u].l)) = Suffix(rows, t, rows[u].l)
      BY <1>2, <2>1, FallingCovers
    <2> QED BY <2>1, <2>3, <2>4, <2>5
  <1> HIDE DEF Lost, final
  <1>18. ASSUME NEW u \in DOMAIN rows PROVE Updated(rows, final, t, level, u) /\ final[u].l = rows[u].l
    <2>1. rows[u].l \in Nat /\ rows[u] \in Row
      BY <1>2
    <2>2. CASE ~Reaches(rows, t, u)
      BY <1>15, <2>2 DEF Updated
    <2>3. CASE Reaches(rows, t, u) /\ rows[u].l < low
      <3>1. final[u] = rows[u]
        BY <1>9, <1>15, <2>1, <2>3
      <3> QED BY <1>17, <2>3, <3>1 DEF Updated
    <2>4. CASE Reaches(rows, t, u) /\ rows[u].l >= low /\ rows[u].l > level
      <3>1. final[u] = Extended(rows[u], t)
        BY <1>15, <2>4
      <3>2. Extended(rows[u], t).l = rows[u].l
        BY <2>1 DEF Extended, Row
      <3> QED BY <2>4, <3>1, <3>2 DEF Updated
    <2>5. CASE Reaches(rows, t, u) /\ rows[u].l >= low /\ ~(rows[u].l > level)
      <3>1. final[u] = GivesUp(rows, t, u) /\ rows[u].l <= level
        BY <1>2, <1>15, <1>16, <2>1, <2>5
      <3>2. GivesUp(rows, t, u).l = rows[u].l
        BY <2>1 DEF GivesUp, Reduced, Row
      <3> QED BY <2>5, <3>1, <3>2 DEF Updated
    <2> QED BY <1>9, <2>1, <2>2, <2>3, <2>4, <2>5
  <1>19. Grown(rows, final, t, level)
    BY <1>7, <1>8, <1>14, <1>18 DEF Grown
  <1>20. Summarised(final)
    BY <1>6, <1>14, <1>18, <1>19, GrownSummarised
  <1> QED BY <1>1, <1>14, <1>20

-----------------------------------------------------------------------------
(* The table and the bounds. *)
ListInv ==
  /\ RowsSummarise /\ BoundsExact
  /\ DOMAIN index = {} => index = << >>

LEMMA EmptyList == DOMAIN << >> = {}
  OBVIOUS

LEMMA SummarisedIndex == RowsSummarise <=> Summarised(index) /\ (usage = << >> \/ usage \in [first : Timestamps, last : Timestamps])
  BY DEF RowsSummarise, TypeOK, Summarised, Stored

LEMMA MinIs ==
  ASSUME NEW T \in SUBSET Timestamps, NEW m \in T, \A n \in T : m <= n
  PROVE  Min(T) = m
  <1>1. T \subseteq Nat /\ T # {}
    BY FiniteTimestamps
  <1>2. Min(T) \in T /\ \A n \in T : Min(T) <= n
    BY <1>1, MinFacts
  <1>3. Min(T) <= m /\ m <= Min(T) /\ m \in Nat /\ Min(T) \in Nat
    BY <1>1, <1>2
  <1> QED BY <1>3

LEMMA MaxIs ==
  ASSUME NEW T \in SUBSET Timestamps, NEW m \in T, \A n \in T : n <= m
  PROVE  Max(T) = m
  <1>1. T \subseteq 0 .. Infinite /\ T # {} /\ T \subseteq Nat /\ Infinite \in Nat
    BY FiniteTimestamps, InfiniteAssumption
  <1>2. Max(T) \in T /\ \A n \in T : n <= Max(T)
    BY <1>1, MaxFacts
  <1>3. Max(T) <= m /\ m <= Max(T) /\ m \in Nat /\ Max(T) \in Nat
    BY <1>1, <1>2
  <1> QED BY <1>3

LEMMA BoundsFacts ==
  ASSUME ListInv, index # << >>
  PROVE  /\ DOMAIN index # {} /\ DOMAIN index \in SUBSET Timestamps
         /\ usage = [first |-> Min(DOMAIN index), last |-> Max(DOMAIN index)] /\ usage # << >>
         /\ usage.first \in DOMAIN index /\ usage.last \in DOMAIN index
         /\ \A n \in DOMAIN index : n \in Nat /\ usage.first <= n /\ n <= usage.last
  <1>1. DOMAIN index # {} /\ DOMAIN index \in SUBSET Timestamps
    BY DEF ListInv, RowsSummarise, TypeOK
  <1>2. DOMAIN index \subseteq Nat /\ DOMAIN index \subseteq 0 .. Infinite /\ Infinite \in Nat
    BY <1>1, FiniteTimestamps, InfiniteAssumption
  <1>3. usage = [first |-> Min(DOMAIN index), last |-> Max(DOMAIN index)]
    BY DEF ListInv, BoundsExact
  <1>4. /\ Min(DOMAIN index) \in DOMAIN index /\ Max(DOMAIN index) \in DOMAIN index
        /\ \A n \in DOMAIN index : Min(DOMAIN index) <= n /\ n <= Max(DOMAIN index)
    BY <1>1, <1>2, MinFacts, MaxFacts
  <1>5. usage # << >>
    <2>1. DOMAIN usage = {"first", "last"}
      BY <1>3
    <2>2. DOMAIN usage # {}
      BY <2>1
    <2> QED BY <2>2, EmptyList
  <1> QED BY <1>1, <1>2, <1>3, <1>4, <1>5

LEMMA InsertKeeps ==
  ASSUME NEW rows, Summarised(rows), NEW t \in Timestamps \ DOMAIN rows, NEW level \in Levels,
         NEW strategy \in {"append", "prepend", "insert"},
         strategy = "append" => \A u \in DOMAIN rows : u < t,
         strategy = "prepend" => \A u \in DOMAIN rows : t < u
  PROVE  /\ Summarised(InsertTimestamp(rows, t, level, strategy))
         /\ DOMAIN InsertTimestamp(rows, t, level, strategy) = DOMAIN rows \union {t}
  <1>1. CASE strategy = "append"
    <2>1. InsertTimestamp(rows, t, level, strategy) = AppendRow(rows, t, level)
      BY <1>1 DEF InsertTimestamp
    <2> QED BY <1>1, <2>1, AppendKeeps
  <1>2. CASE strategy = "prepend"
    <2>1. InsertTimestamp(rows, t, level, strategy) = PrependRow(rows, t, level)
      BY <1>2 DEF InsertTimestamp
    <2>2. \A u \in DOMAIN rows : t < u
      BY <1>2
    <2>3. /\ Summarised(PrependRow(rows, t, level))
          /\ DOMAIN PrependRow(rows, t, level) = DOMAIN rows \union {t}
      BY <2>2, PrependKeeps
    <2> QED BY <2>1, <2>3
  <1>3. CASE strategy = "insert" /\ level = 1
    <2>1. InsertTimestamp(rows, t, level, strategy) = InsertLowRow(rows, t)
      BY <1>3 DEF InsertTimestamp
    <2> QED BY <2>1, InsertLowKeeps
  <1>4. CASE strategy = "insert" /\ level # 1
    <2>1. level > 1
      BY <1>4, LevelAssumption DEF Levels
    <2>2. InsertTimestamp(rows, t, level, strategy) = InsertHighRow(rows, t, level)
      BY <1>4, <2>1 DEF InsertTimestamp
    <2> QED BY <2>2, InsertHighKeeps
  <1> QED BY <1>1, <1>2, <1>3, <1>4

LEMMA InsertStep ==
  ASSUME ListInv, NEW t \in Timestamps, NEW level \in Levels, Insert(t, level)
  PROVE  ListInv' /\ DOMAIN index' = DOMAIN index \union {t}
  <1> DEFINE bounds == Bounds(t)
             strategy == Strategy(t, bounds)
             first == IF strategy = "prepend" THEN t ELSE bounds.first
             last == IF strategy = "append" THEN t ELSE bounds.last
  <1>1. /\ index' = InsertTimestamp(index, t, level, strategy)
        /\ usage' = [first |-> first, last |-> last]
    BY DEF Insert
  <1>2. /\ Summarised(index) /\ DOMAIN index \in SUBSET Timestamps
        /\ t \in Nat /\ \A u \in DOMAIN index : u \in Nat
    <2>1. Summarised(index) /\ DOMAIN index \in SUBSET Timestamps
      BY SummarisedIndex DEF ListInv, Summarised, Stored
    <2> QED BY <2>1, TimestampsAssumption
  <1> SUFFICES /\ Summarised(index') /\ DOMAIN index' = DOMAIN index \union {t}
               /\ first = Min(DOMAIN index') /\ last = Max(DOMAIN index')
    <2>1. ASSUME Summarised(index'), DOMAIN index' = DOMAIN index \union {t},
                 first = Min(DOMAIN index'), last = Max(DOMAIN index')
          PROVE  ListInv' /\ DOMAIN index' = DOMAIN index \union {t}
      <3>1. index' # << >> /\ DOMAIN index' # {}
        BY <2>1, EmptyList
      <3>2. usage' = [first |-> Min(DOMAIN index'), last |-> Max(DOMAIN index')]
        BY <1>1, <2>1
      <3>3. DOMAIN index' \in SUBSET Timestamps /\ DOMAIN index' \subseteq Nat
            /\ DOMAIN index' \subseteq 0 .. Infinite /\ Infinite \in Nat
        <4>1. DOMAIN index' \in SUBSET Timestamps
          BY <1>2, <2>1
        <4> QED BY <4>1, FiniteTimestamps, InfiniteAssumption
      <3>4. Min(DOMAIN index') \in Timestamps /\ Max(DOMAIN index') \in Timestamps
        <4>1. Min(DOMAIN index') \in DOMAIN index' /\ Max(DOMAIN index') \in DOMAIN index'
          BY <3>1, <3>3, MinFacts, MaxFacts
        <4> QED BY <3>3, <4>1
      <3>5. usage' \in [first : Timestamps, last : Timestamps]
        BY <3>2, <3>4
      <3>6. RowsSummarise'
        BY <2>1, <3>5 DEF RowsSummarise, TypeOK, Summarised, Stored
      <3>7. BoundsExact'
        BY <3>1, <3>2 DEF BoundsExact
      <3> QED BY <2>1, <3>1, <3>6, <3>7 DEF ListInv
    <2> QED BY <2>1
  <1>3. CASE t \in DOMAIN index
    <2>1. index # << >>
      BY <1>3, EmptyList
    <2>2. /\ bounds = usage /\ usage.first <= t /\ t <= usage.last
          /\ usage.first = Min(DOMAIN index) /\ usage.last = Max(DOMAIN index)
          /\ usage.first \in Nat /\ usage.last \in Nat
      BY <1>3, <2>1, BoundsFacts DEF Bounds
    <2>3. strategy = "insert"
      BY <1>2, <2>2 DEF Strategy
    <2>4. index' = index /\ DOMAIN index \union {t} = DOMAIN index
      BY <1>1, <1>3 DEF InsertTimestamp
    <2> QED BY <1>2, <2>2, <2>3, <2>4
  <1>4. CASE t \notin DOMAIN index /\ index = << >>
    <2>1. bounds = [first |-> t, last |-> t]
      BY <1>4 DEF Bounds, ListInv, BoundsExact
    <2>2. bounds.first = t /\ bounds.last = t
      BY <2>1
    <2>3. strategy = "insert"
      BY <1>2, <2>2 DEF Strategy
    <2>4. Summarised(index') /\ DOMAIN index' = DOMAIN index \union {t}
      BY <1>1, <1>2, <1>4, <2>3, InsertKeeps
    <2>5. DOMAIN index' = {t}
      BY <1>4, <2>4, EmptyList
    <2>6. Min({t}) = t /\ Max({t}) = t
      BY <1>2, MinIs, MaxIs
    <2> QED BY <2>2, <2>3, <2>4, <2>5, <2>6
  <1>5. CASE t \notin DOMAIN index /\ index # << >>
    <2>1. /\ bounds = usage /\ DOMAIN index # {}
          /\ usage.first \in DOMAIN index /\ usage.last \in DOMAIN index
          /\ \A n \in DOMAIN index : n \in Nat /\ usage.first <= n /\ n <= usage.last
      BY <1>5, BoundsFacts DEF Bounds
    <2>2. /\ strategy \in {"append", "prepend", "insert"}
          /\ strategy = "append" => t > usage.last
          /\ strategy = "prepend" => t < usage.first
          /\ strategy = "insert" => ~(t > usage.last) /\ ~(t < usage.first)
      BY <2>1 DEF Strategy
    <2> HIDE DEF strategy, bounds
    <2>3. /\ strategy = "append" => \A u \in DOMAIN index : u < t
          /\ strategy = "prepend" => \A u \in DOMAIN index : t < u
      BY <1>2, <2>1, <2>2
    <2>4. Summarised(index') /\ DOMAIN index' = DOMAIN index \union {t}
      BY <1>1, <1>2, <1>5, <2>2, <2>3, InsertKeeps
    <2>5. /\ first \in DOMAIN index' /\ \A n \in DOMAIN index' : first <= n
          /\ last \in DOMAIN index' /\ \A n \in DOMAIN index' : n <= last
      <3>1. usage.first \in Nat /\ usage.last \in Nat /\ usage.first <= usage.last
        BY <2>1
      <3>2. CASE strategy = "append"
        BY <1>2, <2>1, <2>2, <2>4, <3>1, <3>2
      <3>3. CASE strategy = "prepend"
        BY <1>2, <2>1, <2>2, <2>4, <3>1, <3>3
      <3>4. CASE strategy = "insert"
        BY <1>2, <2>1, <2>2, <2>4, <3>1, <3>4
      <3> QED BY <2>2, <3>2, <3>3, <3>4
    <2>6. DOMAIN index' \in SUBSET Timestamps
      BY <1>2, <2>4
    <2> HIDE DEF first, last
    <2> QED BY <2>4, <2>5, <2>6, MinIs, MaxIs
  <1> QED BY <1>3, <1>4, <1>5

LEMMA ListStep ==
  ASSUME ListInv, [Next]_vars
  PROVE  /\ ListInv'
         /\ \/ DOMAIN index' = {}
            \/ \E t \in Timestamps : DOMAIN index' = DOMAIN index \union {t}
            \/ UNCHANGED vars
  <1>1. CASE DeleteOwner
    <2>1. index' = << >> /\ usage' = << >> /\ DOMAIN index' = {}
      BY <1>1, EmptyList DEF DeleteOwner
    <2>2. RowsSummarise'
      BY <2>1 DEF RowsSummarise, TypeOK
    <2>3. ListInv'
      BY <2>1, <2>2 DEF ListInv, BoundsExact
    <2> QED BY <2>1, <2>3
  <1>2. ASSUME NEW t \in Timestamps, NEW level \in Levels, Insert(t, level)
        PROVE  ListInv' /\ DOMAIN index' = DOMAIN index \union {t}
    BY <1>2, InsertStep
  <1>3. CASE UNCHANGED vars
    <2>1. index' = index /\ usage' = usage
      BY <1>3 DEF vars
    <2>2. ListInv'
      BY <2>1 DEF ListInv, RowsSummarise, TypeOK, BoundsExact, Covered
    <2> QED BY <1>3, <2>2
  <1> QED BY <1>1, <1>2, <1>3 DEF Next

LEMMA ListInit == Init => ListInv
  <1> SUFFICES ASSUME Init PROVE ListInv
    OBVIOUS
  <1>1. index = << >> /\ usage = << >> /\ DOMAIN index = {}
    BY EmptyList DEF Init
  <1>2. RowsSummarise
    BY <1>1 DEF RowsSummarise, TypeOK
  <1> QED BY <1>1, <1>2 DEF ListInv, BoundsExact

(* The invariant of the list: what insertTimestamp relies on, and keeps. *)
LEMMA ListAlways == Spec => []ListInv
  <1>1. ListInv /\ [Next]_vars => ListInv'
    BY ListStep
  <1> QED BY <1>1, ListInit, PTL DEF Spec

(* Every row of evolu_timestamp carries the fingerprint and the count of exactly what it
   covers, whatever insertTimestamp inserted before, in whatever order and on whatever
   levels. *)
THEOREM RowsAlwaysSummarise == Spec => []RowsSummarise
  <1>1. ListInv => RowsSummarise
    BY DEF ListInv
  <1> QED BY <1>1, ListAlways, PTL

(* The bounds in evolu_usage are those of the timestamps stored, so that
   getTimestampInsertStrategy never appends or prepends into the middle. *)
THEOREM BoundsStayExact == Spec => []BoundsExact
  <1>1. ListInv => BoundsExact
    BY DEF ListInv
  <1> QED BY <1>1, ListAlways, PTL

-----------------------------------------------------------------------------
(* Ranks. *)
LEMMA SameCardinality == ASSUME NEW S PROVE Set!Cardinality(S) = Cardinality(S)
  BY DEF Set!Cardinality, Cardinality

LEMMA RankIs ==
  ASSUME NEW S, NEW t
  PROVE  Set!Rank(S, t) = Cardinality({u \in S : u <= t})
  <1>1. Set!Rank(S, t) = Set!Cardinality({u \in S : u <= t})
    BY DEF Set!Rank
  <1> QED BY <1>1, SameCardinality

LEMMA RankFacts ==
  ASSUME NEW S \in SUBSET Timestamps, NEW t \in Nat
  PROVE  /\ Set!Rank(S, t) = Cardinality({u \in S : u <= t}) /\ Set!Rank(S, t) \in Nat
         /\ Set!Rank(S, t) <= Cardinality(S) /\ Cardinality(S) \in Nat
         /\ Set!Rank(S, 0) = 0
  <1>1. IsFiniteSet(S) /\ Cardinality(S) \in Nat /\ \A u \in S : u \in Nat \ {0}
    BY FiniteTimestamps, TimestampsAssumption
  <1>2. {u \in S : u <= t} \in SUBSET S
    OBVIOUS
  <1>3. Cardinality({u \in S : u <= t}) \in Nat /\ Cardinality({u \in S : u <= t}) <= Cardinality(S)
    BY <1>1, <1>2, FS_Subset, FiniteTimestamps
  <1>4. {u \in S : u <= 0} = {}
    BY <1>1
  <1>5. Set!Rank(S, 0) = 0
    BY <1>4, FS_EmptySet, RankIs
  <1> QED BY <1>1, <1>3, <1>5, RankIs

(* The timestamps between two of them are as many as their ranks differ. *)
LEMMA RankBetween ==
  ASSUME NEW S \in SUBSET Timestamps, NEW t \in Nat, NEW u \in Nat, t <= u
  PROVE  /\ Set!Rank(S, u) = Set!Rank(S, t) + Cardinality({x \in S : t < x /\ x <= u})
         /\ Cardinality({x \in S : t < x /\ x <= u}) \in Nat
         /\ Set!Rank(S, t) <= Set!Rank(S, u)
         /\ u \in S /\ t < u => Set!Rank(S, t) < Set!Rank(S, u)
  <1> DEFINE A == {x \in S : x <= t}
             B == {x \in S : t < x /\ x <= u}
             C == {x \in S : x <= u}
  <1>1. \A x \in S : x \in Nat
    BY FiniteTimestamps
  <1>2. C = A \union B /\ A \intersect B = {} /\ A \in SUBSET Timestamps /\ B \in SUBSET Timestamps
    BY <1>1
  <1>3. u \in S /\ t < u => B # {}
    OBVIOUS
  <1>4. Set!Rank(S, u) = Cardinality(C) /\ Set!Rank(S, t) = Cardinality(A)
    BY RankIs
  <1> HIDE DEF A, B, C
  <1>5. Cardinality(C) = Cardinality(A) + Cardinality(B)
    BY <1>2, DisjointUnion
  <1>6. Cardinality(A) \in Nat /\ Cardinality(B) \in Nat /\ IsFiniteSet(B)
    BY <1>2, FiniteTimestamps
  <1>7. B # {} => Cardinality(B) # 0
    BY <1>6, FS_EmptySet
  <1>8. /\ Set!Rank(S, u) = Set!Rank(S, t) + Cardinality(B) /\ Set!Rank(S, t) <= Set!Rank(S, u)
        /\ B # {} => Set!Rank(S, t) < Set!Rank(S, u)
    BY <1>4, <1>5, <1>6, <1>7
  <1> QED BY <1>3, <1>6, <1>8 DEF B

LEMMA RankOrders ==
  ASSUME NEW S \in SUBSET Timestamps, NEW t \in Nat, NEW u \in S
  PROVE  /\ Set!Rank(S, u) <= Set!Rank(S, t) <=> u <= t
         /\ t \in S /\ Set!Rank(S, u) = Set!Rank(S, t) => u = t
  <1>1. u \in Nat
    BY FiniteTimestamps
  <1>2. Set!Rank(S, u) \in Nat /\ Set!Rank(S, t) \in Nat
    BY <1>1, RankFacts
  <1>3. u <= t => Set!Rank(S, u) <= Set!Rank(S, t)
    BY <1>1, RankBetween
  <1>4. ASSUME t < u PROVE Set!Rank(S, t) < Set!Rank(S, u)
    <2>1. t <= u
      BY <1>1, <1>4
    <2> QED BY <1>1, <1>4, <2>1, RankBetween
  <1>5. ASSUME t \in S, u < t PROVE Set!Rank(S, u) < Set!Rank(S, t)
    <2>1. u <= t
      BY <1>1, <1>5
    <2> QED BY <1>1, <1>5, <2>1, RankBetween
  <1> QED BY <1>1, <1>2, <1>3, <1>4, <1>5

(* The next timestamp has the next rank. *)
LEMMA RankNext ==
  ASSUME NEW S \in SUBSET Timestamps, NEW t \in Nat, NEW u \in S, t < u,
         \A x \in S : t < x => u <= x
  PROVE  Set!Rank(S, u) = Set!Rank(S, t) + 1
  <1>1. u \in Nat /\ \A x \in S : x \in Nat
    BY FiniteTimestamps
  <1>2. {x \in S : t < x /\ x <= u} = {u}
    <2>1. ASSUME NEW x \in S, t < x, x <= u PROVE x = u
      BY <1>1, <2>1
    <2>2. u <= u
      BY <1>1
    <2> QED BY <2>1, <2>2
  <1>4. t <= u
    BY <1>1
  <1>3. Cardinality({x \in S : t < x /\ x <= u}) = 1
    BY <1>2, FS_Singleton
  <1> QED BY <1>1, <1>3, <1>4, RankBetween

-----------------------------------------------------------------------------
(* The descent of getTimestampByIndex and fingerprintRanges. *)
Top == [from |-> 0, to |-> Infinite, counted |-> 0, h |-> {}]

NodesOf(rows, s, l) == {t \in DOMAIN rows : rows[t].l = l + 1 /\ s.from < t /\ t < s.to}

RunOf(rows, s, l, t) == {u \in NodesOf(rows, s, l) : u <= t}

TakenOf(rows, n, s, l) ==
  {t \in NodesOf(rows, s, l) : s.counted + CountOf(rows, RunOf(rows, s, l, t)) <= n}

Down(rows, n, s, l) ==
  [from |-> Max(TakenOf(rows, n, s, l) \union {s.from}),
   to |-> Min((NodesOf(rows, s, l) \ TakenOf(rows, n, s, l)) \union {s.to}),
   counted |-> s.counted + CountOf(rows, TakenOf(rows, n, s, l)),
   h |-> SymDiff(s.h, XorOf(rows, TakenOf(rows, n, s, l)))]

LEMMA DescentByLevel ==
  ASSUME NEW rows, NEW n
  PROVE  \E at : /\ Descent(rows, n) = at[0] /\ at[MaxLevel] = Top
                 /\ \A l \in 0 .. MaxLevel - 1 : at[l] = Down(rows, n, at[l + 1], l)
  <1> DEFINE M == MaxLevel
             At(f, l) == IF l = M THEN Top ELSE Down(rows, n, f[l + 1], l)
             Good(k, f) == f = [l \in k .. M |-> At(f, l)]
             T == {k \in 0 .. M : ~\E f : Good(k, f)}
  <1>0. M \in Nat \ {0}
    BY LevelAssumption
  <1> HIDE DEF M
  <1>1. T = {}
    <2>1. SUFFICES ASSUME T # {} PROVE FALSE
      OBVIOUS
    <2>2. PICK k \in T : \A j \in T : j <= k
      <3>1. T \subseteq 0 .. M
        OBVIOUS
      <3> HIDE DEF T
      <3>2. Max(T) \in T /\ \A j \in T : j <= Max(T)
        BY <1>0, <2>1, <3>1, MaxFacts
      <3> QED BY <3>2
    <2>3. k \in 0 .. M /\ ~\E f : Good(k, f)
      BY <2>2
    <2>4. CASE k = M
      <3> DEFINE f == [l \in M .. M |-> Top]
      <3>1. \A l \in M .. M : l = M
        BY <1>0
      <3>2. Good(M, f)
        BY <3>1
      <3> HIDE DEF f, Good
      <3> QED BY <2>3, <2>4, <3>2
    <2>5. CASE k # M
      <3>1. k + 1 \in 0 .. M /\ k + 1 \notin T /\ k \in Nat /\ k < M
        <4>1. k + 1 \in 0 .. M /\ ~(k + 1 <= k) /\ k \in Nat /\ k < M
          BY <1>0, <2>3, <2>5
        <4> HIDE DEF T
        <4> QED BY <2>2, <4>1
      <3>2. PICK f : Good(k + 1, f)
        BY <3>1
      <3> DEFINE g == [l \in k .. M |-> IF l > k THEN f[l] ELSE Down(rows, n, f[k + 1], k)]
      <3>3. \A l \in k + 1 .. M : f[l] = At(f, l)
        BY <3>1, <3>2
      <3>4. ASSUME NEW l \in k .. M PROVE g[l] = At(g, l)
        <4>1. CASE l = M
          <5>1. l > k /\ l \in k + 1 .. M
            BY <1>0, <3>1, <4>1
          <5>2. g[l] = f[l]
            BY <5>1
          <5> HIDE DEF g
          <5> QED BY <3>3, <4>1, <5>1, <5>2
        <4>2. CASE l # M /\ l > k
          <5>1. l \in k + 1 .. M /\ l + 1 \in k .. M /\ l + 1 > k
            BY <1>0, <3>1, <4>2
          <5>2. g[l] = f[l] /\ g[l + 1] = f[l + 1]
            BY <4>2, <5>1
          <5> HIDE DEF g
          <5> QED BY <3>3, <4>2, <5>1, <5>2
        <4>3. CASE l = k
          <5>1. k + 1 \in k .. M /\ k + 1 > k /\ ~(k > k) /\ k \in k .. M
            BY <1>0, <3>1
          <5>2. g[k + 1] = f[k + 1] /\ g[k] = Down(rows, n, f[k + 1], k)
            BY <5>1
          <5> HIDE DEF g
          <5> QED BY <2>5, <4>3, <5>2
        <4> QED BY <1>0, <3>1, <4>1, <4>2, <4>3
      <3>5. Good(k, g)
        <4>1. g = [l \in k .. M |-> g[l]]
          OBVIOUS
        <4> HIDE DEF g
        <4> QED BY <3>4, <4>1
      <3> HIDE DEF g, Good
      <3> QED BY <2>3, <3>5
    <2> QED BY <2>4, <2>5
  <1>2. \E f : Good(0, f)
    <2>1. 0 \in 0 .. M
      BY <1>0
    <2> QED BY <1>1, <2>1
  <1> DEFINE at == CHOOSE f : Good(0, f)
  <1>3. Good(0, at)
    <2> HIDE DEF Good
    <2> QED BY <1>2, Zenon
  <1>4. Descent(rows, n) = at[0]
    BY Zenon DEF Descent, M, Down, Top, NodesOf, RunOf, TakenOf
  <1> HIDE DEF at
  <1>5. \A l \in 0 .. M : at[l] = At(at, l)
    BY <1>3
  <1>6. M \in 0 .. M /\ \A l \in 0 .. M - 1 : l \in 0 .. M /\ l # M
    BY <1>0
  <1>7. at[M] = Top /\ \A l \in 0 .. M - 1 : at[l] = Down(rows, n, at[l + 1], l)
    BY <1>5, <1>6
  <1> QED BY <1>4, <1>7 DEF M

(* Where the descent is once it has left a level: it has counted the timestamps up to
   "from", and the one at "to" would be too many. *)
Reached(rows, n, s, l) ==
  /\ s.from \in Nat /\ s.to \in Nat /\ s.from < s.to
  /\ s.from = 0 \/ (s.from \in DOMAIN rows /\ rows[s.from].l > l)
  /\ s.to = Infinite \/ (s.to \in DOMAIN rows /\ Set!Rank(DOMAIN rows, s.to) > n)
  /\ s.counted = Set!Rank(DOMAIN rows, s.from) /\ s.counted <= n
  /\ s.h = {u \in DOMAIN rows : u <= s.from}
  /\ \A x \in DOMAIN rows : s.from < x /\ x < s.to => rows[x].l <= l

RunsCover(rows, s, l) ==
  \A t \in NodesOf(rows, s, l) :
    Together(rows, RunOf(rows, s, l, t)) = {x \in DOMAIN rows : s.from < x /\ x <= t}

LEMMA RunCovers ==
  ASSUME NEW rows, Stored(rows), NEW n, NEW l \in Nat, NEW s, Reached(rows, n, s, l + 1)
  PROVE  Apart(rows, NodesOf(rows, s, l)) /\ RunsCover(rows, s, l)
  <1>1. \A t \in DOMAIN rows : t \in Nat /\ t # 0 /\ rows[t].l \in Nat
    BY RowFacts
  <1>2. /\ s.from \in Nat /\ s.to \in Nat /\ l + 1 \in Nat
        /\ s.from = 0 \/ (s.from \in DOMAIN rows /\ rows[s.from].l > l + 1)
        /\ \A x \in DOMAIN rows : s.from < x /\ x < s.to => rows[x].l <= l + 1
    BY DEF Reached
  <1>3. \A t \in NodesOf(rows, s, l) :
          t \in DOMAIN rows /\ t \in Nat /\ rows[t].l = l + 1 /\ s.from < t /\ t < s.to
    BY <1>1 DEF NodesOf
  <1>4. ASSUME NEW t \in NodesOf(rows, s, l), NEW u \in NodesOf(rows, s, l), t < u
        PROVE  Covered(rows, t) \intersect Covered(rows, u) = {}
    <2>1. ASSUME NEW x \in Covered(rows, t) PROVE x \notin Covered(rows, u)
      <3>1. x \in DOMAIN rows /\ x <= t
        BY DEF Covered
      <3>2. t \in DOMAIN rows /\ rows[t].l >= rows[u].l
        BY <1>2, <1>3
      <3> QED BY <1>1, <1>4, <3>1, <3>2 DEF Covered
    <2> QED BY <2>1
  <1>5. Apart(rows, NodesOf(rows, s, l))
    <2>1. \A t, u \in NodesOf(rows, s, l) : t # u => t < u \/ u < t
      BY <1>3
    <2> QED BY <1>4, <2>1 DEF Apart
  <1>6. ASSUME NEW t \in NodesOf(rows, s, l), NEW u \in RunOf(rows, s, l, t), NEW x \in Covered(rows, u)
        PROVE  x \in DOMAIN rows /\ s.from < x /\ x <= t
    <2>1. u \in NodesOf(rows, s, l) /\ u <= t
      BY DEF RunOf
    <2>2. /\ x \in DOMAIN rows /\ x <= u
          /\ ~\E v \in DOMAIN rows : x <= v /\ v < u /\ rows[v].l >= rows[u].l
      BY DEF Covered
    <2>3. s.from < x
      <3>1. SUFFICES ASSUME x <= s.from PROVE FALSE
        BY <1>1, <1>2, <2>2
      <3>2. s.from \in DOMAIN rows /\ rows[s.from].l > l + 1 /\ rows[s.from].l \in Nat
        BY <1>1, <1>2, <2>2, <3>1
      <3>3. s.from < u /\ rows[u].l = l + 1
        BY <1>3, <2>1
      <3>4. rows[s.from].l >= rows[u].l
        BY <1>2, <3>2, <3>3
      <3> QED BY <2>2, <3>1, <3>2, <3>3, <3>4
    <2> QED BY <1>1, <1>3, <2>1, <2>2, <2>3
  <1>7. ASSUME NEW t \in NodesOf(rows, s, l), NEW x \in DOMAIN rows, s.from < x, x <= t
        PROVE  \E u \in RunOf(rows, s, l, t) : x \in Covered(rows, u)
    <2> DEFINE Later == {u \in RunOf(rows, s, l, t) : x <= u}
    <2>1. t \in RunOf(rows, s, l, t)
      BY <1>3 DEF RunOf
    <2>2. Later # {} /\ Later \subseteq Nat
      BY <1>3, <1>7, <2>1 DEF RunOf
    <2>3. PICK u \in Later : \A v \in Later : u <= v
      <3> HIDE DEF Later
      <3> QED BY <2>2, LeastNatural
    <2>4. u \in RunOf(rows, s, l, t) /\ x <= u /\ u \in NodesOf(rows, s, l) /\ u <= t
      BY <2>3 DEF RunOf
    <2>5. u \in DOMAIN rows /\ u \in Nat /\ rows[u].l = l + 1 /\ u < s.to /\ t \in Nat
      BY <1>3, <2>4
    <2>6. ASSUME NEW v \in DOMAIN rows, x <= v, v < u PROVE ~(rows[v].l >= rows[u].l)
      <3>1. SUFFICES ASSUME rows[v].l >= rows[u].l PROVE FALSE
        OBVIOUS
      <3>2. s.from < v /\ v < s.to /\ v <= t
        BY <1>1, <1>2, <1>7, <2>4, <2>5, <2>6
      <3>3. rows[v].l = l + 1
        BY <1>1, <1>2, <2>5, <3>1, <3>2
      <3>4. v \in Later
        BY <2>6, <3>2, <3>3 DEF NodesOf, RunOf
      <3>5. u <= v
        BY <2>3, <3>4
      <3> QED BY <1>1, <2>5, <2>6, <3>5
    <2>7. x \in Covered(rows, u)
      BY <2>4, <2>6 DEF Covered
    <2> QED BY <2>4, <2>7
  <1>8. ASSUME NEW t \in NodesOf(rows, s, l)
        PROVE  Together(rows, RunOf(rows, s, l, t)) = {x \in DOMAIN rows : s.from < x /\ x <= t}
    BY <1>6, <1>7 DEF Together
  <1>9. RunsCover(rows, s, l)
    BY <1>8, Zenon DEF RunsCover
  <1> QED BY <1>5, <1>9

LEMMA DownReaches ==
  ASSUME NEW rows, Summarised(rows), NEW n \in Nat, NEW l \in Nat, NEW s, Reached(rows, n, s, l + 1)
  PROVE  Reached(rows, n, Down(rows, n, s, l), l)
  <1> DEFINE S == DOMAIN rows
             nodes == NodesOf(rows, s, l)
             taken == TakenOf(rows, n, s, l)
             from == Max(taken \union {s.from})
             to == Min((nodes \ taken) \union {s.to})
  <1>1. /\ Stored(rows) /\ S \in SUBSET Timestamps /\ S \subseteq Nat
        /\ \A t \in S : t \in Nat /\ t # 0 /\ rows[t].l \in Nat
    BY RowFacts DEF Summarised, Stored
  <1>2. /\ s.from \in Nat /\ s.to \in Nat /\ s.from < s.to /\ l + 1 \in Nat
        /\ s.from = 0 \/ (s.from \in S /\ rows[s.from].l > l + 1)
        /\ s.to = Infinite \/ (s.to \in S /\ Set!Rank(S, s.to) > n)
        /\ s.counted = Set!Rank(S, s.from) /\ s.counted <= n
        /\ s.h = {u \in S : u <= s.from}
        /\ \A x \in S : s.from < x /\ x < s.to => rows[x].l <= l + 1
    BY DEF Reached
  <1>3. /\ Apart(rows, nodes)
        /\ \A t \in nodes : Together(rows, RunOf(rows, s, l, t)) = {x \in S : s.from < x /\ x <= t}
    <2>1. Apart(rows, NodesOf(rows, s, l)) /\ RunsCover(rows, s, l)
      BY <1>1, RunCovers
    <2> QED BY <2>1, Zenon DEF RunsCover
  <1>4. \A t \in nodes : t \in S /\ t \in Nat /\ rows[t].l = l + 1 /\ s.from < t /\ t < s.to
    BY <1>1 DEF NodesOf
  <1>5. ASSUME NEW ts \in SUBSET nodes
        PROVE  /\ ts \in SUBSET DOMAIN rows /\ Apart(rows, ts)
               /\ XorOf(rows, ts) = Together(rows, ts)
               /\ CountOf(rows, ts) = Cardinality(Together(rows, ts))
    <2>1. ts \in SUBSET DOMAIN rows
      BY <1>4
    <2>2. Apart(rows, ts)
      BY <1>3 DEF Apart
    <2> QED BY <2>1, <2>2, XorOfApart, CountOfApart
  <1>6. ASSUME NEW t \in nodes
        PROVE  s.counted + CountOf(rows, RunOf(rows, s, l, t)) = Set!Rank(S, t)
    <2>1. RunOf(rows, s, l, t) \in SUBSET nodes
      BY DEF RunOf
    <2>2. CountOf(rows, RunOf(rows, s, l, t)) = Cardinality({x \in S : s.from < x /\ x <= t})
      BY <1>3, <1>5, <2>1
    <2>3. t \in Nat /\ s.from <= t
      BY <1>2, <1>4
    <2>4. Set!Rank(S, t) = Set!Rank(S, s.from) + Cardinality({x \in S : s.from < x /\ x <= t})
      <3> HIDE DEF S
      <3> QED BY <1>1, <1>2, <2>3, RankBetween
    <2> QED BY <1>2, <2>2, <2>4
  <1>7. taken = {t \in nodes : Set!Rank(S, t) <= n}
    BY <1>6 DEF TakenOf
  <1> HIDE DEF nodes
  <1>8. /\ from \in taken \union {s.from} /\ \A t \in taken \union {s.from} : t <= from
    <2>1. taken \union {s.from} \subseteq 0 .. s.to /\ taken \union {s.from} # {}
      BY <1>2, <1>4, <1>7
    <2> HIDE DEF taken
    <2> QED BY <1>2, <2>1, MaxFacts
  <1>9. /\ to \in (nodes \ taken) \union {s.to} /\ \A t \in (nodes \ taken) \union {s.to} : to <= t
    <2>1. (nodes \ taken) \union {s.to} \subseteq Nat /\ (nodes \ taken) \union {s.to} # {}
      BY <1>2, <1>4
    <2> HIDE DEF taken
    <2> QED BY <2>1, MinFacts
  <1>10. Down(rows, n, s, l) = [from |-> from, to |-> to, counted |-> s.counted + CountOf(rows, taken),
                                h |-> SymDiff(s.h, XorOf(rows, taken))]
    BY DEF Down, nodes
  <1> HIDE DEF from, to, taken
  <1>11. /\ from \in Nat /\ from < s.to /\ s.from <= from
         /\ from = 0 \/ (from \in S /\ rows[from].l > l)
         /\ to \in Nat /\ to <= s.to
    <2>1. from \in Nat /\ from < s.to /\ s.from <= from
      BY <1>2, <1>4, <1>7, <1>8
    <2>2. CASE from \in taken
      BY <1>1, <1>2, <1>4, <1>7, <1>9, <2>1, <2>2
    <2>3. CASE from = s.from
      BY <1>1, <1>2, <1>4, <1>7, <1>9, <2>1, <2>3
    <2> QED BY <1>8, <2>2, <2>3
  <1>12. to = Infinite \/ (to \in S /\ Set!Rank(S, to) > n)
    <2>1. ASSUME NEW t \in nodes \ taken PROVE t \in S /\ Set!Rank(S, t) > n
      <3>1. t \in S /\ Set!Rank(S, t) \in Nat
        BY <1>1, <1>4, RankFacts
      <3> QED BY <1>7, <3>1
    <2> QED BY <1>2, <1>9, <2>1
  <1>13. from < to
    <2>1. Set!Rank(S, from) <= n
      BY <1>2, <1>7, <1>8
    <2>2. ASSUME NEW t \in nodes \ taken PROVE from < t
      <3>1. Set!Rank(S, t) \in Nat /\ Set!Rank(S, from) \in Nat /\ t \in S /\ t \in Nat
        BY <1>1, <1>4, <1>11, RankFacts
      <3>2. ~(Set!Rank(S, t) <= Set!Rank(S, from))
        BY <1>7, <2>1, <3>1
      <3>3. ~(t <= from)
        BY <1>1, <1>11, <3>1, <3>2, RankOrders
      <3> QED BY <1>11, <3>1, <3>3
    <2> QED BY <1>9, <1>11, <2>2
  <1>14. Together(rows, taken) = {x \in S : s.from < x /\ x <= from}
    <2>1. CASE from = s.from
      <3>1. taken = {}
        BY <1>2, <1>4, <1>7, <1>8, <2>1
      <3>2. {x \in S : s.from < x /\ x <= from} = {}
        BY <1>1, <1>2, <2>1
      <3> QED BY <3>1, <3>2 DEF Together
    <2>2. CASE from \in taken
      <3>1. from \in nodes /\ Set!Rank(S, from) <= n
        BY <1>7, <2>2
      <3>2. ASSUME NEW u \in nodes, u <= from PROVE u \in taken
        <4>1. Set!Rank(S, u) <= Set!Rank(S, from) /\ Set!Rank(S, u) \in Nat /\ Set!Rank(S, from) \in Nat
          BY <1>1, <1>4, <1>11, <3>2, RankFacts, RankOrders
        <4> QED BY <1>7, <3>1, <4>1
      <3>3. taken = RunOf(rows, s, l, from)
        <4>1. taken \subseteq nodes /\ \A u \in taken : u <= from
          BY <1>7, <1>8
        <4> QED BY <3>2, <4>1 DEF RunOf, nodes
      <3> QED BY <1>3, <3>1, <3>3
    <2> QED BY <1>8, <2>1, <2>2
  <1>15. /\ s.counted + CountOf(rows, taken) = Set!Rank(S, from) /\ Set!Rank(S, from) <= n
    <2>1. taken \in SUBSET nodes
      BY <1>7
    <2>2. CountOf(rows, taken) = Cardinality({x \in S : s.from < x /\ x <= from})
      BY <1>5, <1>14, <2>1
    <2>3. s.counted + CountOf(rows, taken) = Set!Rank(S, from)
      <3>1. Set!Rank(S, from) = Set!Rank(S, s.from) + Cardinality({x \in S : s.from < x /\ x <= from})
        <4> HIDE DEF S
        <4> QED BY <1>1, <1>2, <1>11, RankBetween
      <3> QED BY <1>2, <2>2, <3>1
    <2> QED BY <1>2, <1>7, <1>8, <2>3
  <1>16. SymDiff(s.h, XorOf(rows, taken)) = {u \in S : u <= from}
    <2>1. taken \in SUBSET nodes
      BY <1>7
    <2>2. XorOf(rows, taken) = {x \in S : s.from < x /\ x <= from}
      BY <1>5, <1>14, <2>1
    <2> QED BY <1>1, <1>2, <1>11, <2>2 DEF SymDiff
  <1>17. ASSUME NEW x \in S, from < x, x < to PROVE rows[x].l <= l
    <2>1. s.from < x /\ x < s.to
      BY <1>1, <1>2, <1>11, <1>17
    <2>2. rows[x].l <= l + 1
      BY <1>2, <2>1
    <2>3. rows[x].l # l + 1
      <3>1. SUFFICES ASSUME rows[x].l = l + 1 PROVE FALSE
        OBVIOUS
      <3>2. x \in nodes
        BY <2>1, <3>1 DEF nodes, NodesOf
      <3>3. x \in taken \/ x \in nodes \ taken
        BY <3>2
      <3> QED BY <1>1, <1>8, <1>9, <1>11, <1>17, <3>3
    <2> QED BY <1>1, <2>2, <2>3
  <1> DEFINE d == Down(rows, n, s, l)
  <1>18. /\ d.from = from /\ d.to = to /\ d.counted = s.counted + CountOf(rows, taken)
         /\ d.h = SymDiff(s.h, XorOf(rows, taken))
    BY <1>10
  <1> HIDE DEF d
  <1>19. Reached(rows, n, d, l)
    BY <1>11, <1>12, <1>13, <1>15, <1>16, <1>17, <1>18 DEF Reached
  <1> QED BY <1>19 DEF d

LEMMA DescentReaches ==
  ASSUME NEW rows, Summarised(rows), NEW n \in Nat
  PROVE  Reached(rows, n, Descent(rows, n), 0)
  <1>1. PICK at : /\ Descent(rows, n) = at[0] /\ at[MaxLevel] = Top
                  /\ \A l \in 0 .. MaxLevel - 1 : at[l] = Down(rows, n, at[l + 1], l)
    BY DescentByLevel
  <1>2. MaxLevel \in Nat /\ Infinite \in Nat \ {0}
    BY LevelAssumption, InfiniteAssumption
  <1>3. Reached(rows, n, Top, MaxLevel)
    <2>1. Top.from = 0 /\ Top.to = Infinite /\ Top.counted = 0 /\ Top.h = {}
      BY DEF Top
    <2>2. /\ Stored(rows) /\ DOMAIN rows \in SUBSET Timestamps
          /\ \A x \in DOMAIN rows : x \in Nat \ {0} /\ rows[x].l <= MaxLevel
      BY <1>2, RowFacts DEF Summarised, Stored
    <2>3. Set!Rank(DOMAIN rows, 0) = 0
      BY <2>2, RankFacts
    <2>4. {u \in DOMAIN rows : u <= 0} = {}
      BY <2>2
    <2> QED BY <1>2, <2>1, <2>2, <2>3, <2>4 DEF Reached
  <1> DEFINE Bad == {l \in 0 .. MaxLevel : ~Reached(rows, n, at[l], l)}
  <1>4. Bad = {}
    <2>1. SUFFICES ASSUME Bad # {} PROVE FALSE
      OBVIOUS
    <2>2. PICK k \in Bad : \A j \in Bad : j <= k
      <3>1. Bad \subseteq 0 .. MaxLevel
        OBVIOUS
      <3> HIDE DEF Bad
      <3>2. Max(Bad) \in Bad /\ \A j \in Bad : j <= Max(Bad)
        BY <1>2, <2>1, <3>1, MaxFacts
      <3> QED BY <3>2
    <2>3. k \in 0 .. MaxLevel /\ ~Reached(rows, n, at[k], k)
      BY <2>2
    <2>4. k # MaxLevel
      BY <1>1, <1>3, <2>3
    <2>5. k \in Nat /\ k + 1 \in 0 .. MaxLevel /\ k \in 0 .. MaxLevel - 1 /\ ~(k + 1 <= k)
      BY <1>2, <2>3, <2>4
    <2>6. Reached(rows, n, at[k + 1], k + 1)
      BY <2>2, <2>5
    <2>7. Reached(rows, n, Down(rows, n, at[k + 1], k), k)
      BY <2>5, <2>6, DownReaches
    <2> QED BY <1>1, <2>3, <2>5, <2>7
  <1>5. 0 \in 0 .. MaxLevel
    BY <1>2
  <1> QED BY <1>1, <1>4, <1>5

(* The descent to n stops at the n-th timestamp. *)
LEMMA DescentExact ==
  ASSUME NEW rows, Summarised(rows), NEW n \in Nat, n <= Cardinality(DOMAIN rows)
  PROVE  /\ Descent(rows, n).from \in Nat
         /\ n # 0 => Descent(rows, n).from \in DOMAIN rows
         /\ Set!Rank(DOMAIN rows, Descent(rows, n).from) = n
         /\ Descent(rows, n).h = {u \in DOMAIN rows : u <= Descent(rows, n).from}
  <1> DEFINE S == DOMAIN rows
             d == Descent(rows, n)
  <1>1. S \in SUBSET Timestamps /\ \A t \in S : t \in Nat /\ 0 < t /\ rows[t].l \in 1 .. MaxLevel /\ t < Infinite
    BY RowFacts DEF Summarised, Stored
  <1>2. Reached(rows, n, d, 0)
    BY DescentReaches
  <1> HIDE DEF d
  <1>3. /\ d.from \in Nat /\ d.to \in Nat /\ d.from < d.to
        /\ d.from = 0 \/ d.from \in S
        /\ d.to = Infinite \/ (d.to \in S /\ Set!Rank(S, d.to) > n)
        /\ Set!Rank(S, d.from) <= n
        /\ d.h = {u \in S : u <= d.from}
        /\ \A x \in S : d.from < x /\ x < d.to => rows[x].l <= 0
    BY <1>2 DEF Reached
  <1>4. \A x \in S : d.from < x => d.to <= x
    BY <1>1, <1>3, LevelAssumption
  <1>5. Set!Rank(S, d.from) \in Nat /\ Cardinality(S) \in Nat
    BY <1>1, <1>3, RankFacts
  <1>6. Set!Rank(S, d.from) = n
    <2>1. CASE d.to \in S /\ Set!Rank(S, d.to) > n
      <3>1. Set!Rank(S, d.to) = Set!Rank(S, d.from) + 1
        BY <1>1, <1>3, <1>4, <2>1, RankNext
      <3> QED BY <1>3, <1>5, <2>1, <3>1
    <2>2. CASE d.to = Infinite
      <3>1. {u \in S : u <= d.from} = S
        BY <1>1, <1>3, <1>4, <2>2, InfiniteAssumption
      <3>2. Set!Rank(S, d.from) = Cardinality(S)
        BY <3>1, RankIs
      <3> QED BY <1>3, <1>5, <3>2
    <2> QED BY <1>3, <2>1, <2>2
  <1>7. n # 0 => d.from # 0
    BY <1>1, <1>6, RankFacts
  <1> QED BY <1>3, <1>6, <1>7 DEF d

-----------------------------------------------------------------------------
(* The queries. *)
LEMMA SizeExact ==
  ASSUME NEW rows, Summarised(rows)
  PROVE  /\ SizeOf(rows) = Cardinality(DOMAIN rows) /\ Cardinality(DOMAIN rows) \in Nat
         /\ SizeOf(rows) = Set!Size(DOMAIN rows)
         /\ \A t \in Nat : TimestampCount(rows, t) = Set!Rank(DOMAIN rows, t)
  <1>1. /\ DOMAIN rows \in SUBSET Timestamps /\ Infinite \in Nat
        /\ \A x \in DOMAIN rows : x \in Nat /\ x < Infinite
    BY RowFacts, InfiniteAssumption DEF Summarised, Stored
  <1>2. {x \in DOMAIN rows : x < Infinite} = DOMAIN rows
    BY <1>1
  <1>3. SizeOf(rows) = Cardinality({x \in DOMAIN rows : x < Infinite})
    BY <1>1, WholeWalk DEF SizeOf
  <1>4. Set!Size(DOMAIN rows) = Cardinality(DOMAIN rows)
    <2>1. Set!Size(DOMAIN rows) = Set!Cardinality(DOMAIN rows)
      BY DEF Set!Size
    <2> QED BY <2>1, SameCardinality
  <1>5. ASSUME NEW t \in Nat PROVE TimestampCount(rows, t) = Set!Rank(DOMAIN rows, t)
    <2>1. t + 1 \in Nat
      OBVIOUS
    <2>2. TimestampCount(rows, t) = Cardinality({x \in DOMAIN rows : x < t + 1})
      BY <2>1, WholeWalk DEF TimestampCount
    <2>3. {x \in DOMAIN rows : x < t + 1} = {x \in DOMAIN rows : x <= t}
      BY <1>1
    <2> QED BY <2>2, <2>3, RankIs
  <1>6. Cardinality(DOMAIN rows) \in Nat
    BY <1>1, FiniteTimestamps
  <1> QED BY <1>2, <1>3, <1>4, <1>5, <1>6

LEMMA IndexExact ==
  ASSUME NEW rows, Summarised(rows), NEW i \in Nat, i < Cardinality(DOMAIN rows)
  PROVE  /\ GetTimestampByIndex(rows, i) = Set!TimestampAt(DOMAIN rows, i)
         /\ Set!TimestampAt(DOMAIN rows, i) \in DOMAIN rows
         /\ Set!Rank(DOMAIN rows, Set!TimestampAt(DOMAIN rows, i)) = i + 1
  <1> DEFINE S == DOMAIN rows
             t == Descent(rows, i + 1).from
  <1>1. S \in SUBSET Timestamps /\ Cardinality(S) \in Nat
    BY FiniteTimestamps DEF Summarised, Stored
  <1>2. t \in Nat /\ t \in S /\ Set!Rank(S, t) = i + 1
    <2>1. i + 1 \in Nat /\ i + 1 <= Cardinality(S) /\ i + 1 # 0
      BY <1>1
    <2> QED BY <2>1, DescentExact
  <1> DEFINE u == CHOOSE u \in S : Set!Rank(S, u) = i + 1
  <1>3. u \in S /\ Set!Rank(S, u) = i + 1
    <2> HIDE DEF S, t
    <2> QED BY <1>2, Zenon
  <1>4. Set!TimestampAt(S, i) = u
    BY Zenon DEF Set!TimestampAt
  <1> HIDE DEF u, t, S
  <1>5. u \in Nat
    BY <1>1, <1>3, FiniteTimestamps
  <1>6. t = u
    BY <1>1, <1>2, <1>3, <1>5, RankOrders
  <1>7. GetTimestampByIndex(rows, i) = t
    BY DEF GetTimestampByIndex, t
  <1> QED BY <1>3, <1>4, <1>6, <1>7 DEF S

LEMMA SliceIs ==
  ASSUME NEW S, NEW begin, NEW end
  PROVE  /\ Set!Slice(S, begin, end) = {t \in S : Set!Rank(S, t) > begin /\ Set!Rank(S, t) <= end}
         /\ Set!Fingerprint(S, begin, end) = {t \in S : Set!Rank(S, t) > begin /\ Set!Rank(S, t) <= end}
  BY Zenon DEF Set!Slice, Set!Fingerprint

(* What the descent has met are the timestamps of the first ranks. *)
LEMMA DescentSlices ==
  ASSUME NEW rows, Summarised(rows), NEW n \in Nat, n <= Cardinality(DOMAIN rows)
  PROVE  /\ Descent(rows, n).h = {t \in DOMAIN rows : Set!Rank(DOMAIN rows, t) <= n}
         /\ Cardinality({t \in DOMAIN rows : Set!Rank(DOMAIN rows, t) <= n}) = n
  <1> DEFINE S == DOMAIN rows
             d == Descent(rows, n)
  <1>1. S \in SUBSET Timestamps
    BY DEF Summarised, Stored
  <1>2. d.from \in Nat /\ Set!Rank(S, d.from) = n /\ d.h = {u \in S : u <= d.from}
    BY DescentExact
  <1> HIDE DEF d, S
  <1>3. \A u \in S : Set!Rank(S, u) <= n <=> u <= d.from
    BY <1>1, <1>2, RankOrders
  <1>4. {u \in S : u <= d.from} = {u \in S : Set!Rank(S, u) <= n}
    BY <1>3, Zenon
  <1>5. Cardinality({u \in S : u <= d.from}) = n
    BY <1>2, RankIs
  <1>6. d.h = {u \in S : Set!Rank(S, u) <= n} /\ Cardinality({u \in S : Set!Rank(S, u) <= n}) = n
    BY <1>2, <1>4, <1>5
  <1> QED BY <1>6 DEF S, d

LEMMA FingerprintExact ==
  ASSUME NEW rows, Summarised(rows), NEW begin \in Nat, NEW end \in Nat, begin <= end,
         end <= Cardinality(DOMAIN rows)
  PROVE  FingerprintOf(rows, begin, end) = Set!Fingerprint(DOMAIN rows, begin, end)
  <1> DEFINE S == DOMAIN rows
  <1>1. /\ S \in SUBSET Timestamps /\ Cardinality(S) \in Nat /\ begin <= Cardinality(S)
        /\ \A t \in S : Set!Rank(S, t) \in Nat
    <2>1. S \in SUBSET Timestamps /\ Cardinality(S) \in Nat /\ \A t \in S : t \in Nat
      BY FiniteTimestamps DEF Summarised, Stored
    <2>2. begin <= Cardinality(S)
      <3>1. end <= Cardinality(S)
        OBVIOUS
      <3> HIDE DEF S
      <3> QED BY <2>1, <3>1
    <2> HIDE DEF S
    <2>3. ASSUME NEW t \in S PROVE Set!Rank(S, t) \in Nat
      BY <2>1, RankFacts
    <2> QED BY <2>1, <2>2, <2>3
  <1>2. /\ Descent(rows, end).h = {t \in S : Set!Rank(S, t) <= end}
        /\ Descent(rows, begin).h = {t \in S : Set!Rank(S, t) <= begin}
    BY <1>1, DescentSlices
  <1>3. Set!Fingerprint(S, begin, end) = {t \in S : Set!Rank(S, t) > begin /\ Set!Rank(S, t) <= end}
    BY SliceIs
  <1> HIDE DEF S
  <1>4. CASE begin = end
    <2>1. FingerprintOf(rows, begin, end) = {}
      BY <1>4 DEF FingerprintOf
    <2>2. \A t \in S : ~(Set!Rank(S, t) > begin /\ Set!Rank(S, t) <= end)
      BY <1>1, <1>4
    <2>3. {t \in S : Set!Rank(S, t) > begin /\ Set!Rank(S, t) <= end} = {}
      BY <2>2, Zenon
    <2> QED BY <1>3, <2>1, <2>3 DEF S
  <1>5. CASE begin # end /\ begin = 0
    <2>1. FingerprintOf(rows, begin, end) = Descent(rows, end).h
      BY <1>5 DEF FingerprintOf, FingerprintRange
    <2>2. \A t \in S : Set!Rank(S, t) > begin
      <3>1. \A t \in S : t \in Nat /\ 0 < t
        BY <1>1, FiniteTimestamps, TimestampsAssumption
      <3>2. Set!Rank(S, 0) = 0
        BY <1>1, RankFacts
      <3>3. \A t \in S : ~(Set!Rank(S, t) <= Set!Rank(S, 0))
        BY <1>1, <3>1, RankOrders
      <3> QED BY <1>1, <1>5, <3>2, <3>3
    <2>3. {t \in S : Set!Rank(S, t) > begin /\ Set!Rank(S, t) <= end} = {t \in S : Set!Rank(S, t) <= end}
      BY <2>2, Zenon
    <2> QED BY <1>2, <1>3, <2>1, <2>3 DEF S
  <1>6. CASE begin # end /\ begin # 0
    <2>1. FingerprintOf(rows, begin, end) = SymDiff(Descent(rows, end).h, Descent(rows, begin).h)
      BY <1>6 DEF FingerprintOf, FingerprintRange
    <2>2. \A t \in S : /\ Set!Rank(S, t) <= begin => Set!Rank(S, t) <= end
                       /\ Set!Rank(S, t) > begin <=> ~(Set!Rank(S, t) <= begin)
      BY <1>1
    <2>3. SymDiff({t \in S : Set!Rank(S, t) <= end}, {t \in S : Set!Rank(S, t) <= begin})
            = {t \in S : Set!Rank(S, t) > begin /\ Set!Rank(S, t) <= end}
      BY <2>2, Zenon DEF SymDiff
    <2> QED BY <1>2, <1>3, <2>1, <2>3 DEF S
  <1> QED BY <1>4, <1>5, <1>6

LEMMA BucketExact ==
  ASSUME NEW rows, Summarised(rows), NEW begin \in Nat, NEW end \in Nat, 0 < begin, begin < end,
         end <= Cardinality(DOMAIN rows)
  PROVE  LET first == FingerprintRange(rows, <<begin, end>>, 1)
         IN  /\ first.fingerprint = Set!Fingerprint(DOMAIN rows, 0, begin)
             /\ first.upperBound = Set!TimestampAt(DOMAIN rows, begin)
  <1> DEFINE S == DOMAIN rows
             first == FingerprintRange(rows, <<begin, end>>, 1)
             from == Descent(rows, begin).from
             later == {t \in S : t > from}
             u == Set!TimestampAt(S, begin)
  <1>1. /\ S \in SUBSET Timestamps /\ Cardinality(S) \in Nat /\ \A t \in S : t \in Nat
        /\ begin < Cardinality(S) /\ 0 <= begin /\ begin # 0
    BY FiniteTimestamps DEF Summarised, Stored
  <1>2. first.fingerprint = Descent(rows, begin).h /\ first.upperBound = Min(later)
    BY DEF FingerprintRange
  <1>3. first.fingerprint = Set!Fingerprint(S, 0, begin)
    <2>1. FingerprintOf(rows, 0, begin) = Descent(rows, begin).h
      BY <1>1 DEF FingerprintOf, FingerprintRange
    <2>2. FingerprintOf(rows, 0, begin) = Set!Fingerprint(S, 0, begin)
      BY <1>1, FingerprintExact
    <2> QED BY <1>2, <2>1, <2>2
  <1>4. u \in S /\ Set!Rank(S, u) = begin + 1
    BY <1>1, IndexExact
  <1>5. from \in Nat /\ Set!Rank(S, from) = begin
    BY <1>1, DescentExact
  <1> HIDE DEF from, u, S
  <1>6. from < u
    <2>1. ~(Set!Rank(S, u) <= Set!Rank(S, from)) /\ u \in Nat
      BY <1>1, <1>4, <1>5
    <2>2. ~(u <= from)
      BY <1>1, <1>4, <1>5, <2>1, RankOrders
    <2> QED BY <1>5, <2>1, <2>2
  <1>7. ASSUME NEW x \in S, x > from PROVE u <= x
    <2>1. x \in Nat /\ Set!Rank(S, x) \in Nat
      BY <1>1, RankFacts
    <2>2. Set!Rank(S, from) < Set!Rank(S, x)
      <3>1. ~(x <= from)
        BY <1>5, <1>7, <2>1
      <3>2. ~(Set!Rank(S, x) <= Set!Rank(S, from))
        BY <1>1, <1>5, <3>1, RankOrders
      <3> QED BY <1>5, <2>1, <3>2
    <2>3. Set!Rank(S, u) <= Set!Rank(S, x)
      BY <1>4, <1>5, <2>1, <2>2
    <2> QED BY <1>1, <1>4, <2>1, <2>3, RankOrders
  <1>8. Min(later) = u
    <2>1. later \in SUBSET Timestamps /\ u \in later /\ \A x \in later : u <= x
      BY <1>1, <1>4, <1>5, <1>6, <1>7
    <2> HIDE DEF later
    <2> QED BY <2>1, MinIs
  <1>9. first.fingerprint = Set!Fingerprint(DOMAIN rows, 0, begin)
        /\ first.upperBound = Set!TimestampAt(DOMAIN rows, begin)
    BY <1>2, <1>3, <1>8 DEF S, u
  <1> QED BY <1>9

LEMMA LowerBoundExact ==
  ASSUME NEW rows, Summarised(rows), NEW begin \in Nat, begin <= Cardinality(DOMAIN rows),
         NEW bound \in Timestamps \union {Infinite},
         \A t \in Set!Slice(DOMAIN rows, 0, begin) : t < bound
  PROVE  FindLowerBound(rows, begin, Cardinality(DOMAIN rows), bound)
           = Set!LowerBound(DOMAIN rows, begin, Cardinality(DOMAIN rows), bound)
  <1> DEFINE S == DOMAIN rows
             n == Cardinality(S)
             below == {t \in S : t < bound}
             A == {t \in S : Set!Rank(S, t) <= begin}
             B == {t \in Set!Slice(S, begin, n) : t < bound}
  <1>1. /\ S \in SUBSET Timestamps /\ n \in Nat /\ bound \in Nat
        /\ \A t \in S : /\ t \in Nat /\ 0 < t /\ t < Infinite
                        /\ Set!Rank(S, t) \in Nat /\ Set!Rank(S, t) > 0 /\ Set!Rank(S, t) <= n
    <2>1. /\ S \in SUBSET Timestamps /\ n \in Nat /\ bound \in Nat
          /\ \A t \in S : t \in Nat /\ 0 < t /\ t < Infinite
      BY FiniteTimestamps, TimestampsAssumption, InfiniteAssumption, RowFacts DEF Summarised, Stored
    <2>2. \A t \in S : Set!Rank(S, t) \in Nat /\ Set!Rank(S, t) <= n
      BY <2>1, RankFacts
    <2>3. ASSUME NEW t \in S PROVE Set!Rank(S, t) > 0
      <3>1. ~(t <= 0)
        BY <2>1
      <3>2. ~(Set!Rank(S, t) <= Set!Rank(S, 0)) /\ Set!Rank(S, 0) = 0
        BY <2>1, <3>1, RankOrders, RankFacts
      <3> QED BY <2>2, <3>2
    <2> QED BY <2>1, <2>2, <2>3
  <1>2. Cardinality(A) = begin
    BY DescentSlices
  <1>3. \A t \in A : t < bound
    <2>1. Set!Slice(S, 0, begin) = {t \in S : Set!Rank(S, t) > 0 /\ Set!Rank(S, t) <= begin}
      BY SliceIs
    <2> QED BY <1>1, <2>1
  <1>4. B = {t \in S : Set!Rank(S, t) > begin /\ t < bound}
    <2>1. Set!Slice(S, begin, n) = {t \in S : Set!Rank(S, t) > begin /\ Set!Rank(S, t) <= n}
      BY SliceIs
    <2> QED BY <1>1, <2>1
  <1>5. below = A \union B /\ A \intersect B = {} /\ A \in SUBSET Timestamps /\ B \in SUBSET Timestamps
    BY <1>1, <1>3, <1>4
  <1>6. Cardinality(below) = begin + Cardinality(B)
    <2> HIDE DEF A, B, below
    <2> QED BY <1>2, <1>5, DisjointUnion
  <1>7. Set!LowerBound(S, begin, n, bound) = IF begin = n THEN n ELSE Cardinality(below)
    <2>1. Set!LowerBound(S, begin, n, bound) = IF begin = n THEN n ELSE begin + Set!Cardinality(B)
      BY Zenon DEF Set!LowerBound
    <2> HIDE DEF B, below
    <2> QED BY <1>6, <2>1, SameCardinality
  <1> DEFINE notBelow == {t \in S : t >= bound}
  <1>8. FindLowerBound(rows, begin, n, bound)
          = IF n = 0 \/ begin = n \/ bound = Infinite \/ notBelow = {} THEN n
            ELSE TimestampCount(rows, Min(notBelow)) - 1
    BY DEF FindLowerBound
  <1>9. bound = Infinite \/ notBelow = {} => Cardinality(below) = n
    <2>1. bound = Infinite \/ notBelow = {} => below = S
      BY <1>1
    <2> QED BY <2>1
  <1>10. ASSUME notBelow # {} PROVE TimestampCount(rows, Min(notBelow)) - 1 = Cardinality(below)
    <2> DEFINE m == Min(notBelow)
    <2>1. m \in notBelow /\ \A t \in notBelow : m <= t
      <3>1. notBelow \subseteq Nat
        BY <1>1
      <3> HIDE DEF notBelow
      <3> QED BY <1>10, <3>1, MinFacts
    <2> HIDE DEF m
    <2>2. m \in S /\ m \in Nat /\ m >= bound
      BY <1>1, <2>1
    <2>3. TimestampCount(rows, m) = Set!Rank(S, m) /\ Set!Rank(S, m) = Cardinality({t \in S : t <= m})
      BY <2>2, SizeExact, RankIs
    <2>4. {t \in S : t <= m} = below \union {m} /\ m \notin below
      <3>1. ASSUME NEW t \in S PROVE t <= m <=> t < bound \/ t = m
        <4>1. t < bound => t <= m
          BY <1>1, <2>2
        <4>2. t <= m /\ ~(t < bound) => t = m
          <5>1. ~(t < bound) => t \in notBelow
            BY <1>1
          <5>2. ~(t < bound) => m <= t
            BY <2>1, <5>1
          <5> QED BY <1>1, <2>2, <5>2
        <4> QED BY <1>1, <2>2, <4>1, <4>2
      <3>2. m \notin below
        BY <1>1, <2>2
      <3> QED BY <2>2, <3>1, <3>2
    <2>5. IsFiniteSet(below) /\ Cardinality(below) \in Nat
      <3>1. below \in SUBSET Timestamps
        BY <1>1
      <3> HIDE DEF below
      <3> QED BY <3>1, FiniteTimestamps
    <2>6. Cardinality({t \in S : t <= m}) = Cardinality(below) + 1
      <3>1. Cardinality(below \union {m}) = Cardinality(below) + 1
        <4> HIDE DEF below
        <4> QED BY <2>4, <2>5, FS_AddElement
      <3> QED BY <2>4, <3>1
    <2>7. TimestampCount(rows, m) = Cardinality(below) + 1
      BY <2>3, <2>6
    <2> HIDE DEF below
    <2>8. TimestampCount(rows, m) - 1 = Cardinality(below)
      BY <2>5, <2>7
    <2> QED BY <2>8 DEF m
  <1>11. n = 0 => begin = n
    BY <1>1
  <1> HIDE DEF below, notBelow
  <1>12. FindLowerBound(rows, begin, n, bound) = Set!LowerBound(S, begin, n, bound)
    <2>1. CASE n = 0 \/ begin = n
      BY <1>7, <1>8, <1>11, <2>1
    <2>2. CASE ~(n = 0 \/ begin = n) /\ (bound = Infinite \/ notBelow = {})
      BY <1>7, <1>8, <1>9, <2>2
    <2>3. CASE ~(n = 0 \/ begin = n) /\ ~(bound = Infinite \/ notBelow = {})
      BY <1>7, <1>8, <1>10, <2>3
    <2> QED BY <2>1, <2>2, <2>3
  <1> QED BY <1>12

(* getSize, getTimestampByIndex, findLowerBound, fingerprint and fingerprintRanges answer
   as that set does, from the rows as the insertions left them. *)
THEOREM QueriesStayExact == Spec => []QueriesExact
  <1>1. ListInv => QueriesExact
    <2> SUFFICES ASSUME ListInv PROVE QueriesExact
      OBVIOUS
    <2> DEFINE S == DOMAIN index
               n == SizeOf(index)
    <2>1. Summarised(index)
      BY SummarisedIndex DEF ListInv
    <2>2. n = Set!Size(S) /\ n = Cardinality(S) /\ n \in Nat
      BY <2>1, SizeExact
    <2> HIDE DEF n
    <2>3. ASSUME NEW i \in 0 .. n - 1 PROVE GetTimestampByIndex(index, i) = Set!TimestampAt(S, i)
      <3>1. i \in Nat /\ i < Cardinality(S)
        BY <2>2
      <3> QED BY <2>1, <3>1, IndexExact
    <2>4. ASSUME NEW begin \in 0 .. n, NEW bound \in Timestamps \union {Infinite},
                 \A t \in Set!Slice(S, 0, begin) : t < bound
          PROVE  FindLowerBound(index, begin, n, bound) = Set!LowerBound(S, begin, n, bound)
      <3>1. begin \in Nat /\ begin <= Cardinality(S)
        BY <2>2
      <3>2. FindLowerBound(index, begin, Cardinality(S), bound)
              = Set!LowerBound(S, begin, Cardinality(S), bound)
        BY <2>1, <2>4, <3>1, LowerBoundExact
      <3> QED BY <2>2, <3>2
    <2>5. ASSUME NEW begin \in 0 .. n, NEW end \in begin .. n
          PROVE  /\ FingerprintOf(index, begin, end) = Set!Fingerprint(S, begin, end)
                 /\ 0 < begin /\ begin < end =>
                      LET first == FingerprintRange(index, <<begin, end>>, 1)
                      IN  /\ first.fingerprint = Set!Fingerprint(S, 0, begin)
                          /\ first.upperBound = Set!TimestampAt(S, begin)
      <3>1. begin \in Nat /\ end \in Nat /\ begin <= end /\ end <= Cardinality(S)
        BY <2>2
      <3>2. FingerprintOf(index, begin, end) = Set!Fingerprint(S, begin, end)
        BY <2>1, <3>1, FingerprintExact
      <3> QED BY <2>1, <3>1, <3>2, BucketExact
    <2> QED BY <2>2, <2>3, <2>4, <2>5 DEF QueriesExact, n
  <1> QED BY <1>1, ListAlways, PTL

-----------------------------------------------------------------------------
(* The answers are those of the timestamps that have a row. *)
LEMMA AnswersExact ==
  ASSUME NEW rows, Summarised(rows)
  PROVE  Answers(rows) = Set!Answers(DOMAIN rows)
  <1> DEFINE S == DOMAIN rows
             n == SizeOf(rows)
  <1>1. S \in SUBSET Timestamps /\ \A t \in S : t \in Nat /\ 0 < t
    <2>1. S \in SUBSET Timestamps
      BY DEF Summarised, Stored
    <2> HIDE DEF S
    <2> QED BY <2>1, TimestampsAssumption
  <1>2. n = Set!Size(S) /\ n = Cardinality(S) /\ n \in Nat
    BY SizeExact
  <1>3. FingerprintOf(rows, 0, n) = Set!Fingerprint(S, 0, n)
    <2>1. 0 \in Nat /\ n \in Nat /\ 0 <= n /\ n <= Cardinality(S)
      BY <1>2
    <2> HIDE DEF n
    <2> QED BY <2>1, FingerprintExact
  <1>4. ASSUME NEW i \in 0 .. n - 1 PROVE GetTimestampByIndex(rows, i) = Set!TimestampAt(S, i)
    <2>1. i \in Nat /\ i < Cardinality(S)
      BY <1>2, <1>4
    <2> QED BY <2>1, IndexExact
  <1> HIDE DEF S, n
  <1>5. Set!Fingerprint(S, 0, n) = S
    <2>1. \A t \in S : /\ Set!Rank(S, t) \in Nat /\ Set!Rank(S, t) <= n
                      /\ Set!Rank(S, 0) = 0
      BY <1>1, <1>2, RankFacts
    <2>2. \A t \in S : ~(Set!Rank(S, t) <= Set!Rank(S, 0))
      BY <1>1, RankOrders
    <2>3. \A t \in S : Set!Rank(S, t) > 0 /\ Set!Rank(S, t) <= n
      BY <2>1, <2>2
    <2> QED BY <2>3, SliceIs
  <1>6. [i \in 0 .. n - 1 |-> GetTimestampByIndex(rows, i)]
          = [i \in 0 .. Set!Size(S) - 1 |-> Set!TimestampAt(S, i)]
    BY <1>2, <1>4
  <1> QED BY <1>3, <1>5, <1>6 DEF Answers, Set!Answers, S, n

(* insertTimestamp and deleteOwner, with all they do to rows, change the fingerprint and the
   timestamps by index that are read from the rows as the insertion into a set and its
   emptying do; inserting a timestamp again changes neither. *)
THEOREM ListIsASet == Spec => ImplementsSet
  <1>1. Init => Set!Init(Answers(index))
    <2> SUFFICES ASSUME Init PROVE Set!Init(Answers(index))
      OBVIOUS
    <2>1. Summarised(index) /\ DOMAIN index = {}
      BY ListInit, SummarisedIndex, EmptyList DEF ListInv, Init
    <2> QED BY <2>1, AnswersExact DEF Set!Init
  <1>2. ListInv /\ [Next]_vars => [Set!Next(Answers(index), Answers(index'))]_vars
    <2> SUFFICES ASSUME ListInv, Next
                 PROVE  Set!Next(Answers(index), Answers(index')) \/ UNCHANGED vars
      OBVIOUS
    <2>1. Summarised(index) /\ Summarised(index')
      <3>1. RowsSummarise /\ RowsSummarise'
        BY ListStep DEF ListInv
      <3> QED BY <3>1 DEF RowsSummarise, TypeOK, Summarised, Stored, Covered
    <2>2. /\ Answers(index) = Set!Answers(DOMAIN index)
          /\ Answers(index') = Set!Answers(DOMAIN index')
      BY <2>1, AnswersExact
    <2>3. Answers(index).fingerprint = DOMAIN index
      BY <2>2 DEF Set!Answers
    <2>4. CASE DOMAIN index' = {}
      BY <2>2, <2>4 DEF Set!Next, Set!DeleteOwner
    <2>5. ASSUME NEW t \in Timestamps, DOMAIN index' = DOMAIN index \union {t}
          PROVE  Set!Next(Answers(index), Answers(index'))
      <3>1. Answers(index') = Set!Answers(Answers(index).fingerprint \union {t})
        BY <2>2, <2>3, <2>5
      <3> QED BY <3>1 DEF Set!Next, Set!Insert
    <2> QED BY <2>4, <2>5, ListStep
  <1> QED BY <1>1, <1>2, ListAlways, PTL DEF Spec, ImplementsSet
=============================================================================
