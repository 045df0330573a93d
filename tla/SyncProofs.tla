----------------------------- MODULE SyncProofs -----------------------------
(***************************************************************************)
(* Theorems about Sync and Reconciliation.                                 *)
(***************************************************************************)
EXTENDS Sync, FiniteSetTheorems, SequenceTheorems, TLAPS

(* The number of timestamps of S below b. *)
Count(S, b) == Cardinality({t \in S : t < b})

-----------------------------------------------------------------------------
(* Counting the timestamps of a set. *)

LEMMA LeastNatural ==
  ASSUME NEW T, T \subseteq Nat, T # {}
  PROVE  \E m \in T : \A n \in T : m <= n
  <1> DEFINE R == OpToRel(<, Nat)
  <1>1. IsWellFoundedOn(R, Nat)
    BY NatLessThanWellFounded, Zenon
  <1> HIDE DEF R
  <1>2. PICK m \in T : \A n \in T : ~(<<n, m>> \in R)
    BY <1>1, WFMin
  <1>3. \A n \in T : ~(n < m)
    BY <1>2, Zenon DEF R, OpToRel
  <1> QED BY <1>3

LEMMA StoresAreFinite ==
  ASSUME NEW S \in SUBSET Timestamps
  PROVE  IsFiniteSet(S)
  <1>1. IsFiniteSet(0 .. Infinite)
    BY FS_Interval, InfiniteAssumption
  <1>2. S \subseteq 0 .. Infinite
    BY TimestampsAssumption, InfiniteAssumption
  <1> QED BY <1>1, <1>2, FS_Subset

LEMMA CountType ==
  ASSUME NEW S \in SUBSET Timestamps, NEW b
  PROVE  /\ Count(S, b) \in Nat
         /\ Cardinality(S) \in Nat
         /\ Count(S, b) <= Cardinality(S)
  <1>1. IsFiniteSet(S) /\ IsFiniteSet({t \in S : t < b})
    BY StoresAreFinite
  <1> QED BY <1>1, FS_CardinalityType, FS_Subset DEF Count

(* A timestamp of S is below b exactly when there are fewer below it. *)
LEMMA CountOrder ==
  ASSUME NEW S \in SUBSET Timestamps, NEW b \in Nat, NEW t \in S
  PROVE  /\ t < b <=> Count(S, t) < Count(S, b)
         /\ Rank(S, t) = Count(S, t) + 1
  <1> DEFINE A == {u \in S : u < t}
             B == {u \in S : u < b}
             C == {u \in S : u <= t}
  <1>1. IsFiniteSet(A) /\ IsFiniteSet(B)
    BY StoresAreFinite
  <1>2. t \in Nat /\ \A u \in S : u \in Nat
    BY TimestampsAssumption
  <1>3. C = A \union {t} /\ t \notin A
    <2>1. \A u \in S : u <= t <=> (u < t \/ u = t)
      BY <1>2
    <2>2. ~(t < t)
      BY <1>2
    <2>3. C = A \union {t}
      BY <2>1
    <2> QED BY <2>2, <2>3
  <1>4. Cardinality(C) = Cardinality(A) + 1
    BY <1>1, <1>3, FS_AddElement
  <1>5. Cardinality(A) \in Nat /\ Cardinality(B) \in Nat
    BY <1>1, FS_CardinalityType
  <1>6. CASE t < b
    <2>1. C \subseteq B
      <3>1. \A u \in S : u <= t => u < b
        BY <1>2, <1>6
      <3> QED BY <3>1
    <2>2. Cardinality(C) <= Cardinality(B)
      BY <1>1, <2>1, FS_Subset
    <2> QED BY <1>4, <1>5, <1>6, <2>2 DEF Count, Rank
  <1>7. CASE ~(t < b)
    <2>1. B \subseteq A
      <3>1. \A u \in S : u < b => u < t
        BY <1>2, <1>7
      <3> QED BY <3>1
    <2>2. Cardinality(B) <= Cardinality(A)
      BY <1>1, <2>1, FS_Subset
    <2> QED BY <1>4, <1>5, <1>7, <2>2 DEF Count, Rank
  <1> QED BY <1>6, <1>7

LEMMA CountEnds ==
  ASSUME NEW S \in SUBSET Timestamps
  PROVE  Count(S, 0) = 0 /\ Count(S, Infinite) = Cardinality(S)
  <1>1. \A t \in S : ~(t < 0) /\ t < Infinite
    BY TimestampsAssumption, InfiniteAssumption
  <1>2. {t \in S : t < 0} = {} /\ {t \in S : t < Infinite} = S
    BY <1>1
  <1> QED BY <1>2, FS_EmptySet DEF Count

(* What lies between two bounds is what lies between their indexes. *)
LEMMA SliceIsInterval ==
  ASSUME NEW S \in SUBSET Timestamps, NEW lo \in Nat, NEW hi \in Nat
  PROVE  Slice(S, Count(S, lo), Count(S, hi)) = {t \in S : lo <= t /\ t < hi}
  <1>1. \A t \in S : /\ t \in Nat /\ Count(S, t) \in Nat
                     /\ Rank(S, t) = Count(S, t) + 1
                     /\ t < lo <=> Count(S, t) < Count(S, lo)
                     /\ t < hi <=> Count(S, t) < Count(S, hi)
    BY CountOrder, CountType, TimestampsAssumption
  <1>2. Count(S, lo) \in Nat /\ Count(S, hi) \in Nat
    BY CountType
  <1> QED BY <1>1, <1>2 DEF Slice

(* The timestamps between two bounds are counted by the difference. *)
LEMMA CountBetween ==
  ASSUME NEW S \in SUBSET Timestamps, NEW lo \in Nat, NEW hi \in Nat, lo <= hi
  PROVE  /\ Cardinality({t \in S : lo <= t /\ t < hi}) = Count(S, hi) - Count(S, lo)
         /\ Count(S, lo) <= Count(S, hi)
  <1> DEFINE A == {t \in S : t < lo}
             B == {t \in S : lo <= t /\ t < hi}
             C == {t \in S : t < hi}
  <1>1. IsFiniteSet(A) /\ IsFiniteSet(B) /\ IsFiniteSet(C)
    BY StoresAreFinite
  <1>0. \A t \in S : t \in Nat
    BY TimestampsAssumption
  <1>2. A \union B = C /\ A \intersect B = {}
    <2>1. \A t \in S : (t < lo \/ (lo <= t /\ t < hi)) <=> t < hi
      BY <1>0
    <2>2. \A t \in S : ~(t < lo /\ lo <= t /\ t < hi)
      BY <1>0
    <2> QED BY <2>1, <2>2
  <1>3. /\ Cardinality(A) \in Nat /\ Cardinality(B) \in Nat /\ Cardinality(C) \in Nat
        /\ Cardinality(A \union B) = Cardinality(A) + Cardinality(B) - Cardinality(A \intersect B)
        /\ Cardinality(A \intersect B) = 0
    BY <1>1, <1>2, FS_Union, FS_CardinalityType, FS_EmptySet
  <1>4. Cardinality(B) = Cardinality(C) - Cardinality(A) /\ Cardinality(A) <= Cardinality(C)
    <2> HIDE DEF A, B, C
    <2>1. Cardinality(A \union B) = Cardinality(C)
      BY <1>2, Zenon
    <2> QED BY <2>1, <1>3
  <1> QED BY <1>4 DEF Count

(* The binary search of findLowerBound counts what is below its bound. *)
LEMMA LowerBoundCounts ==
  ASSUME NEW S \in SUBSET Timestamps, NEW lo \in Nat, NEW b \in 0 .. Infinite, lo <= b
  PROVE  LowerBound(S, Count(S, lo), Size(S), b) = Count(S, b)
  <1> b \in Nat /\ Infinite \in Nat
    BY InfiniteAssumption
  <1>1. Slice(S, Count(S, lo), Size(S)) = {t \in S : lo <= t /\ t < Infinite}
    BY SliceIsInterval, CountEnds DEF Size
  <1>2. {t \in Slice(S, Count(S, lo), Size(S)) : t < b} = {t \in S : lo <= t /\ t < b}
    BY <1>1, InfiniteAssumption
  <1>3. /\ Cardinality({t \in S : lo <= t /\ t < b}) = Count(S, b) - Count(S, lo)
        /\ Count(S, lo) <= Count(S, b)
    BY CountBetween
  <1>4. Count(S, lo) \in Nat /\ Count(S, b) \in Nat /\ Count(S, b) <= Size(S)
    BY CountType DEF Size
  <1>5. Count(S, lo) <= Size(S) /\ Size(S) \in Nat
    BY CountType DEF Size
  <1> HIDE DEF Count
  <1> QED BY <1>2, <1>3, <1>4, <1>5 DEF LowerBound

(* Every index below the size is that of a timestamp. *)
LEMMA TimestampAtCounts ==
  ASSUME NEW S \in SUBSET Timestamps, NEW n \in Nat, n < Size(S)
  PROVE  TimestampAt(S, n) \in S /\ Count(S, TimestampAt(S, n)) = n
  <1> DEFINE T == {b \in Nat : Count(S, b) > n}
  <1>1. Infinite \in T
    BY CountEnds, InfiniteAssumption DEF Size
  <1>2. PICK b \in T : \A c \in T : b <= c
    <2> HIDE DEF T
    <2>1. T \subseteq Nat
      BY DEF T
    <2> QED BY <1>1, <2>1, LeastNatural
  <1>3. b \in Nat /\ Count(S, b) > n
    BY <1>2
  <1>4. b # 0
    BY <1>3, CountEnds
  <1>0. b - 1 \in Nat /\ b - 1 \notin T
    BY <1>2, <1>3, <1>4
  <1>11. \A u \in S : u \in Nat
    BY TimestampsAssumption
  <1> DEFINE t == b - 1
  <1>5. Count(S, t) \in Nat /\ Count(S, b) \in Nat /\ Count(S, t) <= n /\ n < Count(S, b)
    BY <1>3, <1>0, CountType
  <1>6. t \in S
    <2>1. SUFFICES ASSUME t \notin S PROVE FALSE
      OBVIOUS
    <2>2. \A u \in S : u < t <=> u < b
      BY <1>3, <1>0, <1>11, <2>1
    <2>3. {u \in S : u < t} = {u \in S : u < b}
      BY <2>2
    <2> QED BY <1>5, <2>3 DEF Count
  <1>7. Count(S, t) = n
    <2> DEFINE A == {u \in S : u < t}
    <2>1. IsFiniteSet(A) /\ t \notin A
      BY StoresAreFinite, <1>3, <1>0
    <2>4. \A u \in S : u < b <=> (u < t \/ u = t)
      BY <1>3, <1>0, <1>11
    <2>2. {u \in S : u < b} = A \union {t}
      BY <1>6, <2>4
    <2>3. Count(S, b) = Count(S, t) + 1
      BY <2>1, <2>2, FS_AddElement DEF Count
    <2> QED BY <1>5, <2>3
  <1>8. \A u \in S : Rank(S, u) = Count(S, u) + 1 /\ Count(S, u) \in Nat
    BY CountOrder, CountType, InfiniteAssumption
  <1>9. \E u \in S : Rank(S, u) = n + 1
    BY <1>6, <1>7, <1>8
  <1>10. TimestampAt(S, n) \in S /\ Rank(S, TimestampAt(S, n)) = n + 1
    BY <1>9 DEF TimestampAt
  <1> QED BY <1>8, <1>10

-----------------------------------------------------------------------------
(* The loop of sync. *)

LEMMA SyncStatesStep ==
  ASSUME NEW S, NEW ranges, Len(ranges) \in Nat
  PROVE  /\ SyncStates(S, ranges)[0] = Start
         /\ \A n \in 1 .. Len(ranges) :
              SyncStates(S, ranges)[n] = AnswerRange(S, SyncStates(S, ranges)[n - 1], ranges[n])
  <1> DEFINE N == Len(ranges)
             Next0(f, n) == IF n = 0 THEN Start ELSE AnswerRange(S, f[n - 1], ranges[n])
             Good(k, f) == f = [n \in 0 .. k |-> Next0(f, n)]
             T == {k \in Nat : ~\E f : Good(k, f)}
  <1>1. T = {}
    <2>1. SUFFICES ASSUME T # {} PROVE FALSE
      OBVIOUS
    <2>2. PICK k \in T : \A j \in T : k <= j
      <3>1. T \subseteq Nat
        OBVIOUS
      <3> HIDE DEF T
      <3> QED BY <2>1, <3>1, LeastNatural
    <2>3. k \in Nat /\ ~\E f : Good(k, f)
      BY <2>2
    <2>4. CASE k = 0
      <3> DEFINE f == [n \in 0 .. 0 |-> Start]
      <3>1. Good(0, f)
        OBVIOUS
      <3> HIDE DEF f, Good
      <3> QED BY <2>3, <2>4, <3>1
    <2>5. CASE k # 0
      <3>1. k - 1 \in Nat /\ k - 1 \notin T
        <4>1. k - 1 \in Nat /\ ~(k <= k - 1)
          BY <2>3, <2>5
        <4> HIDE DEF T
        <4> QED BY <2>2, <4>1
      <3>2. PICK f : Good(k - 1, f)
        BY <3>1
      <3> DEFINE g == [n \in 0 .. k |-> IF n < k THEN f[n] ELSE AnswerRange(S, f[k - 1], ranges[k])]
      <3>3. \A n \in 0 .. k - 1 : f[n] = Next0(f, n)
        BY <3>1, <3>2
      <3>4. \A n \in 0 .. k : g[n] = Next0(g, n)
        <4>1. TAKE n \in 0 .. k
        <4>2. CASE n = 0
          BY <3>1, <3>3, <4>2, <2>5
        <4>3. CASE n # 0 /\ n < k
          <5>1. n \in 0 .. k - 1 /\ n - 1 \in 0 .. k /\ n - 1 < k
            BY <2>3, <4>3
          <5>2. g[n] = f[n] /\ g[n - 1] = f[n - 1]
            BY <5>1, <4>3
          <5> QED BY <3>3, <4>3, <5>1, <5>2
        <4>4. CASE n = k
          <5>1. k - 1 \in 0 .. k /\ k - 1 < k /\ ~(k < k) /\ k \in 0 .. k
            BY <2>3, <2>5
          <5>2. g[k - 1] = f[k - 1] /\ g[k] = AnswerRange(S, f[k - 1], ranges[k])
            BY <5>1
          <5> QED BY <2>5, <4>4, <5>2
        <4> QED BY <2>3, <4>2, <4>3, <4>4
      <3>5. Good(k, g)
        <4>1. g = [n \in 0 .. k |-> g[n]]
          OBVIOUS
        <4> HIDE DEF g
        <4> QED BY <3>4, <4>1
      <3> HIDE DEF g, Good
      <3> QED BY <2>3, <3>5
    <2> QED BY <2>4, <2>5
  <1>2. \E f : Good(N, f)
    <2> HIDE DEF Good
    <2> QED BY <1>1
  <1>3. SyncStates(S, ranges) = CHOOSE f : Good(N, f)
    BY DEF SyncStates
  <1>4. Good(N, SyncStates(S, ranges))
    <2> HIDE DEF Good
    <2> QED BY <1>2, <1>3
  <1>5. \A n \in 0 .. N : SyncStates(S, ranges)[n] = Next0(SyncStates(S, ranges), n)
    <2> DEFINE h == SyncStates(S, ranges)
    <2> HIDE DEF h
    <2>1. h = [n \in 0 .. N |-> Next0(h, n)]
      BY <1>4 DEF h
    <2>2. \A n \in 0 .. N : h[n] = Next0(h, n)
      BY <2>1
    <2> QED BY <2>2 DEF h
  <1> QED BY <1>5

-----------------------------------------------------------------------------
(* Ranges. *)

AnyRange ==
  [type : {Skip, FingerprintRange, TimestampsRange}, upperBound : 0 .. Infinite,
   content : SUBSET (Timestamps \union {Infinite})]

(* Where range i begins, when the first begins at low: where the range before
   it ends. *)
BeginsAt(ranges, low, i) == IF i = 1 THEN low ELSE ranges[i - 1].upperBound

Low(ranges, i) == IF i = 1 THEN 0 ELSE ranges[i - 1].upperBound

(* The beginning of a list of ranges: only the last may be infinite. *)
Ordered(ranges) ==
  /\ ranges \in Seq(AnyRange)
  /\ \A i \in 1 .. Len(ranges) :
       /\ i < Len(ranges) => ranges[i].upperBound # Infinite
       /\ Low(ranges, i) <= ranges[i].upperBound

Covering(ranges) ==
  Ordered(ranges) /\ (ranges # <<>> => Low(ranges, Len(ranges) + 1) = Infinite)

(* A range of the side with S tells a side for which t is not as for S that they
   differ. *)
Watches(ranges, i, t, S) ==
  LET range == ranges[i]
  IN  /\ range.type # Skip /\ Low(ranges, i) <= t /\ t < range.upperBound
      /\ t \in S => \/ t \in range.content
                    \/ range.type = FingerprintRange /\ range.content = RandomFingerprint
                    \/ /\ range.type = TimestampsRange
                       /\ \E u \in range.content : ~(Low(ranges, i) <= u /\ u < range.upperBound)
      /\ t \notin S => t \notin range.content

WatchedIn(ranges, t, S) == \E i \in 1 .. Len(ranges) : Watches(ranges, i, t, S)

(* A buffer of the side with S gives account of t: as a message, or in a range. *)
Answered(S, buffer, t) ==
  (t \in S /\ t \in buffer.messages) \/ WatchedIn(buffer.ranges, t, S)

(* A buffer the side with S may be filling. *)
Buffers(S, buffer) ==
  /\ buffer \in [messages : SUBSET S, ranges : Seq(AnyRange)]
  /\ Ordered(buffer.ranges)
  /\ \A i \in 1 .. Len(buffer.ranges) : buffer.ranges[i].content \subseteq S

LastBound(buffer) == Low(buffer.ranges, Len(buffer.ranges) + 1)

Grows(old, new) ==
  /\ old.messages \subseteq new.messages
  /\ Len(old.ranges) <= Len(new.ranges)
  /\ \A i \in 1 .. Len(old.ranges) : new.ranges[i] = old.ranges[i]

LEMMA AnsweredGrows ==
  ASSUME NEW S, NEW old, NEW new, NEW t,
         old.ranges \in Seq(AnyRange), new.ranges \in Seq(AnyRange),
         Grows(old, new), Answered(S, old, t)
  PROVE  Answered(S, new, t)
  <1>1. CASE t \in S /\ t \in old.messages
    BY <1>1 DEF Grows, Answered
  <1>2. CASE \E i \in 1 .. Len(old.ranges) : Watches(old.ranges, i, t, S)
    <2>1. PICK i \in 1 .. Len(old.ranges) : Watches(old.ranges, i, t, S)
      BY <1>2
    <2>2. Len(old.ranges) \in Nat /\ Len(new.ranges) \in Nat
      OBVIOUS
    <2>3. i \in 1 .. Len(new.ranges) /\ new.ranges[i] = old.ranges[i]
      BY <2>2 DEF Grows
    <2>4. Low(new.ranges, i) = Low(old.ranges, i)
      BY <2>2 DEF Low, Grows
    <2>5. Watches(new.ranges, i, t, S)
      BY <2>1, <2>3, <2>4 DEF Watches
    <2> QED BY <2>3, <2>5 DEF Answered, WatchedIn
  <1> QED BY <1>1, <1>2 DEF Answered, WatchedIn

LEMMA GrowsTransitive ==
  ASSUME NEW a, NEW b, NEW c,
         a.ranges \in Seq(AnyRange), b.ranges \in Seq(AnyRange), c.ranges \in Seq(AnyRange),
         Grows(a, b), Grows(b, c)
  PROVE  Grows(a, c)
  BY DEF Grows

(* Ranges that follow those of a buffer. *)
LEMMA ConcatOrdered ==
  ASSUME NEW r, NEW s, Ordered(r), Ordered(s), s # <<>>,
         Low(r, Len(r) + 1) < Infinite, Low(r, Len(r) + 1) <= s[1].upperBound
  PROVE  /\ Ordered(r \o s)
         /\ Len(r \o s) = Len(r) + Len(s)
         /\ \A i \in 1 .. Len(r) : (r \o s)[i] = r[i]
         /\ \A i \in 1 .. Len(s) : (r \o s)[Len(r) + i] = s[i]
         /\ \A i \in 2 .. Len(s) + 1 : Low(r \o s, Len(r) + i) = Low(s, i)
         /\ Low(r \o s, Len(r) + 1) = Low(r, Len(r) + 1)
  <1> DEFINE q == r \o s
  <1>1. r \in Seq(AnyRange) /\ s \in Seq(AnyRange)
    BY DEF Ordered
  <1>2. Len(r) \in Nat /\ Len(s) \in Nat \ {0}
    BY <1>1, EmptySeq
  <1>3. /\ q \in Seq(AnyRange) /\ Len(q) = Len(r) + Len(s)
        /\ \A i \in 1 .. Len(r) + Len(s) : q[i] = IF i <= Len(r) THEN r[i] ELSE s[i - Len(r)]
    BY <1>1, ConcatProperties
  <1> HIDE DEF q
  <1>4. \A i \in 1 .. Len(r) : q[i] = r[i]
    BY <1>2, <1>3
  <1>5. \A i \in 1 .. Len(s) : q[Len(r) + i] = s[i]
    BY <1>2, <1>3
  <1>6. \A i \in 2 .. Len(s) + 1 : Low(q, Len(r) + i) = Low(s, i)
    <2>1. TAKE i \in 2 .. Len(s) + 1
    <2>2. i - 1 \in 1 .. Len(s) /\ Len(r) + i - 1 = Len(r) + (i - 1) /\ i # 1 /\ Len(r) + i # 1
      BY <1>2
    <2> QED BY <1>5, <2>2 DEF Low
  <1>7. \A i \in 1 .. Len(r) + 1 : Low(q, i) = Low(r, i)
    BY <1>2, <1>4 DEF Low
  <1>8. Ordered(q)
    <2>1. ASSUME NEW i \in 1 .. Len(q)
          PROVE  /\ i < Len(q) => q[i].upperBound # Infinite
                 /\ Low(q, i) <= q[i].upperBound
      <3>1. CASE i <= Len(r)
        <4>1. i \in 1 .. Len(r) /\ i \in 1 .. Len(r) + 1
          BY <1>2, <3>1
        <4>2. Low(q, i) <= q[i].upperBound
          BY <1>4, <1>7, <4>1 DEF Ordered
        <4>3. q[i].upperBound # Infinite
          <5>1. CASE i < Len(r)
            BY <1>4, <4>1, <5>1 DEF Ordered
          <5>2. CASE i = Len(r)
            <6>1. Low(r, Len(r) + 1) = r[i].upperBound
              BY <1>2, <4>1, <5>2 DEF Low
            <6> QED BY <1>4, <4>1, <6>1, InfiniteAssumption
          <5> QED BY <1>2, <3>1, <5>1, <5>2
        <4> QED BY <4>2, <4>3
      <3>2. CASE i > Len(r)
        <4> DEFINE j == i - Len(r)
        <4>1. j \in 1 .. Len(s) /\ i = Len(r) + j /\ (i < Len(q) => j < Len(s))
          BY <1>2, <1>3, <3>2
        <4> HIDE DEF j
        <4>2. q[i] = s[j]
          BY <1>5, <4>1
        <4>3. Low(q, i) = IF j = 1 THEN Low(r, Len(r) + 1) ELSE Low(s, j)
          <5>1. CASE j = 1
            BY <1>2, <1>7, <4>1, <5>1
          <5>2. CASE j # 1
            <6>1. j \in 2 .. Len(s) + 1
              BY <1>2, <4>1, <5>2
            <6> QED BY <1>6, <4>1, <5>2, <6>1
          <5> QED BY <5>1, <5>2
        <4> QED BY <4>1, <4>2, <4>3 DEF Ordered
      <3> QED BY <1>2, <1>3, <3>1, <3>2
    <2> QED BY <1>3, <2>1 DEF Ordered
  <1> QED BY <1>2, <1>3, <1>4, <1>5, <1>6, <1>7, <1>8 DEF q

LEMMA BufferRecord ==
  ASSUME NEW A, NEW B, NEW buffer \in [messages : A, ranges : B], NEW v
  PROVE  /\ [buffer EXCEPT !.ranges = v] = [messages |-> buffer.messages, ranges |-> v]
         /\ [buffer EXCEPT !.messages = v] = [messages |-> v, ranges |-> buffer.ranges]
  OBVIOUS

Added(S, buffer, range, new) ==
  /\ Buffers(S, new)
  /\ Grows(buffer, new)
  /\ LastBound(new) = range.upperBound
  /\ new.messages = buffer.messages
  /\ Len(new.ranges) = Len(buffer.ranges) + 1
  /\ new.ranges[Len(new.ranges)] = range
  /\ Low(new.ranges, Len(new.ranges)) = LastBound(buffer)

LEMMA AddRangeOrdered ==
  ASSUME NEW S \in SUBSET Timestamps, NEW buffer, Buffers(S, buffer),
         LastBound(buffer) < Infinite,
         NEW range \in AnyRange, range.content \subseteq S,
         LastBound(buffer) <= range.upperBound,
         NEW new, new = AddRange(buffer, range)
  PROVE  Added(S, buffer, range, new)
  <1> DEFINE r == buffer.ranges
             s == <<range>>
  <1>1. r \in Seq(AnyRange) /\ Ordered(r) /\ buffer \in [messages : SUBSET S, ranges : Seq(AnyRange)]
    BY DEF Buffers
  <1>2. new = [messages |-> buffer.messages, ranges |-> r \o s]
    <2>1. Append(r, range) = r \o s
      BY <1>1, AppendIsConcat
    <2>2. new = [buffer EXCEPT !.ranges = Append(r, range)]
      BY DEF AddRange
    <2>3. new = [messages |-> buffer.messages, ranges |-> Append(r, range)]
      BY <1>1, <2>2, BufferRecord
    <2> QED BY <2>1, <2>3
  <1>3. s \in Seq(AnyRange) /\ Len(s) = 1 /\ s[1] = range /\ s # <<>>
    OBVIOUS
  <1>4. Ordered(s) /\ Low(s, 2) = range.upperBound
    BY <1>3, InfiniteAssumption DEF Ordered, Low, AnyRange
  <1>5. Len(r) \in Nat
    BY <1>1
  <1> HIDE DEF s
  <1>6. /\ Ordered(r \o s)
        /\ Len(r \o s) = Len(r) + 1
        /\ \A i \in 1 .. Len(r) : (r \o s)[i] = r[i]
        /\ (r \o s)[Len(r) + 1] = range
        /\ Low(r \o s, Len(r) + 2) = range.upperBound
        /\ Low(r \o s, Len(r) + 1) = Low(r, Len(r) + 1)
    <2>1. Low(r, Len(r) + 1) < Infinite /\ Low(r, Len(r) + 1) <= s[1].upperBound
      BY <1>3 DEF LastBound
    <2> HIDE DEF r
    <2>2. /\ Ordered(r \o s)
          /\ Len(r \o s) = Len(r) + Len(s)
          /\ \A i \in 1 .. Len(r) : (r \o s)[i] = r[i]
          /\ \A i \in 1 .. Len(s) : (r \o s)[Len(r) + i] = s[i]
          /\ \A i \in 2 .. Len(s) + 1 : Low(r \o s, Len(r) + i) = Low(s, i)
          /\ Low(r \o s, Len(r) + 1) = Low(r, Len(r) + 1)
      BY <1>1, <1>3, <1>4, <2>1, ConcatOrdered
    <2>3. 1 \in 1 .. Len(s) /\ 2 \in 2 .. Len(s) + 1
      BY <1>3
    <2> QED BY <1>3, <1>4, <2>2, <2>3
  <1>7. r \o s \in Seq(AnyRange)
    BY <1>6 DEF Ordered
  <1>8. \A i \in 1 .. Len(r) + 1 : (r \o s)[i].content \subseteq S
    <2>1. \A i \in 1 .. Len(r) : r[i].content \subseteq S
      BY DEF Buffers
    <2>2. \A i \in 1 .. Len(r) + 1 : i \in 1 .. Len(r) \/ i = Len(r) + 1
      BY <1>5
    <2> QED BY <1>6, <2>1, <2>2
  <1>9. new.ranges = r \o s /\ new.messages = buffer.messages
    BY <1>2
  <1>10. LastBound(new) = range.upperBound
    <2>1. Len(r) + 1 + 1 = Len(r) + 2
      BY <1>5
    <2> QED BY <1>6, <1>9, <2>1 DEF LastBound
  <1>11. Buffers(S, new)
    BY <1>1, <1>2, <1>6, <1>7, <1>8, <1>9 DEF Buffers
  <1>12. Grows(buffer, new)
    BY <1>5, <1>6, <1>9 DEF Grows
  <1> QED BY <1>6, <1>9, <1>10, <1>11, <1>12 DEF LastBound, Added

-----------------------------------------------------------------------------
(* splitRange. *)

LEMMA FirstTimestamps ==
  ASSUME NEW S \in SUBSET Timestamps, NEW k \in Nat, k <= Size(S)
  PROVE  Cardinality(Slice(S, 0, k)) = k
  <1>1. PICK b \in 0 .. Infinite : Count(S, b) = k
    <2>1. CASE k = Size(S)
      <3>1. Infinite \in 0 .. Infinite /\ Count(S, Infinite) = k
        BY <2>1, CountEnds, InfiniteAssumption DEF Size
      <3> QED BY <3>1
    <2>2. CASE k < Size(S)
      <3>1. TimestampAt(S, k) \in S /\ Count(S, TimestampAt(S, k)) = k
        BY <2>2, TimestampAtCounts
      <3>2. \A t \in S : t \in 0 .. Infinite
        BY TimestampsAssumption, InfiniteAssumption
      <3> QED BY <3>1, <3>2
    <2>3. Size(S) \in Nat
      BY CountType DEF Size
    <2> QED BY <2>1, <2>2, <2>3
  <1>2. Slice(S, 0, k) = {t \in S : 0 <= t /\ t < b}
    BY <1>1, CountEnds, SliceIsInterval
  <1>3. Cardinality({t \in S : 0 <= t /\ t < b}) = Count(S, b) - Count(S, 0)
    BY CountBetween
  <1> HIDE DEF Count
  <1> QED BY <1>1, <1>2, <1>3, CountEnds

(* The buckets follow one another and hold all the items between them. *)
LEMMA BucketEnds ==
  ASSUME NEW count \in Nat, count >= Buckets
  PROVE  /\ BucketEnd(count, 0) = 0
         /\ BucketEnd(count, Buckets) = count
         /\ \A i \in 0 .. Buckets : BucketEnd(count, i) \in Nat
         /\ \A i \in 0 .. Buckets - 1 : BucketEnd(count, i) < count
         /\ \A i \in 1 .. Buckets : BucketEnd(count, i - 1) <= BucketEnd(count, i)
  <1> DEFINE q == count \div Buckets
             r == count % Buckets
  <1>1. Buckets \in Nat /\ Buckets > 0
    BY BucketsAssumption
  <1>2. q \in Nat /\ r \in 0 .. Buckets - 1 /\ count = Buckets * q + r
    BY <1>1
  <1> HIDE DEF q, r
  <1>3. q >= 1
    <2>1. SUFFICES ASSUME q = 0 PROVE FALSE
      BY <1>2
    <2>2. Buckets * q = 0
      BY <1>1, <2>1
    <2> QED BY <1>1, <1>2, <2>2
  <1>4. \A i \in 0 .. Buckets : /\ BucketEnd(count, i) = i * q + (IF i < r THEN i ELSE r)
                                /\ i * q \in Nat
    <2>1. TAKE i \in 0 .. Buckets
    <2>2. i \in Nat
      BY <1>1
    <2>3. i * q \in Nat
      BY <1>2, <2>2
    <2> QED BY <2>3 DEF BucketEnd, q, r
  <1>5. BucketEnd(count, 0) = 0
    <2>1. 0 * q = 0 /\ 0 \in 0 .. Buckets
      BY <1>1, <1>2
    <2> QED BY <1>2, <1>4, <2>1
  <1>6. BucketEnd(count, Buckets) = count
    BY <1>1, <1>2, <1>4
  <1>7. \A i \in 1 .. Buckets : BucketEnd(count, i - 1) <= BucketEnd(count, i)
    <2>1. TAKE i \in 1 .. Buckets
    <2>2. i - 1 \in 0 .. Buckets /\ i \in 0 .. Buckets
      BY <1>1
    <2>3. i * q = (i - 1) * q + q
      BY <1>1, <1>2
    <2> QED BY <1>2, <1>4, <2>2, <2>3
  <1>8. \A i \in 0 .. Buckets - 1 : BucketEnd(count, i) < count
    <2>1. TAKE i \in 0 .. Buckets - 1
    <2>2. i \in 0 .. Buckets /\ i * q \in Nat /\ Buckets * q \in Nat
      BY <1>1, <1>2, <1>4
    <2>3. Buckets * q = i * q + (Buckets - i) * q
      BY <1>1, <1>2
    <2>4. PICK d \in Nat : Buckets - i = d + 1
      <3>1. Buckets - i - 1 \in Nat /\ Buckets - i = (Buckets - i - 1) + 1
        BY <1>1
      <3> QED BY <3>1
    <2>5. (Buckets - i) * q = d * q + q /\ d * q \in Nat
      BY <1>2, <2>4
    <2> QED BY <1>2, <1>3, <1>4, <2>2, <2>3, <2>5
  <1>9. \A i \in 0 .. Buckets : BucketEnd(count, i) \in Nat
    BY <1>2, <1>4
  <1> QED BY <1>5, <1>6, <1>7, <1>8, <1>9

(* Fingerprint ranges from lo to upperBound: each stands for the timestamps
   between its bounds, which do not fall back. *)
Partition(S, lo, upperBound, ranges) ==
  /\ ranges \in Seq(AnyRange) /\ Len(ranges) = Buckets
  /\ ranges[Buckets].upperBound = upperBound
  /\ \A i \in 1 .. Buckets :
       /\ ranges[i].type = FingerprintRange
       /\ i < Buckets => ranges[i].upperBound < Infinite
       /\ BeginsAt(ranges, lo, i) \in Nat /\ ranges[i].upperBound \in Nat
       /\ BeginsAt(ranges, lo, i) <= ranges[i].upperBound
       /\ ranges[i].content =
            {t \in S : BeginsAt(ranges, lo, i) <= t /\ t < ranges[i].upperBound}

LEMMA FingerprintRangesExact ==
  ASSUME NEW S \in SUBSET Timestamps, NEW lo \in Nat, NEW upperBound \in 0 .. Infinite,
         lo <= upperBound, Count(S, upperBound) - Count(S, lo) >= Buckets,
         NEW ranges, ranges = FingerprintRanges(S, Count(S, lo), Count(S, upperBound), upperBound)
  PROVE  Partition(S, lo, upperBound, ranges)
  <1> DEFINE low == Count(S, lo)
             up == Count(S, upperBound)
             count == up - low
             Begin(i) == IF i = 1 THEN lo ELSE ranges[i - 1].upperBound
             End(i) == IF i = Buckets THEN upperBound ELSE TimestampAt(S, low + BucketEnd(count, i))
  <1>1. Buckets \in Nat /\ Buckets > 0 /\ Infinite \in Nat /\ upperBound \in Nat
    BY BucketsAssumption, InfiniteAssumption
  <1>2. low \in Nat /\ up \in Nat /\ up <= Size(S) /\ Size(S) \in Nat /\ count \in Nat /\ count >= Buckets
    <2>1. low \in Nat /\ up \in Nat /\ up <= Size(S) /\ Size(S) \in Nat
      BY <1>1, CountType DEF Size
    <2> HIDE DEF low, up
    <2>2. up - low >= Buckets
      BY DEF low, up
    <2> QED BY <1>1, <2>1, <2>2
  <1>3. /\ BucketEnd(count, 0) = 0
        /\ BucketEnd(count, Buckets) = count
        /\ \A i \in 0 .. Buckets : BucketEnd(count, i) \in Nat
        /\ \A i \in 0 .. Buckets - 1 : BucketEnd(count, i) < count
        /\ \A i \in 1 .. Buckets : BucketEnd(count, i - 1) <= BucketEnd(count, i)
    <2> HIDE DEF count
    <2> QED BY <1>2, BucketEnds
  <1>4. \A t \in S : t \in Nat /\ t < Infinite
    BY TimestampsAssumption, InfiniteAssumption
  <1>5. ASSUME NEW i \in 1 .. Buckets
        PROVE  /\ ranges[i] = [type |-> FingerprintRange, upperBound |-> End(i), content |-> ranges[i].content]
               /\ ranges[i].upperBound = End(i)
               /\ ranges[i].content = Slice(S, low + BucketEnd(count, i - 1), low + BucketEnd(count, i))
    BY DEF FingerprintRanges, NewRange, Fingerprint
  <1>6. Len(ranges) = Buckets /\ ranges \in [1 .. Buckets -> {ranges[i] : i \in 1 .. Buckets}]
    BY <1>1 DEF FingerprintRanges
  <1>0. \A i \in 1 .. Buckets : ranges[i].upperBound = End(i)
    BY <1>5, Zenon
  <1>7. ASSUME NEW i \in 1 .. Buckets
        PROVE  /\ End(i) \in 0 .. Infinite
               /\ Count(S, End(i)) = low + BucketEnd(count, i)
               /\ i < Buckets => End(i) \in S
    <2>1. CASE i = Buckets
      BY <1>1, <1>2, <1>3, <2>1
    <2>2. CASE i # Buckets
      <3>1. i \in 0 .. Buckets - 1 /\ i \in 0 .. Buckets
        BY <1>1, <2>2
      <3>2. low + BucketEnd(count, i) \in Nat /\ low + BucketEnd(count, i) < Size(S)
        <4>1. BucketEnd(count, i) \in Nat /\ BucketEnd(count, i) < count
          BY <1>3, <3>1
        <4> HIDE DEF low, up
        <4> QED BY <1>2, <4>1
      <3> DEFINE n == low + BucketEnd(count, i)
      <3> HIDE DEF n
      <3>3. TimestampAt(S, n) \in S /\ Count(S, TimestampAt(S, n)) = n
        BY <3>2, TimestampAtCounts DEF n
      <3>4. End(i) = TimestampAt(S, n)
        BY <2>2 DEF n
      <3> HIDE DEF End
      <3>5. End(i) \in S /\ Count(S, End(i)) = n
        BY <3>3, <3>4
      <3>6. End(i) \in 0 .. Infinite
        BY <1>1, <1>4, <3>5
      <3> QED BY <3>5, <3>6 DEF n
    <2> QED BY <2>1, <2>2
  <1> HIDE DEF End
  <1>8. ASSUME NEW i \in 1 .. Buckets
        PROVE  /\ Begin(i) \in Nat
               /\ Count(S, Begin(i)) = low + BucketEnd(count, i - 1)
               /\ Begin(i) <= End(i)
    <2>1. CASE i = 1
      <3>1. Begin(i) = lo /\ i - 1 = 0 /\ low + 0 = low
        BY <1>2, <2>1
      <3>2. Count(S, Begin(i)) = low + BucketEnd(count, i - 1)
        BY <1>3, <3>1
      <3>3. lo <= End(i)
        <4>1. CASE i = Buckets
          BY <4>1 DEF End
        <4>2. CASE i # Buckets
          <5>1. End(i) \in S /\ Count(S, End(i)) = low + BucketEnd(count, i) /\ BucketEnd(count, i) \in Nat
            BY <1>1, <1>3, <1>7, <4>2
          <5>2. ~(Count(S, End(i)) < Count(S, lo))
            <6> HIDE DEF low, up, count
            <6>1. ~(low + BucketEnd(count, i) < low)
              BY <1>2, <5>1
            <6> QED BY <5>1, <6>1 DEF low
          <5>3. ~(End(i) < lo)
            BY <5>1, <5>2, CountOrder
          <5> QED BY <1>4, <5>1, <5>3
        <4> QED BY <4>1, <4>2
      <3> QED BY <3>1, <3>2, <3>3
    <2>2. CASE i # 1
      <3>1. i - 1 \in 1 .. Buckets /\ i - 1 < Buckets /\ Begin(i) = End(i - 1)
        <4>1. i - 1 \in 1 .. Buckets /\ i - 1 < Buckets
          BY <1>1, <2>2
        <4> QED BY <1>5, <2>2, <4>1
      <3>2. /\ End(i - 1) \in S /\ End(i - 1) \in 0 .. Infinite /\ End(i) \in 0 .. Infinite
            /\ Count(S, End(i - 1)) = low + BucketEnd(count, i - 1)
            /\ Count(S, End(i)) = low + BucketEnd(count, i)
        BY <1>7, <3>1
      <3>3. End(i - 1) <= End(i)
        <4>1. CASE i = Buckets
          <5>1. Count(S, End(i - 1)) < Count(S, upperBound)
            <6>1. BucketEnd(count, i - 1) < count /\ BucketEnd(count, i - 1) \in Nat
              <7>1. i - 1 \in 0 .. Buckets - 1 /\ i - 1 \in 0 .. Buckets
                BY <1>1, <3>1
              <7> QED BY <1>3, <7>1
            <6> HIDE DEF low, up
            <6>2. low + BucketEnd(count, i - 1) < up
              BY <1>2, <6>1
            <6> QED BY <3>2, <6>2 DEF up
          <5>2. End(i - 1) < upperBound
            BY <1>1, <3>2, <5>1, CountOrder
          <5> QED BY <1>1, <3>2, <4>1, <5>2 DEF End
        <4>2. CASE i # Buckets
          <5>1. End(i) \in S
            BY <1>1, <1>7, <4>2
          <5>2. ~(Count(S, End(i)) < Count(S, End(i - 1)))
            <6>1. /\ BucketEnd(count, i - 1) <= BucketEnd(count, i)
                  /\ BucketEnd(count, i - 1) \in Nat /\ BucketEnd(count, i) \in Nat
              <7>1. i - 1 \in 0 .. Buckets /\ i \in 0 .. Buckets
                BY <1>1, <3>1
              <7> QED BY <1>3, <7>1
            <6> HIDE DEF low, up, count
            <6>2. ~(low + BucketEnd(count, i) < low + BucketEnd(count, i - 1))
              BY <1>2, <6>1
            <6> QED BY <3>2, <6>2
          <5>3. End(i - 1) \in Nat
            BY <1>1, <3>2
          <5>4. ~(End(i) < End(i - 1))
            BY <5>1, <5>2, <5>3, CountOrder
          <5> QED BY <1>1, <3>2, <5>4
        <4> QED BY <4>1, <4>2
      <3> HIDE DEF Begin
      <3> QED BY <1>1, <3>1, <3>2, <3>3
    <2> QED BY <2>1, <2>2
  <1> HIDE DEF Begin, low, up, count
  <1>9. ASSUME NEW i \in 1 .. Buckets
        PROVE  ranges[i].content = {t \in S : Begin(i) <= t /\ t < End(i)}
    <2>1. ranges[i].content = Slice(S, Count(S, Begin(i)), Count(S, End(i)))
      BY <1>5, <1>7, <1>8
    <2>2. Begin(i) \in Nat /\ End(i) \in Nat
      BY <1>1, <1>7, <1>8
    <2> QED BY <2>1, <2>2, SliceIsInterval
  <1>10. \A i \in 1 .. Buckets : ranges[i] \in AnyRange /\ ranges[i].type = FingerprintRange
    <2>1. TAKE i \in 1 .. Buckets
    <2>2. ranges[i].content \in SUBSET (Timestamps \union {Infinite})
      BY <1>9
    <2>3. ranges[i] = [type |-> FingerprintRange, upperBound |-> End(i), content |-> ranges[i].content]
      BY <1>5
    <2>4. End(i) \in 0 .. Infinite
      BY <1>7
    <2> QED BY <2>2, <2>3, <2>4 DEF AnyRange
  <1>11. ranges \in Seq(AnyRange)
    <2>1. ranges \in [1 .. Buckets -> AnyRange]
      BY <1>6, <1>10
    <2> QED BY <1>1, <2>1
  <1>12. ranges[Buckets].upperBound = upperBound
    BY <1>1, <1>0 DEF End
  <1>13. \A i \in 1 .. Buckets :
           /\ ranges[i].type = FingerprintRange
           /\ i < Buckets => ranges[i].upperBound < Infinite
           /\ Begin(i) \in Nat /\ ranges[i].upperBound \in Nat
           /\ Begin(i) <= ranges[i].upperBound
           /\ ranges[i].content = {t \in S : Begin(i) <= t /\ t < ranges[i].upperBound}
    BY <1>1, <1>4, <1>7, <1>8, <1>9, <1>10, <1>0
  <1> QED BY <1>6, <1>11, <1>12, <1>13 DEF Begin, BeginsAt, Partition

Splits(S, buffer, lo, upperBound, new) ==
  /\ Buffers(S, new)
  /\ Grows(buffer, new)
  /\ LastBound(new) = upperBound
  /\ new.messages = buffer.messages
  /\ Len(new.ranges) > Len(buffer.ranges)
  /\ \A i \in Len(buffer.ranges) + 1 .. Len(new.ranges) : new.ranges[i].type # Skip
  /\ \A t \in Nat : lo <= t /\ t < upperBound => Answered(S, new, t)

LEMMA SplitRangeAnswers ==
  ASSUME NEW S \in SUBSET Timestamps, NEW buffer, Buffers(S, buffer),
         NEW lo \in Nat, lo < Infinite, LastBound(buffer) = lo,
         NEW upperBound \in 0 .. Infinite, lo <= upperBound,
         NEW new, new = SplitRange(S, Count(S, lo), Count(S, upperBound), upperBound, buffer)
  PROVE  Splits(S, buffer, lo, upperBound, new)
  <1> DEFINE low == Count(S, lo)
             up == Count(S, upperBound)
             r == buffer.ranges
  <1>1. /\ Buckets \in Nat \ {0} /\ MinPerBucket \in Nat \ {0} /\ Infinite \in Nat
        /\ upperBound \in Nat /\ upperBound <= Infinite
    BY BucketsAssumption, InfiniteAssumption
  <1>2. low \in Nat /\ up \in Nat /\ up <= Size(S) /\ Size(S) \in Nat /\ low <= up
    BY <1>1, CountType, CountBetween DEF Size
  <1>3. /\ r \in Seq(AnyRange) /\ Ordered(r) /\ Len(r) \in Nat
        /\ buffer \in [messages : SUBSET S, ranges : Seq(AnyRange)]
        /\ Low(r, Len(r) + 1) = lo
    BY DEF Buffers, LastBound
  <1>4. CASE up - low < Buckets * MinPerBucket
    <2> DEFINE content == Slice(S, 0, up - low)
               range == NewRange(TimestampsRange, upperBound, content)
    <2>1. content \subseteq S
      BY DEF Slice
    <2>2. range \in AnyRange /\ range.content = content /\ range.upperBound = upperBound
          /\ range.type = TimestampsRange
      BY <2>1 DEF NewRange, AnyRange
    <2>3. new = AddRange(buffer, range)
      BY <1>4 DEF SplitRange, SmallRange
    <2> HIDE DEF range
    <2>4. /\ Buffers(S, new) /\ Grows(buffer, new) /\ LastBound(new) = upperBound
          /\ new.messages = buffer.messages
          /\ Len(new.ranges) = Len(r) + 1
          /\ new.ranges[Len(new.ranges)] = range
          /\ Low(new.ranges, Len(new.ranges)) = lo
      <3> HIDE DEF content
      <3>1. LastBound(buffer) < Infinite /\ LastBound(buffer) <= range.upperBound
            /\ range.content \subseteq S
        BY <2>1, <2>2
      <3>2. Added(S, buffer, range, new)
        BY <2>2, <2>3, <3>1, AddRangeOrdered
      <3> QED BY <2>2, <3>2 DEF Added
    <2>5. TimestampsRange # Skip /\ TimestampsRange # FingerprintRange
      BY DEF TimestampsRange, Skip, FingerprintRange
    <2> HIDE DEF content, low, up
    <2>6. ASSUME NEW t \in Nat, lo <= t, t < upperBound
          PROVE  Answered(S, new, t)
      <3>1. \/ t \in S => t \in content
            \/ \E u \in content : ~(lo <= u /\ u < upperBound)
        <4>1. SUFFICES ASSUME \A u \in content : lo <= u /\ u < upperBound, t \in S
                       PROVE  t \in content
          OBVIOUS
        <4> DEFINE between == {u \in S : lo <= u /\ u < upperBound}
        <4>2. content \subseteq between
          BY <2>1, <4>1
        <4>3. Cardinality(between) = up - low
          BY <1>1, CountBetween DEF up, low
        <4>4. Cardinality(content) = up - low
          <5>1. up - low \in Nat /\ up - low <= Size(S)
            BY <1>2
          <5> QED BY <5>1, FirstTimestamps DEF content
        <4>5. IsFiniteSet(between)
          BY StoresAreFinite
        <4>6. content = between
          <5> HIDE DEF between
          <5> QED BY <4>2, <4>3, <4>4, <4>5, FS_Subset
        <4> QED BY <2>6, <4>1, <4>6
      <3>2. t \notin S => t \notin content
        BY <2>1
      <3>3. Len(new.ranges) \in 1 .. Len(new.ranges)
        BY <1>3, <2>4
      <3>4. Watches(new.ranges, Len(new.ranges), t, S)
        BY <2>2, <2>4, <2>5, <2>6, <3>1, <3>2 DEF Watches
      <3> QED BY <3>3, <3>4 DEF Answered, WatchedIn
    <2>7. \A i \in Len(r) + 1 .. Len(new.ranges) : new.ranges[i].type # Skip
      BY <1>3, <2>2, <2>4, <2>5
    <2>8. Len(new.ranges) > Len(r)
      BY <1>3, <2>4
    <2> QED BY <2>4, <2>6, <2>7, <2>8 DEF Splits
  <1>5. CASE ~(up - low < Buckets * MinPerBucket)
    <2> DEFINE s == FingerprintRanges(S, low, up, upperBound)
               Begin(i) == BeginsAt(s, lo, i)
    <2>1. up - low >= Buckets
      <3>1. Buckets * MinPerBucket \in Nat /\ Buckets * MinPerBucket >= Buckets
        <4>1. PICK m \in Nat : MinPerBucket = m + 1
          <5>1. MinPerBucket - 1 \in Nat /\ MinPerBucket = (MinPerBucket - 1) + 1
            BY <1>1
          <5> QED BY <5>1
        <4>2. Buckets * MinPerBucket = Buckets * m + Buckets /\ Buckets * m \in Nat
          BY <1>1, <4>1
        <4> QED BY <1>1, <4>2
      <3> HIDE DEF low, up
      <3> QED BY <1>1, <1>2, <1>5, <3>1
    <2>2. /\ s \in Seq(AnyRange) /\ Len(s) = Buckets
          /\ s[Buckets].upperBound = upperBound
          /\ \A i \in 1 .. Buckets :
               /\ s[i].type = FingerprintRange
               /\ i < Buckets => s[i].upperBound < Infinite
               /\ Begin(i) \in Nat /\ s[i].upperBound \in Nat
               /\ Begin(i) <= s[i].upperBound
               /\ s[i].content = {t \in S : Begin(i) <= t /\ t < s[i].upperBound}
      <3>1. Partition(S, lo, upperBound, s)
        BY <2>1, FingerprintRangesExact
      <3> QED BY <3>1 DEF Partition
    <2>3. new = [buffer EXCEPT !.ranges = r \o s]
      BY <1>5 DEF SplitRange
    <2>4. new = [messages |-> buffer.messages, ranges |-> r \o s]
      BY <1>3, <2>3, BufferRecord
    <2> HIDE DEF s
    <2>5. new.ranges = r \o s /\ new.messages = buffer.messages
      BY <2>4
    <2>6. Ordered(s)
      <3>1. \A i \in 1 .. Len(s) : /\ i < Len(s) => s[i].upperBound # Infinite
                                   /\ Low(s, i) <= s[i].upperBound
        BY <1>1, <2>2 DEF Low, BeginsAt
      <3> QED BY <2>2, <3>1 DEF Ordered
    <2>7. s # <<>> /\ s[1].upperBound >= lo
      <3>1. 1 \in 1 .. Buckets /\ Begin(1) = lo
        BY <1>1 DEF BeginsAt
      <3> QED BY <1>1, <2>2, <3>1
    <2> DEFINE q == r \o s
    <2>8. /\ Ordered(q) /\ Len(q) = Len(r) + Len(s)
          /\ \A i \in 1 .. Len(r) : q[i] = r[i]
          /\ \A i \in 1 .. Len(s) : q[Len(r) + i] = s[i]
          /\ \A i \in 2 .. Len(s) + 1 : Low(q, Len(r) + i) = Low(s, i)
          /\ Low(q, Len(r) + 1) = lo
      <3>1. Low(r, Len(r) + 1) < Infinite /\ Low(r, Len(r) + 1) <= s[1].upperBound
        BY <1>1, <1>3, <2>2, <2>7
      <3> HIDE DEF r
      <3> QED BY <1>3, <2>6, <2>7, <3>1, ConcatOrdered
    <2> HIDE DEF q
    <2>9. \A i \in 1 .. Buckets : /\ q[Len(r) + i] = s[i]
                                  /\ Low(q, Len(r) + i) = Begin(i)
      <3>1. TAKE i \in 1 .. Buckets
      <3>2. CASE i = 1
        BY <1>1, <2>2, <2>8, <3>2 DEF BeginsAt
      <3>3. CASE i # 1
        <4>1. i \in 2 .. Len(s) + 1
          BY <1>1, <2>2, <3>3
        <4>2. Low(q, Len(r) + i) = Low(s, i)
          BY <2>8, <4>1
        <4> QED BY <1>1, <2>2, <2>8, <3>3, <4>2 DEF BeginsAt, Low
      <3> QED BY <3>2, <3>3
    <2>10. new.ranges = q /\ q \in Seq(AnyRange) /\ Len(q) = Len(r) + Buckets
      BY <2>2, <2>5, <2>8 DEF q, Ordered
    <2>11. Low(q, Len(q) + 1) = upperBound
      <3>1. Len(q) # 0 /\ q[Len(q)] = s[Buckets]
        BY <1>1, <1>3, <2>9, <2>10
      <3>2. Len(q) \in Nat
        BY <1>1, <1>3, <2>10
      <3> QED BY <2>2, <3>1, <3>2 DEF Low
    <2>12. \A i \in 1 .. Len(q) : q[i].content \subseteq S
      <3>1. TAKE i \in 1 .. Len(q)
      <3>2. CASE i <= Len(r)
        <4>1. i \in 1 .. Len(r)
          BY <3>2
        <4> QED BY <2>8, <4>1 DEF Buffers
      <3>3. CASE i > Len(r)
        <4>1. i - Len(r) \in 1 .. Buckets /\ i = Len(r) + (i - Len(r))
          BY <1>1, <1>3, <2>10, <3>3
        <4>2. q[i] = s[i - Len(r)]
          BY <2>9, <4>1
        <4> QED BY <2>2, <4>1, <4>2
      <3> QED BY <1>3, <3>2, <3>3
    <2>13. Buffers(S, new)
      <3>1. new.messages \in SUBSET S
        BY <1>3, <2>4
      <3>2. new \in [messages : SUBSET S, ranges : Seq(AnyRange)]
        BY <2>4, <2>5, <2>10, <3>1
      <3> QED BY <2>8, <2>10, <2>12, <3>2 DEF Buffers
    <2>14. Grows(buffer, new)
      BY <1>1, <1>3, <2>5, <2>8, <2>10 DEF Grows
    <2>15. ASSUME NEW t \in Nat, lo <= t, t < upperBound
           PROVE  Answered(S, new, t)
      <3> DEFINE T == {i \in 1 .. Buckets : t < s[i].upperBound}
      <3>1. PICK i \in T : \A j \in T : i <= j
        <4>1. T \subseteq Nat /\ Buckets \in T
          BY <1>1, <2>2, <2>15
        <4>2. T # {}
          BY <4>1
        <4> HIDE DEF T
        <4> QED BY <4>1, <4>2, LeastNatural
      <3>2. i \in 1 .. Buckets /\ t < s[i].upperBound
        BY <3>1
      <3>3. Begin(i) <= t
        <4>1. CASE i = 1
          BY <2>15, <4>1 DEF BeginsAt
        <4>2. CASE i # 1
          <5>1. i - 1 \in 1 .. Buckets /\ ~(i <= i - 1)
            BY <1>1, <3>2, <4>2
          <5>2. ~(t < s[i - 1].upperBound)
            BY <3>1, <5>1
          <5> QED BY <2>2, <4>2, <5>1, <5>2 DEF BeginsAt
        <4> QED BY <4>1, <4>2
      <3> DEFINE k == Len(r) + i
      <3>4. k \in 1 .. Len(q) /\ q[k] = s[i] /\ Low(q, k) = Begin(i)
        BY <1>1, <1>3, <2>9, <2>10, <3>2
      <3> HIDE DEF k, Begin, T
      <3>5. s[i].content = {u \in S : Begin(i) <= u /\ u < s[i].upperBound} /\ s[i].type = FingerprintRange
        BY <2>2, <3>2
      <3>6. t \in S <=> t \in s[i].content
        BY <3>2, <3>3, <3>5
      <3>7. Watches(q, k, t, S)
        BY <3>2, <3>3, <3>4, <3>5, <3>6 DEF Watches, FingerprintRange, Skip
      <3> QED BY <2>10, <3>4, <3>7 DEF Answered, WatchedIn
    <2>16. \A i \in Len(r) + 1 .. Len(q) : q[i].type # Skip
      <3>1. TAKE i \in Len(r) + 1 .. Len(q)
      <3>2. i - Len(r) \in 1 .. Buckets /\ i = Len(r) + (i - Len(r))
        BY <1>1, <1>3, <2>10
      <3>3. q[i] = s[i - Len(r)] /\ s[i - Len(r)].type = FingerprintRange
        BY <2>2, <2>9, <3>2
      <3> QED BY <3>3 DEF FingerprintRange, Skip
    <2>17. Len(q) > Len(r)
      BY <1>1, <1>3, <2>10
    <2> QED BY <2>5, <2>10, <2>11, <2>13, <2>14, <2>15, <2>16, <2>17 DEF LastBound, Splits
  <1> QED BY <1>4, <1>5

-----------------------------------------------------------------------------
(* The parts of an answer. *)

AnyBuffer == [messages : SUBSET Timestamps, ranges : Seq(AnyRange)]

AnyState ==
  [index : Nat, bound : 0 .. Infinite, skip : BOOLEAN, added : BOOLEAN, done : BOOLEAN,
   output : AnyBuffer]

(* What sync keeps while it goes on: its ranges reach the bound it has answered
   up to, unless a skipped range is not written yet. *)
Reaches(S, state, bound) ==
  /\ state \in AnyState
  /\ Buffers(S, state.output)
  /\ bound \in 0 .. Infinite
  /\ LastBound(state.output) \in 0 .. bound
  /\ ~state.skip => LastBound(state.output) = bound
  /\ ~state.added => state.output.ranges = <<>>
  /\ state.added /\ bound = Infinite => LastBound(state.output) = Infinite

Skips(S, state, bound, new) ==
  /\ Reaches(S, new, bound)
  /\ Grows(state.output, new.output)
  /\ new.done = state.done

LEMMA BuffersType ==
  ASSUME NEW S \in SUBSET Timestamps, NEW buffer, Buffers(S, buffer)
  PROVE  buffer \in AnyBuffer /\ buffer.ranges \in Seq(AnyRange) /\ Grows(buffer, buffer)
  BY DEF Buffers, AnyBuffer, Grows

LEMMA SkipRangeSkips ==
  ASSUME NEW S \in SUBSET Timestamps, NEW state, NEW bound, Reaches(S, state, bound),
         bound < Infinite, NEW range \in AnyRange, bound <= range.upperBound,
         NEW new, new = SkipRange(state, range)
  PROVE  Skips(S, state, range.upperBound, new)
  <1>1. /\ state \in AnyState /\ Buffers(S, state.output) /\ bound \in Nat
        /\ LastBound(state.output) \in 0 .. bound
        /\ ~state.added => state.output.ranges = <<>>
    BY InfiniteAssumption DEF Reaches
  <1>2. range.upperBound \in 0 .. Infinite /\ Infinite \in Nat
    BY InfiniteAssumption DEF AnyRange
  <1>3. CASE state.added /\ range.upperBound = Infinite
    <2> DEFINE skipped == NewRange(Skip, Infinite, {})
               buffer == AddRange(state.output, skipped)
    <2>1. skipped \in AnyRange /\ skipped.content \subseteq S /\ skipped.upperBound = Infinite
      BY <1>2 DEF AnyRange, NewRange
    <2>2. new = [state EXCEPT !.output = buffer]
      BY <1>3 DEF SkipRange
    <2> HIDE DEF skipped
    <2>3. Added(S, state.output, skipped, buffer)
      <3>1. LastBound(state.output) < Infinite /\ LastBound(state.output) <= skipped.upperBound
        BY <1>1, <1>2, <2>1
      <3> QED BY <1>1, <2>1, <3>1, AddRangeOrdered
    <2> HIDE DEF buffer
    <2>4. Buffers(S, buffer) /\ buffer \in AnyBuffer /\ LastBound(buffer) = Infinite
          /\ Grows(state.output, buffer)
      BY <2>1, <2>3, BuffersType DEF Added
    <2>5. /\ new \in AnyState /\ new.output = buffer /\ new.skip = state.skip
          /\ new.added = state.added /\ new.done = state.done
      BY <1>1, <2>2, <2>4 DEF AnyState
    <2> QED BY <1>2, <1>3, <2>4, <2>5 DEF Reaches, Skips
  <1>4. CASE ~(state.added /\ range.upperBound = Infinite)
    <2>1. new = [state EXCEPT !.skip = TRUE]
      BY <1>4 DEF SkipRange
    <2>2. /\ new \in AnyState /\ new.output = state.output /\ new.skip
          /\ new.added = state.added /\ new.done = state.done
      BY <1>1, <2>1 DEF AnyState
    <2>3. Grows(state.output, state.output)
      BY <1>1, BuffersType
    <2>4. LastBound(state.output) \in 0 .. range.upperBound
      BY <1>1, <1>2
    <2> QED BY <1>1, <1>2, <1>4, <2>2, <2>3, <2>4 DEF Reaches, Skips
  <1> QED BY <1>3, <1>4

(* Before a range of its own, sync writes the skip it owes. *)
Coalesced(S, state, bound, new) ==
  /\ new \in AnyState
  /\ Buffers(S, new.output)
  /\ Grows(state.output, new.output)
  /\ LastBound(new.output) = bound
  /\ new.added /\ ~new.skip
  /\ new.done = state.done

LEMMA CoalesceSkipsCoalesces ==
  ASSUME NEW S \in SUBSET Timestamps, NEW state, Reaches(S, state, state.bound),
         state.bound < Infinite, NEW new, new = CoalesceSkips(state)
  PROVE  Coalesced(S, state, state.bound, new)
  <1>1. /\ state \in AnyState /\ Buffers(S, state.output) /\ state.output \in AnyBuffer
        /\ state.bound \in Nat /\ state.bound \in 0 .. Infinite
        /\ LastBound(state.output) \in 0 .. state.bound
        /\ ~state.skip => LastBound(state.output) = state.bound
        /\ Grows(state.output, state.output) /\ Infinite \in Nat
    BY InfiniteAssumption, BuffersType DEF Reaches
  <1> DEFINE skipped == NewRange(Skip, state.bound, {})
             buffer == AddRange(state.output, skipped)
  <1>2. skipped \in AnyRange /\ skipped.content \subseteq S /\ skipped.upperBound = state.bound
    BY <1>1 DEF AnyRange, NewRange
  <1>3. Added(S, state.output, skipped, buffer)
    <2> HIDE DEF skipped
    <2>1. LastBound(state.output) < Infinite /\ LastBound(state.output) <= skipped.upperBound
      BY <1>1, <1>2
    <2> QED BY <1>1, <1>2, <2>1, AddRangeOrdered
  <1>4. Buffers(S, buffer) /\ buffer \in AnyBuffer /\ LastBound(buffer) = state.bound
        /\ Grows(state.output, buffer)
    <2> HIDE DEF skipped, buffer
    <2> QED BY <1>2, <1>3, BuffersType DEF Added
  <1>5. new = [state EXCEPT !.added = TRUE, !.skip = FALSE,
                 !.output = IF state.skip THEN buffer ELSE state.output]
    BY DEF CoalesceSkips
  <1> HIDE DEF buffer
  <1>6. CASE state.skip
    <2>1. /\ new \in AnyState /\ new.output = buffer /\ new.added /\ ~new.skip
          /\ new.done = state.done
      BY <1>1, <1>4, <1>5, <1>6 DEF AnyState
    <2> QED BY <1>4, <2>1 DEF Coalesced
  <1>7. CASE ~state.skip
    <2>1. /\ new \in AnyState /\ new.output = state.output /\ new.added /\ ~new.skip
          /\ new.done = state.done
      BY <1>1, <1>5, <1>7 DEF AnyState
    <2> QED BY <1>1, <1>7, <2>1 DEF Coalesced
  <1> QED BY <1>6, <1>7

(* What fits of the timestamps between lo and upperBound is all of them, or
   what lies below the one that is returned as the next bound. *)
FitsBelow(S, lo, upperBound, fitting) ==
  LET ours == {t \in S : lo <= t /\ t < upperBound}
  IN  /\ fitting \subseteq ours
      /\ fitting # ours =>
           \E u \in ours : /\ fitting = {t \in S : lo <= t /\ t < u}
                           /\ Count(S, lo) + Cardinality(fitting) = Count(S, u)
                           /\ TimestampAt(S, Count(S, u)) = u

LEMMA FittingIsPrefix ==
  ASSUME NEW S \in SUBSET Timestamps, NEW lo \in Nat, NEW upperBound \in Nat,
         NEW theirs, NEW buffer,
         NEW fitting, fitting = Fitting({t \in S : lo <= t /\ t < upperBound}, theirs, buffer)
  PROVE  FitsBelow(S, lo, upperBound, fitting)
  <1> DEFINE ours == {t \in S : lo <= t /\ t < upperBound}
  <1>0. \A t \in S : t \in Nat
    BY TimestampsAssumption
  <1>1. fitting \subseteq ours
    BY DEF Fitting
  <1>2. \A t \in fitting, u \in ours : u <= t => u \in fitting
    <2>1. \A t \in ours, u \in ours, v \in ours : v <= u /\ u <= t => v <= t
      BY <1>0
    <2> QED BY <1>1, <2>1 DEF Fitting
  <1>3. ASSUME fitting # ours
        PROVE  \E u \in ours : /\ fitting = {t \in S : lo <= t /\ t < u}
                               /\ Count(S, lo) + Cardinality(fitting) = Count(S, u)
                               /\ TimestampAt(S, Count(S, u)) = u
    <2>1. PICK u \in ours \ fitting : \A v \in ours \ fitting : u <= v
      <3>1. ours \ fitting \subseteq Nat
        BY <1>0
      <3>2. ours \ fitting # {}
        BY <1>1, <1>3
      <3> QED BY <3>1, <3>2, LeastNatural
    <2>2. u \in S /\ u \in Nat /\ lo <= u /\ u < upperBound /\ u \notin fitting
      BY <1>0, <2>1
    <2>3. \A t \in S : t \in fitting <=> lo <= t /\ t < u
      <3>1. TAKE t \in S
      <3>2. t \in Nat
        BY <1>0
      <3>3. ASSUME t \in fitting PROVE lo <= t /\ t < u
        <4>1. t \in ours /\ ~(u <= t)
          BY <1>1, <1>2, <2>1, <3>3
        <4> QED BY <2>2, <3>2, <4>1
      <3>4. ASSUME lo <= t, t < u PROVE t \in fitting
        <4>1. t \in ours /\ ~(u <= t)
          BY <2>2, <3>2, <3>4
        <4> QED BY <2>1, <4>1
      <3> QED BY <3>3, <3>4
    <2>4. fitting = {t \in S : lo <= t /\ t < u}
      BY <1>1, <2>3
    <2>5. Count(S, lo) + Cardinality(fitting) = Count(S, u)
      <3>1. Cardinality({t \in S : lo <= t /\ t < u}) = Count(S, u) - Count(S, lo)
        BY <2>2, CountBetween
      <3>2. Count(S, lo) \in Nat /\ Count(S, u) \in Nat
        BY CountType
      <3>3. Cardinality(fitting) = Count(S, u) - Count(S, lo)
        BY <2>4, <3>1, Zenon
      <3> HIDE DEF Count
      <3> QED BY <3>2, <3>3
    <2>6. \A t \in S : /\ Rank(S, t) = Count(S, t) + 1 /\ Count(S, t) \in Nat
                       /\ t < u <=> Count(S, t) < Count(S, u)
                       /\ u < t <=> Count(S, u) < Count(S, t)
      BY <1>0, <2>2, CountOrder, CountType
    <2>7. TimestampAt(S, Count(S, u)) = u
      <3>1. \A t \in S : Rank(S, t) = Count(S, u) + 1 => t = u
        <4> HIDE DEF Count
        <4> QED BY <1>0, <2>2, <2>6
      <3>2. Rank(S, u) = Count(S, u) + 1
        BY <2>2, <2>6
      <3> QED BY <2>2, <3>1, <3>2 DEF TimestampAt
    <2> QED BY <2>1, <2>4, <2>5, <2>7
  <1> QED BY <1>1, <1>3 DEF FitsBelow

-----------------------------------------------------------------------------
(* The answer to one range. *)

(* What the sender of a range says of t is not so here. *)
Needs(range, lo, t, S) ==
  /\ range.type # Skip /\ lo <= t /\ t < range.upperBound
  /\ t \in S => t \notin range.content
  /\ t \notin S =>
       \/ t \in range.content
       \/ range.type = FingerprintRange /\ range.content = RandomFingerprint
       \/ /\ range.type = TimestampsRange
          /\ \E u \in range.content : ~(lo <= u /\ u < range.upperBound)

Answers(S, state, upperBound, new) ==
  /\ new \in AnyState
  /\ Buffers(S, new.output)
  /\ Grows(state.output, new.output)
  /\ ~new.done => Reaches(S, new, upperBound)
  /\ new.done => /\ LastBound(new.output) = Infinite
                 /\ \A t \in Timestamps : upperBound <= t => Answered(S, new.output, t)

Attends(S, range, lo, buffer) ==
  \A t \in Timestamps : Needs(range, lo, t, S) => Answered(S, buffer, t)

LEMMA TimestampsAreFinite ==
  \A t \in Timestamps : t \in Nat /\ t < Infinite /\ t # Infinite
  BY TimestampsAssumption, InfiniteAssumption

LEMMA RemainingRangeAnswers ==
  ASSUME NEW S \in SUBSET Timestamps, NEW buffer, Buffers(S, buffer),
         NEW bound \in 0 .. Infinite, LastBound(buffer) \in 0 .. bound,
         LastBound(buffer) < Infinite,
         NEW new, new = AddRange(buffer, RemainingRange(S, Count(S, bound)))
  PROVE  /\ Buffers(S, new) /\ Grows(buffer, new) /\ LastBound(new) = Infinite
         /\ \A t \in Timestamps : bound <= t => Answered(S, new, t)
  <1> DEFINE range == RemainingRange(S, Count(S, bound))
  <1>1. bound \in Nat /\ Infinite \in Nat /\ Infinite \in 0 .. Infinite
    BY InfiniteAssumption
  <1>2. Slice(S, Count(S, bound), Size(S)) = {t \in S : bound <= t /\ t < Infinite}
    BY <1>1, SliceIsInterval, CountEnds DEF Size
  <1>3. range = [type |-> FingerprintRange, upperBound |-> Infinite,
                 content |-> Slice(S, Count(S, bound), Size(S))]
    BY DEF RemainingRange, NewRange, Fingerprint
  <1>4. /\ range.type = FingerprintRange /\ range.upperBound = Infinite
        /\ range.content = {t \in S : bound <= t /\ t < Infinite}
    BY <1>2, <1>3
  <1>5. range.content \subseteq S
    BY <1>4
  <1>6. range \in AnyRange
    <2>1. range.content \in SUBSET (Timestamps \union {Infinite})
      BY <1>5
    <2>2. range = [type |-> FingerprintRange, upperBound |-> Infinite, content |-> range.content]
      BY <1>3
    <2> HIDE DEF range
    <2> QED BY <1>1, <2>1, <2>2 DEF AnyRange
  <1> HIDE DEF range
  <1>7. Added(S, buffer, range, new)
    <2>1. LastBound(buffer) <= range.upperBound
      BY <1>1, <1>4
    <2>2. new = AddRange(buffer, range)
      BY DEF range
    <2> QED BY <1>5, <1>6, <2>1, <2>2, AddRangeOrdered
  <1>8. ASSUME NEW t \in Timestamps, bound <= t
        PROVE  Answered(S, new, t)
    <2> DEFINE n == Len(new.ranges)
    <2>1. n \in 1 .. n /\ new.ranges[n] = range /\ Low(new.ranges, n) = LastBound(buffer)
      <3>1. Len(buffer.ranges) \in Nat
        BY BuffersType
      <3> QED BY <1>7, <3>1 DEF Added
    <2> HIDE DEF n
    <2>2. t \in Nat /\ t < Infinite /\ LastBound(buffer) <= t
      BY <1>1, <1>8, TimestampsAreFinite
    <2>3. t \in S <=> t \in range.content
      BY <1>4, <1>8, <2>2
    <2>4. Watches(new.ranges, n, t, S)
      BY <1>4, <2>1, <2>2, <2>3 DEF Watches, FingerprintRange, Skip
    <2> QED BY <2>1, <2>4 DEF Answered, WatchedIn, n
  <1> QED BY <1>4, <1>7, <1>8 DEF Added

LEMMA AnswerFingerprintAnswers ==
  ASSUME NEW S \in SUBSET Timestamps, NEW state, Reaches(S, state, state.bound),
         state.bound < Infinite, ~state.done, state.index = Count(S, state.bound),
         NEW range \in AnyRange, range.type = FingerprintRange, state.bound <= range.upperBound,
         NEW upper, upper = Count(S, range.upperBound),
         NEW new, new = AnswerFingerprint(S, state, range, upper)
  PROVE  /\ Answers(S, state, range.upperBound, new)
         /\ (range.content = Fingerprint(S, state.index, upper) \/ CanSplitRange(state.output))
              => Attends(S, range, state.bound, new.output)
  <1> DEFINE lo == state.bound
             ub == range.upperBound
             ours == {t \in S : lo <= t /\ t < ub}
  <1>1. /\ lo \in Nat /\ lo \in 0 .. Infinite /\ ub \in Nat /\ ub \in 0 .. Infinite /\ Infinite \in Nat
        /\ state \in AnyState /\ Buffers(S, state.output) /\ LastBound(state.output) \in 0 .. lo
        /\ state.output \in AnyBuffer
    BY InfiniteAssumption, BuffersType DEF Reaches, AnyRange
  <1>2. Fingerprint(S, state.index, upper) = ours
    BY <1>1, SliceIsInterval DEF Fingerprint
  <1> HIDE DEF lo, ub
  <1>3. CASE range.content = ours
    <2>1. new = SkipRange(state, range)
      BY <1>2, <1>3 DEF AnswerFingerprint
    <2>2. Skips(S, state, range.upperBound, new)
      <3>1. lo < Infinite /\ lo <= range.upperBound /\ Reaches(S, state, lo)
        BY DEF lo
      <3> QED BY <2>1, <3>1, SkipRangeSkips
    <2>3. Answers(S, state, range.upperBound, new)
      BY <2>2 DEF Skips, Answers, Reaches
    <2>4. Attends(S, range, state.bound, new.output)
      <3>1. ASSUME NEW t \in Timestamps, Needs(range, lo, t, S)
            PROVE  FALSE
        <4>1. CASE t \in S
          <5>1. t \notin range.content /\ lo <= t /\ t < ub
            BY <3>1, <4>1 DEF Needs, ub
          <5> QED BY <1>3, <4>1, <5>1
        <4>2. CASE t \notin S
          <5>1. t \in range.content \/ range.content = {Infinite}
            BY <3>1, <4>2 DEF Needs, TimestampsRange, FingerprintRange, RandomFingerprint
          <5>2. Infinite \notin S
            BY TimestampsAreFinite
          <5> QED BY <1>3, <4>2, <5>1, <5>2
        <4> QED BY <4>1, <4>2
      <3> QED BY <3>1 DEF Attends, lo
    <2> QED BY <2>3, <2>4
  <1>4. CASE range.content # ours /\ CanSplitRange(state.output)
    <2> DEFINE coalesced == CoalesceSkips(state)
               buffer == SplitRange(S, state.index, upper, range.upperBound, coalesced.output)
    <2>1. new = [coalesced EXCEPT !.output = buffer]
      BY <1>2, <1>4 DEF AnswerFingerprint
    <2>2. Coalesced(S, state, lo, coalesced)
      BY CoalesceSkipsCoalesces DEF lo
    <2> HIDE DEF coalesced
    <2>3. Splits(S, coalesced.output, lo, ub, buffer)
      <3>1. buffer = SplitRange(S, Count(S, lo), Count(S, ub), ub, coalesced.output)
        BY DEF lo, ub
      <3>2. Buffers(S, coalesced.output) /\ LastBound(coalesced.output) = lo /\ lo < Infinite /\ lo <= ub
        BY <2>2 DEF Coalesced, lo, ub
      <3> HIDE DEF buffer
      <3> QED BY <1>1, <3>1, <3>2, SplitRangeAnswers
    <2> HIDE DEF buffer
    <2>4. /\ Buffers(S, buffer) /\ buffer \in AnyBuffer /\ LastBound(buffer) = ub
          /\ Grows(state.output, buffer)
          /\ \A t \in Nat : lo <= t /\ t < ub => Answered(S, buffer, t)
      <3>1. /\ Buffers(S, buffer) /\ LastBound(buffer) = ub /\ Grows(coalesced.output, buffer)
            /\ \A t \in Nat : lo <= t /\ t < ub => Answered(S, buffer, t)
        BY <2>3 DEF Splits
      <3>2. Grows(state.output, coalesced.output) /\ Buffers(S, coalesced.output)
        BY <2>2 DEF Coalesced
      <3>3. Grows(state.output, buffer)
        BY <1>1, <3>1, <3>2, BuffersType, GrowsTransitive
      <3> QED BY <3>1, <3>3, BuffersType
    <2>5. /\ new \in AnyState /\ new.output = buffer /\ new.added /\ ~new.skip /\ ~new.done
      BY <2>1, <2>2, <2>4 DEF Coalesced, AnyState
    <2>6. Reaches(S, new, ub)
      BY <1>1, <2>4, <2>5 DEF Reaches
    <2>7. Answers(S, state, ub, new)
      BY <2>4, <2>5, <2>6 DEF Answers
    <2>8. Attends(S, range, lo, new.output)
      <3>1. \A t \in Timestamps : Needs(range, lo, t, S) => t \in Nat /\ lo <= t /\ t < ub
        BY TimestampsAreFinite DEF Needs, ub
      <3> QED BY <2>4, <2>5, <3>1 DEF Attends
    <2> QED BY <2>7, <2>8 DEF lo, ub
  <1>5. CASE range.content # ours /\ ~CanSplitRange(state.output)
    <2> DEFINE buffer == AddRange(state.output, RemainingRange(S, upper))
    <2>1. new = [state EXCEPT !.output = buffer, !.done = TRUE]
      BY <1>2, <1>5 DEF AnswerFingerprint
    <2>2. /\ Buffers(S, buffer) /\ Grows(state.output, buffer) /\ LastBound(buffer) = Infinite
          /\ \A t \in Timestamps : ub <= t => Answered(S, buffer, t)
      <3>1. LastBound(state.output) \in 0 .. ub /\ LastBound(state.output) < Infinite
        <4>1. lo < Infinite /\ lo <= ub
          BY DEF lo, ub
        <4> QED BY <1>1, <4>1
      <3>2. buffer = AddRange(state.output, RemainingRange(S, Count(S, ub)))
        BY DEF ub
      <3> HIDE DEF buffer
      <3> QED BY <1>1, <3>1, <3>2, RemainingRangeAnswers
    <2> HIDE DEF buffer
    <2>3. buffer \in AnyBuffer
      BY <2>2, BuffersType
    <2>4. new \in AnyState /\ new.output = buffer /\ new.done
      BY <1>1, <2>1, <2>3 DEF AnyState
    <2>5. Answers(S, state, ub, new)
      BY <2>2, <2>4 DEF Answers
    <2> QED BY <1>2, <1>5, <2>5 DEF ub
  <1> QED BY <1>3, <1>4, <1>5

LEMMA AnswerTimestampsAnswers ==
  ASSUME NEW S \in SUBSET Timestamps, NEW state, Reaches(S, state, state.bound),
         state.bound < Infinite, ~state.done, state.index = Count(S, state.bound),
         NEW range \in AnyRange, range.type = TimestampsRange, state.bound <= range.upperBound,
         NEW upper, upper = Count(S, range.upperBound),
         NEW new, new = AnswerTimestamps(S, state, range, upper)
  PROVE  /\ Answers(S, state, range.upperBound, new)
         /\ Attends(S, range, state.bound, new.output)
  <1> DEFINE lo == state.bound
             ub == range.upperBound
             theirs == range.content
             ours == {t \in S : lo <= t /\ t < ub}
             fitting == Fitting(ours, theirs, state.output)
             filled == [state EXCEPT !.output.messages = @ \union (fitting \ theirs)]
  <1>1. /\ lo \in Nat /\ lo \in 0 .. Infinite /\ ub \in Nat /\ ub \in 0 .. Infinite /\ Infinite \in Nat
        /\ state \in AnyState /\ Buffers(S, state.output) /\ LastBound(state.output) \in 0 .. lo
        /\ state.output \in AnyBuffer
    BY InfiniteAssumption, BuffersType DEF Reaches, AnyRange
  <1>2. Slice(S, state.index, upper) = ours
    BY <1>1, SliceIsInterval
  <1>3. /\ fitting \subseteq ours
        /\ fitting # ours =>
             \E u \in ours : /\ fitting = {t \in S : lo <= t /\ t < u}
                             /\ Count(S, lo) + Cardinality(fitting) = Count(S, u)
                             /\ TimestampAt(S, Count(S, u)) = u
    <2>1. FitsBelow(S, lo, ub, fitting)
      <3> HIDE DEF lo, ub, theirs
      <3> QED BY <1>1, FittingIsPrefix
    <2> HIDE DEF fitting
    <2> QED BY <2>1 DEF FitsBelow
  <1> HIDE DEF fitting
  <1>4. /\ filled \in AnyState /\ filled.bound = lo /\ filled.skip = state.skip
        /\ filled.added = state.added /\ filled.done = state.done
        /\ filled.output.ranges = state.output.ranges
        /\ filled.output.messages = state.output.messages \union (fitting \ theirs)
        /\ filled.index = state.index
        /\ filled.output \in [messages : SUBSET S, ranges : Seq(AnyRange)]
    <2>1. state.output.messages \union (fitting \ theirs) \in SUBSET S
      BY <1>1, <1>3 DEF Buffers
    <2>2. state.output.messages \union (fitting \ theirs) \in SUBSET Timestamps
      BY <2>1
    <2> DEFINE output == [state.output EXCEPT !.messages = @ \union (fitting \ theirs)]
    <2>3. /\ output = [messages |-> state.output.messages \union (fitting \ theirs),
                       ranges |-> state.output.ranges]
      <3> DEFINE messages == state.output.messages \union (fitting \ theirs)
      <3>1. output = [state.output EXCEPT !.messages = messages]
        OBVIOUS
      <3> HIDE DEF output, messages
      <3>2. output = [messages |-> messages, ranges |-> state.output.ranges]
        BY <1>1, <3>1, BufferRecord DEF AnyBuffer
      <3> QED BY <3>2 DEF messages
    <2>4. filled = [state EXCEPT !.output = output]
      OBVIOUS
    <2>5. state.output.ranges \in Seq(AnyRange)
      BY <1>1 DEF AnyBuffer
    <2>6. output \in AnyBuffer /\ output \in [messages : SUBSET S, ranges : Seq(AnyRange)]
      BY <2>1, <2>2, <2>3, <2>5 DEF AnyBuffer
    <2>7. output.ranges = state.output.ranges
          /\ output.messages = state.output.messages \union (fitting \ theirs)
      BY <2>3
    <2> HIDE DEF output, filled
    <2> QED BY <1>1, <2>4, <2>6, <2>7 DEF AnyState, lo
  <1>5. new = IF fitting # ours
              THEN [[CoalesceSkips(filled) EXCEPT
                       !.output = AddRange(@, NewRange(TimestampsRange,
                                    TimestampAt(S, state.index + Cardinality(fitting)), fitting))]
                    EXCEPT !.output = AddRange(@, RemainingRange(S, state.index + Cardinality(fitting))),
                           !.done = TRUE]
              ELSE IF theirs \subseteq ours THEN SkipRange(filled, range)
              ELSE [CoalesceSkips(filled) EXCEPT
                      !.output = AddRange(@, NewRange(TimestampsRange, ub, fitting))]
    BY <1>2 DEF AnswerTimestamps, fitting
  <1> HIDE DEF filled, theirs
  <1>6. Buffers(S, filled.output) /\ Grows(state.output, filled.output)
        /\ LastBound(filled.output) = LastBound(state.output) /\ filled.output \in AnyBuffer
    <2>1. Buffers(S, filled.output)
      BY <1>1, <1>4 DEF Buffers
    <2>2. Grows(state.output, filled.output)
      BY <1>1, <1>4 DEF Grows, AnyBuffer
    <2> QED BY <1>4, <2>1, <2>2, BuffersType DEF LastBound
  <1>7. Reaches(S, filled, filled.bound) /\ filled.bound < Infinite
    BY <1>1, <1>4, <1>6 DEF Reaches, lo
  <1> DEFINE coalesced == CoalesceSkips(filled)
  <1>8. /\ Coalesced(S, filled, lo, coalesced)
        /\ coalesced \in AnyState /\ Buffers(S, coalesced.output) /\ coalesced.output \in AnyBuffer
        /\ LastBound(coalesced.output) = lo
        /\ coalesced.added /\ ~coalesced.skip /\ ~coalesced.done
        /\ Grows(state.output, coalesced.output)
    <2>1. Coalesced(S, filled, lo, coalesced)
      BY <1>4, <1>7, CoalesceSkipsCoalesces
    <2> HIDE DEF coalesced
    <2>2. Grows(state.output, coalesced.output)
      BY <1>1, <1>6, <2>1, BuffersType, GrowsTransitive DEF Coalesced
    <2> QED BY <1>4, <2>1, <2>2, BuffersType DEF Coalesced
  <1> HIDE DEF coalesced
  (* A range of the timestamps that fit, up to a bound below which all fit. *)
  <1>9. ASSUME NEW bound \in 0 .. Infinite, lo <= bound, fitting = {t \in S : lo <= t /\ t < bound},
               NEW buffer, buffer = AddRange(coalesced.output, NewRange(TimestampsRange, bound, fitting))
        PROVE  /\ Buffers(S, buffer) /\ buffer \in AnyBuffer /\ LastBound(buffer) = bound
               /\ Grows(state.output, buffer)
               /\ \A t \in Timestamps : lo <= t /\ t < bound => Answered(S, buffer, t)
    <2> DEFINE listed == NewRange(TimestampsRange, bound, fitting)
    <2>1. /\ listed \in AnyRange /\ listed.content = fitting /\ listed.upperBound = bound
          /\ listed.type = TimestampsRange /\ fitting \subseteq S
      <3>1. fitting \subseteq S
        BY <1>3
      <3> QED BY <3>1 DEF NewRange, AnyRange
    <2> HIDE DEF listed
    <2>2. Added(S, coalesced.output, listed, buffer)
      <3>1. LastBound(coalesced.output) < Infinite /\ LastBound(coalesced.output) <= listed.upperBound
            /\ listed.content \subseteq S /\ buffer = AddRange(coalesced.output, listed)
        BY <1>8, <1>9, <2>1 DEF lo, listed
      <3> QED BY <1>8, <2>1, <3>1, AddRangeOrdered
    <2>3. Grows(state.output, buffer)
      <3>1. Grows(coalesced.output, buffer) /\ Buffers(S, buffer)
        BY <2>2 DEF Added
      <3> QED BY <1>1, <1>8, <3>1, BuffersType, GrowsTransitive
    <2>4. ASSUME NEW t \in Timestamps, lo <= t, t < bound
          PROVE  Answered(S, buffer, t)
      <3> DEFINE n == Len(buffer.ranges)
      <3>1. n \in 1 .. n /\ buffer.ranges[n] = listed /\ Low(buffer.ranges, n) = lo
        <4>1. Len(coalesced.output.ranges) \in Nat
          BY <1>8, BuffersType
        <4> QED BY <1>8, <2>2, <4>1 DEF Added
      <3> HIDE DEF n
      <3>2. t \in S <=> t \in listed.content
        BY <1>9, <2>1, <2>4
      <3>3. Watches(buffer.ranges, n, t, S)
        BY <2>1, <2>4, <3>1, <3>2 DEF Watches, TimestampsRange, Skip
      <3> QED BY <3>1, <3>3 DEF Answered, WatchedIn, n
    <2> QED BY <2>1, <2>2, <2>3, <2>4, BuffersType DEF Added
  <1>10. \A t \in Timestamps : Needs(range, lo, t, S) => t \in Nat /\ lo <= t /\ t < ub
    BY TimestampsAreFinite DEF Needs
  <1>11. CASE fitting # ours
    <2>1. PICK u \in ours : /\ fitting = {t \in S : lo <= t /\ t < u}
                            /\ Count(S, lo) + Cardinality(fitting) = Count(S, u)
                            /\ TimestampAt(S, Count(S, u)) = u
      BY <1>3, <1>11
    <2>2. u \in Nat /\ u < Infinite /\ u \in 0 .. Infinite /\ lo <= u /\ u < ub
      BY <1>1, TimestampsAreFinite
    <2>3. state.index + Cardinality(fitting) = Count(S, u)
      BY <2>1 DEF lo
    <2> DEFINE first == AddRange(coalesced.output, NewRange(TimestampsRange, u, fitting))
               buffer == AddRange(first, RemainingRange(S, Count(S, u)))
    <2>4. new = [coalesced EXCEPT !.output = buffer, !.done = TRUE]
      <3>1. TimestampAt(S, state.index + Cardinality(fitting)) = u
        BY <2>1, <2>3
      <3>2. new = [[coalesced EXCEPT !.output = first] EXCEPT
                     !.output = AddRange(@, RemainingRange(S, Count(S, u))), !.done = TRUE]
        BY <1>5, <1>11, <2>3, <3>1 DEF coalesced
      <3> HIDE DEF first
      <3> QED BY <1>8, <3>2 DEF AnyState
    <2>5. /\ Buffers(S, first) /\ first \in AnyBuffer /\ LastBound(first) = u
          /\ Grows(state.output, first)
          /\ \A t \in Timestamps : lo <= t /\ t < u => Answered(S, first, t)
      <3> HIDE DEF first
      <3>1. first = AddRange(coalesced.output, NewRange(TimestampsRange, u, fitting))
        BY DEF first
      <3> QED BY <1>9, <2>1, <2>2, <3>1
    <2> HIDE DEF first
    <2>6. /\ Buffers(S, buffer) /\ Grows(first, buffer) /\ LastBound(buffer) = Infinite
          /\ \A t \in Timestamps : u <= t => Answered(S, buffer, t)
      <3> HIDE DEF buffer
      <3>1. buffer = AddRange(first, RemainingRange(S, Count(S, u)))
        BY DEF buffer
      <3>2. LastBound(first) \in 0 .. u /\ LastBound(first) < Infinite
        BY <2>2, <2>5
      <3> QED BY <2>2, <2>5, <3>1, <3>2, RemainingRangeAnswers
    <2> HIDE DEF buffer
    <2>7. buffer \in AnyBuffer /\ Grows(state.output, buffer)
      BY <1>1, <2>5, <2>6, BuffersType, GrowsTransitive
    <2>8. \A t \in Timestamps : lo <= t => Answered(S, buffer, t)
      <3>1. ASSUME NEW t \in Timestamps, lo <= t, ~(u <= t)
            PROVE  Answered(S, buffer, t)
        <4>1. t < u
          BY <2>2, <3>1, TimestampsAreFinite
        <4>2. Answered(S, first, t)
          BY <2>5, <3>1, <4>1
        <4> QED BY <2>5, <2>6, <4>2, BuffersType, AnsweredGrows
      <3> QED BY <2>6, <3>1
    <2>9. new \in AnyState /\ new.output = buffer /\ new.done
      BY <1>8, <2>4, <2>7 DEF AnyState
    <2>10. \A t \in Timestamps : ub <= t => lo <= t
      BY <1>1, <2>2, TimestampsAreFinite
    <2>11. Answers(S, state, ub, new)
      BY <2>6, <2>7, <2>8, <2>9, <2>10 DEF Answers
    <2>12. Attends(S, range, lo, new.output)
      BY <1>10, <2>8, <2>9 DEF Attends
    <2> QED BY <2>11, <2>12
  <1>12. CASE fitting = ours /\ theirs \subseteq ours
    <2>1. new = SkipRange(filled, range)
      BY <1>5, <1>12
    <2>2. Skips(S, filled, ub, new)
      BY <1>4, <1>7, <2>1, SkipRangeSkips
    <2>3. Grows(state.output, new.output) /\ Buffers(S, new.output) /\ Grows(filled.output, new.output)
      BY <1>1, <1>6, <2>2, BuffersType, GrowsTransitive DEF Skips, Reaches
    <2>4. Answers(S, state, ub, new)
      BY <1>4, <2>2, <2>3 DEF Skips, Answers, Reaches
    <2>5. ASSUME NEW t \in Timestamps, Needs(range, lo, t, S)
          PROVE  Answered(S, new.output, t)
      <3>1. lo <= t /\ t < ub
        BY <2>5 DEF Needs
      <3>2. t \in S
        <4>1. SUFFICES ASSUME t \notin S PROVE FALSE
          OBVIOUS
        <4>2. t \in theirs \/ \E u \in theirs : ~(lo <= u /\ u < ub)
          BY <2>5, <4>1 DEF Needs, TimestampsRange, FingerprintRange, theirs
        <4> QED BY <1>12, <4>1, <4>2
      <3>3. t \notin theirs
        BY <2>5, <3>2 DEF Needs, theirs
      <3>4. t \in fitting
        BY <1>12, <3>1, <3>2
      <3>5. t \in new.output.messages
        BY <1>4, <2>3, <3>3, <3>4 DEF Grows
      <3> QED BY <3>2, <3>5 DEF Answered, WatchedIn
    <2> QED BY <2>4, <2>5 DEF Attends
  <1>13. CASE fitting = ours /\ ~(theirs \subseteq ours)
    <2> DEFINE buffer == AddRange(coalesced.output, NewRange(TimestampsRange, ub, fitting))
    <2>1. new = [coalesced EXCEPT !.output = buffer]
      BY <1>5, <1>13 DEF coalesced
    <2> HIDE DEF buffer
    <2>2. /\ Buffers(S, buffer) /\ buffer \in AnyBuffer /\ LastBound(buffer) = ub
          /\ Grows(state.output, buffer)
          /\ \A t \in Timestamps : lo <= t /\ t < ub => Answered(S, buffer, t)
      <3>1. buffer = AddRange(coalesced.output, NewRange(TimestampsRange, ub, fitting))
        BY DEF buffer
      <3> QED BY <1>1, <1>9, <1>13, <3>1
    <2>3. /\ new \in AnyState /\ new.output = buffer /\ new.added /\ ~new.skip /\ ~new.done
      BY <1>8, <2>1, <2>2 DEF AnyState
    <2>4. Reaches(S, new, ub)
      BY <1>1, <2>2, <2>3 DEF Reaches
    <2>5. Answers(S, state, ub, new)
      BY <2>2, <2>3, <2>4 DEF Answers
    <2>6. Attends(S, range, lo, new.output)
      BY <1>10, <2>2, <2>3 DEF Attends
    <2> QED BY <2>5, <2>6
  <1> QED BY <1>11, <1>12, <1>13

-----------------------------------------------------------------------------
(* The answer to all of them. *)

(* After the first n ranges. *)
Along(S, ranges, n, state) ==
  /\ state \in AnyState
  /\ Buffers(S, state.output)
  /\ state.bound <= Low(ranges, n + 1)
  /\ ~state.done => /\ state.bound = Low(ranges, n + 1)
                    /\ state.index = Count(S, state.bound)
                    /\ Reaches(S, state, state.bound)
  /\ state.done => /\ LastBound(state.output) = Infinite
                   /\ \A t \in Timestamps : state.bound <= t => Answered(S, state.output, t)

Attended(S, ranges, n, buffer) ==
  \A i \in 1 .. n : Attends(S, ranges[i], Low(ranges, i), buffer)

Cut(S, state, range) ==
  LET upper == LowerBound(S, state.index, Size(S), range.upperBound)
  IN  /\ ~state.done /\ range.type = FingerprintRange
      /\ range.content # Fingerprint(S, state.index, upper)
      /\ ~CanSplitRange(state.output)

Advances(S, ranges, n, state, new) ==
  /\ Along(S, ranges, n, new)
  /\ Grows(state.output, new.output)
  /\ ~Cut(S, state, ranges[n]) => Attends(S, ranges[n], Low(ranges, n), new.output)

LEMMA AttendsGrows ==
  ASSUME NEW S, NEW range, NEW lo, NEW old, NEW new,
         old.ranges \in Seq(AnyRange), new.ranges \in Seq(AnyRange),
         Grows(old, new), Attends(S, range, lo, old)
  PROVE  Attends(S, range, lo, new)
  BY AnsweredGrows DEF Attends

LEMMA AnswerRangeAdvances ==
  ASSUME NEW S \in SUBSET Timestamps, NEW ranges, Covering(ranges),
         NEW n \in 1 .. Len(ranges), NEW state, Along(S, ranges, n - 1, state),
         NEW new, new = AnswerRange(S, state, ranges[n])
  PROVE  Advances(S, ranges, n, state, new)
  <1> DEFINE range == ranges[n]
             lo == Low(ranges, n)
             ub == range.upperBound
             upper == LowerBound(S, state.index, Size(S), ub)
             answered == CASE range.type = Skip -> SkipRange(state, range)
                           [] range.type = FingerprintRange -> AnswerFingerprint(S, state, range, upper)
                           [] range.type = TimestampsRange -> AnswerTimestamps(S, state, range, upper)
  <1>1. ranges \in Seq(AnyRange) /\ Len(ranges) \in Nat /\ range \in AnyRange
        /\ n \in Nat /\ n - 1 + 1 = n /\ n + 1 - 1 = n /\ n + 1 # 1
    BY DEF Covering, Ordered
  <1>2. ub \in 0 .. Infinite /\ ub \in Nat /\ Infinite \in Nat
        /\ range.type \in {Skip, FingerprintRange, TimestampsRange}
    BY <1>1, InfiniteAssumption DEF AnyRange
  <1>3. Low(ranges, n + 1) = ub
    BY <1>1 DEF Low
  <1>4. lo <= ub
    BY DEF Covering, Ordered
  <1>5. lo \in Nat /\ lo < Infinite
    <2>1. CASE n = 1
      BY <2>1, InfiniteAssumption DEF Low
    <2>2. CASE n # 1
      <3>1. n - 1 \in 1 .. Len(ranges) /\ n - 1 < Len(ranges)
        BY <1>1, <2>2
      <3>2. ranges[n - 1].upperBound # Infinite /\ ranges[n - 1] \in AnyRange
        BY <1>1, <3>1 DEF Covering, Ordered
      <3>3. ranges[n - 1].upperBound \in 0 .. Infinite
        BY <3>2 DEF AnyRange
      <3> QED BY <1>2, <2>2, <3>2, <3>3 DEF Low
    <2> QED BY <2>1, <2>2
  <1>6. /\ state \in AnyState /\ Buffers(S, state.output) /\ state.bound <= lo
        /\ ~state.done => /\ state.bound = lo
                          /\ state.index = Count(S, state.bound)
                          /\ Reaches(S, state, state.bound)
        /\ state.done => /\ LastBound(state.output) = Infinite
                         /\ \A t \in Timestamps : state.bound <= t => Answered(S, state.output, t)
    BY <1>1 DEF Along
  <1>7. state.output.ranges \in Seq(AnyRange) /\ Grows(state.output, state.output)
        /\ state.bound \in Nat /\ state.done \in BOOLEAN
    BY <1>2, <1>6, BuffersType DEF AnyState
  <1>8. new = IF state.done THEN state
              ELSE [answered EXCEPT !.index = upper, !.bound = ub]
    BY DEF AnswerRange
  <1> HIDE DEF range, lo, ub, answered
  <1>9. CASE state.done
    <2>1. new = state
      BY <1>8, <1>9
    <2>2. state.bound <= Low(ranges, n + 1)
      BY <1>2, <1>3, <1>4, <1>5, <1>6, <1>7
    <2>3. Along(S, ranges, n, new)
      BY <1>6, <1>9, <2>1, <2>2 DEF Along
    <2>4. Attends(S, range, lo, new.output)
      <3>1. ASSUME NEW t \in Timestamps, Needs(range, lo, t, S)
            PROVE  state.bound <= t
        <4>1. lo <= t /\ t \in Nat
          BY <3>1, TimestampsAreFinite DEF Needs
        <4> QED BY <1>5, <1>6, <1>7, <4>1
      <3> QED BY <1>6, <1>9, <2>1, <3>1 DEF Attends
    <2> QED BY <1>7, <2>1, <2>3, <2>4 DEF Advances, range, lo
  <1>10. CASE ~state.done
    <2>1. state.bound = lo /\ state.index = Count(S, lo) /\ Reaches(S, state, state.bound)
          /\ state.bound < Infinite /\ state.bound <= range.upperBound
      BY <1>4, <1>5, <1>6, <1>10 DEF ub
    <2>2. upper = Count(S, ub) /\ upper \in Nat
      <3>1. upper = LowerBound(S, Count(S, lo), Size(S), ub)
        BY <2>1
      <3>2. LowerBound(S, Count(S, lo), Size(S), ub) = Count(S, ub)
        BY <1>2, <1>4, <1>5, LowerBoundCounts
      <3>3. Count(S, ub) \in Nat
        BY CountType
      <3> HIDE DEF upper
      <3> QED BY <3>1, <3>2, <3>3
    <2>3. new = [answered EXCEPT !.index = upper, !.bound = ub]
      BY <1>8, <1>10
    <2> HIDE DEF upper
    <2>4. /\ Answers(S, state, ub, answered)
          /\ ~Cut(S, state, range) => Attends(S, range, lo, answered.output)
      <3>1. CASE range.type = Skip
        <4>1. answered = SkipRange(state, range)
          BY <3>1 DEF answered, Skip, FingerprintRange, TimestampsRange
        <4>2. Skips(S, state, ub, answered)
          BY <1>1, <2>1, <4>1, SkipRangeSkips DEF ub
        <4>3. Answers(S, state, ub, answered)
          BY <1>10, <4>2 DEF Skips, Answers, Reaches
        <4>4. Attends(S, range, lo, answered.output)
          BY <3>1 DEF Attends, Needs
        <4> QED BY <4>3, <4>4
      <3>2. CASE range.type = FingerprintRange
        <4>1. answered = AnswerFingerprint(S, state, range, upper)
          BY <3>2 DEF answered, Skip, FingerprintRange, TimestampsRange
        <4>2. /\ Answers(S, state, range.upperBound, answered)
              /\ (range.content = Fingerprint(S, state.index, upper) \/ CanSplitRange(state.output))
                   => Attends(S, range, state.bound, answered.output)
          <5>1. state.index = Count(S, state.bound) /\ upper = Count(S, range.upperBound)
            BY <2>1, <2>2 DEF ub
          <5> HIDE DEF answered
          <5> QED BY <1>1, <1>10, <2>1, <3>2, <4>1, <5>1, AnswerFingerprintAnswers
        <4>3. ~Cut(S, state, range) =>
                range.content = Fingerprint(S, state.index, upper) \/ CanSplitRange(state.output)
          BY <1>10, <3>2 DEF Cut, upper, ub
        <4> QED BY <2>1, <4>2, <4>3 DEF ub
      <3>3. CASE range.type = TimestampsRange
        <4>1. answered = AnswerTimestamps(S, state, range, upper)
          BY <3>3 DEF answered, Skip, FingerprintRange, TimestampsRange
        <4>2. Answers(S, state, range.upperBound, answered) /\ Attends(S, range, state.bound, answered.output)
          <5>1. state.index = Count(S, state.bound) /\ upper = Count(S, range.upperBound)
            BY <2>1, <2>2 DEF ub
          <5> HIDE DEF answered
          <5> QED BY <1>1, <1>10, <2>1, <3>3, <4>1, <5>1, AnswerTimestampsAnswers
        <4> QED BY <2>1, <4>2 DEF ub
      <3> QED BY <1>2, <3>1, <3>2, <3>3
    <2>5. answered \in AnyState
      BY <2>4 DEF Answers
    <2>6. /\ new \in AnyState /\ new.output = answered.output /\ new.skip = answered.skip
          /\ new.added = answered.added /\ new.done = answered.done
          /\ new.index = upper /\ new.bound = ub
      BY <1>2, <2>2, <2>3, <2>5 DEF AnyState
    <2>7. Along(S, ranges, n, new)
      <3>1. Buffers(S, new.output)
        BY <2>4, <2>6 DEF Answers
      <3>2. ASSUME ~new.done
            PROVE  Reaches(S, new, new.bound)
        BY <2>4, <2>6, <3>2 DEF Answers, Reaches
      <3>3. ASSUME new.done
            PROVE  /\ LastBound(new.output) = Infinite
                   /\ \A t \in Timestamps : new.bound <= t => Answered(S, new.output, t)
        BY <2>4, <2>6, <3>3 DEF Answers
      <3>4. new.bound <= Low(ranges, n + 1) /\ new.bound = Low(ranges, n + 1)
        BY <1>2, <1>3, <2>6
      <3> QED BY <2>2, <2>6, <3>1, <3>2, <3>3, <3>4 DEF Along
    <2> QED BY <2>4, <2>6, <2>7 DEF Answers, Advances, range, lo
  <1> QED BY <1>7, <1>9, <1>10

(* What sync makes of the ranges of the other side. *)
Synchronizes(S, ranges, output) ==
  /\ Buffers(S, output)
  /\ Covering(output.ranges)
  /\ ~CutsRange(S, ranges) => Attended(S, ranges, Len(ranges), output)

LEMMA SyncSynchronizes ==
  ASSUME NEW S \in SUBSET Timestamps, NEW ranges, Covering(ranges)
  PROVE  Synchronizes(S, ranges, Sync(S, ranges))
  <1> DEFINE N == Len(ranges)
             state == SyncStates(S, ranges)
             Good(n) == /\ Along(S, ranges, n, state[n])
                        /\ ~CutsRange(S, ranges) => Attended(S, ranges, n, state[n].output)
  <1>1. ranges \in Seq(AnyRange) /\ N \in Nat
    BY DEF Covering, Ordered
  <1>2. /\ state[0] = Start
        /\ \A n \in 1 .. N : state[n] = AnswerRange(S, state[n - 1], ranges[n])
    BY <1>1, SyncStatesStep
  <1>0. \A n \in 1 .. N : ~CutsRange(S, ranges) => ~Cut(S, state[n - 1], ranges[n])
    BY DEF CutsRange, Cut
  <1> HIDE DEF state
  <1>3. Good(0)
    <2>1. /\ Start \in AnyState /\ Start.output = EmptyBuffer /\ Start.bound = 0 /\ Start.index = 0
          /\ ~Start.done /\ ~Start.added /\ ~Start.skip
      <3>1. EmptyBuffer \in AnyBuffer
        BY DEF EmptyBuffer, AnyBuffer
      <3> QED BY <3>1, InfiniteAssumption DEF Start, AnyState
    <2>2. Buffers(S, EmptyBuffer) /\ LastBound(EmptyBuffer) = 0 /\ EmptyBuffer.ranges = <<>>
      BY DEF EmptyBuffer, Buffers, Ordered, LastBound, Low
    <2>3. Reaches(S, Start, 0)
      BY <2>1, <2>2, InfiniteAssumption DEF Reaches
    <2>4. Low(ranges, 0 + 1) = 0
      BY DEF Low
    <2>5. Along(S, ranges, 0, Start)
      BY <2>1, <2>2, <2>3, <2>4, CountEnds DEF Along
    <2>6. Attended(S, ranges, 0, Start.output)
      BY DEF Attended
    <2> QED BY <1>2, <2>5, <2>6
  <1>4. ASSUME NEW n \in 1 .. N, Good(n - 1)
        PROVE  Good(n)
    <2>1. Advances(S, ranges, n, state[n - 1], state[n])
      BY <1>2, <1>4, AnswerRangeAdvances
    <2>2. ASSUME ~CutsRange(S, ranges)
          PROVE  Attended(S, ranges, n, state[n].output)
      <3>1. Attends(S, ranges[n], Low(ranges, n), state[n].output)
        BY <1>0, <2>1, <2>2 DEF Advances
      <3>2. \A i \in 1 .. n - 1 : Attends(S, ranges[i], Low(ranges, i), state[n - 1].output)
        BY <1>4, <2>2 DEF Attended
      <3>3. /\ state[n - 1].output.ranges \in Seq(AnyRange) /\ state[n].output.ranges \in Seq(AnyRange)
            /\ Grows(state[n - 1].output, state[n].output)
        BY <1>4, <2>1, BuffersType DEF Advances, Along
      <3>4. \A i \in 1 .. n - 1 : Attends(S, ranges[i], Low(ranges, i), state[n].output)
        BY <3>2, <3>3, AttendsGrows
      <3>5. \A i \in 1 .. n : i \in 1 .. n - 1 \/ i = n
        BY <1>1
      <3> QED BY <3>1, <3>4, <3>5 DEF Attended
    <2> QED BY <2>1, <2>2 DEF Advances
  <1> HIDE DEF Good
  <1>5. Good(N)
    <2> DEFINE T == {n \in 0 .. N : ~Good(n)}
    <2>1. SUFFICES ASSUME T # {} PROVE FALSE
      BY <1>1
    <2>2. T \subseteq Nat
      BY <1>1
    <2>3. PICK n \in T : \A m \in T : n <= m
      <3> HIDE DEF T
      <3> QED BY <2>1, <2>2, LeastNatural
    <2>4. n \in 0 .. N /\ ~Good(n) /\ n # 0
      BY <1>3, <2>3
    <2>5. n \in 1 .. N /\ n - 1 \in 0 .. N /\ ~(n <= n - 1)
      BY <1>1, <2>4
    <2>6. Good(n - 1)
      BY <2>3, <2>5
    <2> QED BY <1>4, <2>4, <2>5, <2>6
  <1> DEFINE output == state[N].output
  <1>6. Sync(S, ranges) = output
    BY DEF Sync, state
  <1>7. /\ Along(S, ranges, N, state[N])
        /\ ~CutsRange(S, ranges) => Attended(S, ranges, N, output)
    BY <1>5 DEF Good
  <1>8. Buffers(S, output)
    BY <1>7 DEF Along
  <1>9. Covering(output.ranges)
    <2>1. Ordered(output.ranges)
      BY <1>8 DEF Buffers
    <2>2. ASSUME output.ranges # <<>>
          PROVE  LastBound(output) = Infinite
      <3>1. CASE state[N].done
        BY <1>7, <3>1 DEF Along
      <3>2. CASE ~state[N].done
        <4>1. Reaches(S, state[N], state[N].bound) /\ state[N].bound = Low(ranges, N + 1)
          BY <1>7, <3>2 DEF Along
        <4>2. state[N].added
          BY <2>2, <4>1 DEF Reaches
        <4>3. ranges # <<>>
          <5>1. SUFFICES ASSUME ranges = <<>> PROVE FALSE
            OBVIOUS
          <5>2. N = 0 /\ output.ranges = <<>>
            BY <1>2, <5>1 DEF Start, EmptyBuffer
          <5> QED BY <2>2, <5>2
        <4>4. state[N].bound = Infinite
          BY <4>1, <4>3 DEF Covering
        <4> QED BY <4>1, <4>2, <4>4 DEF Reaches
      <3> QED BY <1>7, <3>1, <3>2
    <2> QED BY <2>1, <2>2 DEF Covering, LastBound
  <1> HIDE DEF output
  <1> QED BY <1>6, <1>7, <1>8, <1>9 DEF Synchronizes

-----------------------------------------------------------------------------
(* The elements of queues. *)

LEMMA Members ==
  ASSUME NEW X, NEW s \in Seq(X)
  PROVE  ToSet(s) = {s[i] : i \in 1 .. Len(s)} /\ ToSet(s) \in SUBSET X
  BY DEF ToSet

LEMMA EmptyMembers ==
  ToSet(<<>>) = {}
  BY DEF ToSet

LEMMA AppendMembers ==
  ASSUME NEW X, NEW s \in Seq(X), NEW m \in X
  PROVE  Append(s, m) \in Seq(X) /\ ToSet(Append(s, m)) = ToSet(s) \union {m}
  <1>1. /\ Append(s, m) \in Seq(X) /\ Len(Append(s, m)) = Len(s) + 1 /\ Len(s) \in Nat
        /\ \A i \in 1 .. Len(s) : Append(s, m)[i] = s[i]
        /\ Append(s, m)[Len(s) + 1] = m
    BY AppendProperties
  <1>2. /\ ToSet(s) = {s[i] : i \in 1 .. Len(s)}
        /\ ToSet(Append(s, m)) = {Append(s, m)[i] : i \in 1 .. Len(s) + 1}
    BY <1>1, Members, Zenon
  <1>3. \A i \in 1 .. Len(s) + 1 : i \in 1 .. Len(s) \/ i = Len(s) + 1
    BY <1>1
  <1>4. \A x : x \in ToSet(Append(s, m)) <=> x \in ToSet(s) \union {m}
    <2> HIDE DEF ToSet
    <2>1. \A x : x \in ToSet(Append(s, m)) => x \in ToSet(s) \union {m}
      BY <1>1, <1>2, <1>3
    <2>2. \A i \in 1 .. Len(s) : i \in 1 .. Len(s) + 1
      BY <1>1
    <2>3. Len(s) + 1 \in 1 .. Len(s) + 1
      BY <1>1
    <2> QED BY <1>1, <1>2, <2>1, <2>2, <2>3
  <1> QED BY <1>1, <1>4

LEMMA TailMembers ==
  ASSUME NEW X, NEW s \in Seq(X), s # <<>>
  PROVE  /\ Tail(s) \in Seq(X) /\ Head(s) \in X /\ Head(s) \in ToSet(s)
         /\ ToSet(Tail(s)) \subseteq ToSet(s)
         /\ ToSet(s) \subseteq ToSet(Tail(s)) \union {Head(s)}
  <1>1. /\ Tail(s) \in Seq(X) /\ Len(Tail(s)) = Len(s) - 1 /\ Len(s) \in Nat \ {0}
        /\ \A i \in 1 .. Len(s) - 1 : Tail(s)[i] = s[i + 1]
        /\ Head(s) = s[1] /\ Head(s) \in X
    BY HeadTailProperties, EmptySeq
  <1>2. /\ ToSet(s) = {s[i] : i \in 1 .. Len(s)}
        /\ ToSet(Tail(s)) = {Tail(s)[i] : i \in 1 .. Len(s) - 1}
    BY <1>1, Members, Zenon
  <1>3. ToSet(Tail(s)) \subseteq ToSet(s)
    <2>1. \A i \in 1 .. Len(s) - 1 : i + 1 \in 1 .. Len(s)
      BY <1>1
    <2> QED BY <1>1, <1>2, <2>1
  <1>4. ToSet(s) \subseteq ToSet(Tail(s)) \union {Head(s)}
    <2>1. ASSUME NEW i \in 1 .. Len(s)
          PROVE  s[i] \in ToSet(Tail(s)) \union {Head(s)}
      <3>1. CASE i = 1
        BY <1>1, <3>1
      <3>2. CASE i # 1
        <4>1. i - 1 \in 1 .. Len(s) - 1 /\ i - 1 + 1 = i
          BY <1>1, <3>2
        <4>2. Tail(s)[i - 1] = s[i]
          BY <1>1, <4>1
        <4> QED BY <1>2, <4>1, <4>2
      <3> QED BY <3>1, <3>2
    <2> QED BY <1>2, <2>1
  <1>5. 1 \in 1 .. Len(s)
    BY <1>1
  <1> QED BY <1>1, <1>2, <1>3, <1>4, <1>5

LEMMA SubSeqMembers ==
  ASSUME NEW X, NEW s \in Seq(X), NEW i \in Nat, NEW j \in Nat, i >= 1, j <= Len(s)
  PROVE  /\ SubSeq(s, i, j) \in Seq(X)
         /\ Len(SubSeq(s, i, j)) = IF i <= j THEN j - i + 1 ELSE 0
         /\ \A k \in 1 .. j - i + 1 : SubSeq(s, i, j)[k] = s[i + k - 1]
         /\ ToSet(SubSeq(s, i, j)) \subseteq ToSet(s)
  <1>1. \A k \in i .. j : s[k] \in X /\ k \in 1 .. Len(s)
    BY ElementOfSeq
  <1>2. /\ SubSeq(s, i, j) \in Seq(X)
        /\ Len(SubSeq(s, i, j)) = IF i <= j THEN j - i + 1 ELSE 0
        /\ \A k \in 1 .. j - i + 1 : SubSeq(s, i, j)[k] = s[i + k - 1]
    BY <1>1, SubSeqProperties
  <1>3. /\ ToSet(s) = {s[k] : k \in 1 .. Len(s)}
        /\ ToSet(SubSeq(s, i, j)) = {SubSeq(s, i, j)[k] : k \in 1 .. Len(SubSeq(s, i, j))}
    BY <1>2, Members, Zenon
  <1>4. \A k \in 1 .. Len(SubSeq(s, i, j)) : k \in 1 .. j - i + 1 /\ i + k - 1 \in 1 .. Len(s)
    BY <1>2
  <1> QED BY <1>2, <1>3, <1>4

LEMMA RemoveAtMembers ==
  ASSUME NEW X, NEW s \in Seq(X), NEW i \in 1 .. Len(s)
  PROVE  /\ RemoveAt(s, i) \in Seq(X) /\ s[i] \in X /\ s[i] \in ToSet(s)
         /\ ToSet(RemoveAt(s, i)) \subseteq ToSet(s)
         /\ ToSet(s) \subseteq ToSet(RemoveAt(s, i)) \union {s[i]}
  <1> DEFINE a == SubSeq(s, 1, i - 1)
             b == SubSeq(s, i + 1, Len(s))
  <1>1. Len(s) \in Nat /\ i \in Nat
    OBVIOUS
  <1>2. /\ a \in Seq(X) /\ Len(a) = i - 1
        /\ \A k \in 1 .. i - 1 : a[k] = s[k]
    <2>1. i - 1 \in Nat /\ i - 1 <= Len(s) /\ 1 \in Nat /\ i - 1 - 1 + 1 = i - 1
      BY <1>1
    <2>2. /\ a \in Seq(X) /\ Len(a) = IF 1 <= i - 1 THEN i - 1 - 1 + 1 ELSE 0
          /\ \A k \in 1 .. i - 1 - 1 + 1 : a[k] = s[1 + k - 1]
      BY <2>1, SubSeqMembers
    <2>3. \A k \in 1 .. i - 1 : 1 + k - 1 = k
      BY <1>1
    <2> HIDE DEF a
    <2> QED BY <2>1, <2>2, <2>3
  <1>3. /\ b \in Seq(X) /\ Len(b) = Len(s) - i
        /\ \A k \in 1 .. Len(s) - i : b[k] = s[i + k]
    <2>1. i + 1 \in Nat /\ i + 1 >= 1 /\ Len(s) <= Len(s) /\ Len(s) - (i + 1) + 1 = Len(s) - i
      BY <1>1
    <2>2. /\ b \in Seq(X) /\ Len(b) = IF i + 1 <= Len(s) THEN Len(s) - (i + 1) + 1 ELSE 0
          /\ \A k \in 1 .. Len(s) - (i + 1) + 1 : b[k] = s[i + 1 + k - 1]
      BY <1>1, <2>1, SubSeqMembers
    <2>3. \A k \in 1 .. Len(s) - i : i + 1 + k - 1 = i + k
      BY <1>1
    <2> HIDE DEF b
    <2>4. Len(b) = Len(s) - i
      <3>1. Len(b) = IF i + 1 <= Len(s) THEN Len(s) - i ELSE 0
        BY <2>1, <2>2, Zenon
      <3>2. i <= Len(s)
        OBVIOUS
      <3> QED BY <1>1, <3>1, <3>2
    <2>5. \A k \in 1 .. Len(s) - i : b[k] = s[i + k]
      <3>1. TAKE k \in 1 .. Len(s) - i
      <3>2. k \in 1 .. Len(s) - (i + 1) + 1
        BY <2>1
      <3> QED BY <2>2, <2>3, <3>2
    <2> QED BY <2>2, <2>4, <2>5
  <1> DEFINE r == a \o b
  <1>4. RemoveAt(s, i) = r
    BY DEF RemoveAt
  <1> HIDE DEF a, b
  <1>5. /\ r \in Seq(X) /\ Len(r) = Len(s) - 1
        /\ \A k \in 1 .. Len(s) - 1 : r[k] = IF k <= i - 1 THEN s[k] ELSE s[k + 1]
    <2>1. /\ r \in Seq(X) /\ Len(r) = Len(a) + Len(b)
          /\ \A k \in 1 .. Len(a) + Len(b) : r[k] = IF k <= Len(a) THEN a[k] ELSE b[k - Len(a)]
      BY <1>2, <1>3, ConcatProperties
    <2> HIDE DEF r
    <2>2. Len(r) = Len(s) - 1
      BY <1>1, <1>2, <1>3, <2>1
    <2>3. \A k \in 1 .. Len(s) - 1 : r[k] = IF k <= i - 1 THEN s[k] ELSE s[k + 1]
      <3>1. TAKE k \in 1 .. Len(s) - 1
      <3>2. r[k] = IF k <= i - 1 THEN a[k] ELSE b[k - (i - 1)]
        BY <1>1, <1>2, <1>3, <2>1
      <3>3. CASE k <= i - 1
        <4>1. k \in 1 .. i - 1
          BY <1>1, <3>3
        <4> QED BY <1>2, <3>2, <3>3, <4>1
      <3>4. CASE ~(k <= i - 1)
        <4>1. k - (i - 1) \in 1 .. Len(s) - i /\ i + (k - (i - 1)) = k + 1
          BY <1>1, <3>4
        <4> QED BY <1>3, <3>2, <3>4, <4>1
      <3> QED BY <3>3, <3>4
    <2> QED BY <2>1, <2>2, <2>3
  <1> HIDE DEF r
  <1>6. ToSet(s) = {s[k] : k \in 1 .. Len(s)} /\ ToSet(r) = {r[k] : k \in 1 .. Len(s) - 1}
    BY <1>5, Members, Zenon
  <1>7. ToSet(r) \subseteq ToSet(s)
    <2>1. \A k \in 1 .. Len(s) - 1 : k \in 1 .. Len(s) /\ k + 1 \in 1 .. Len(s)
      BY <1>1
    <2> QED BY <1>5, <1>6, <2>1
  <1>8. ToSet(s) \subseteq ToSet(r) \union {s[i]}
    <2>1. ASSUME NEW k \in 1 .. Len(s)
          PROVE  s[k] \in ToSet(r) \union {s[i]}
      <3>1. CASE k < i
        <4>1. k \in 1 .. Len(s) - 1 /\ k <= i - 1
          BY <1>1, <3>1
        <4> QED BY <1>5, <1>6, <4>1
      <3>2. CASE k = i
        BY <3>2
      <3>3. CASE k > i
        <4>1. k - 1 \in 1 .. Len(s) - 1 /\ ~(k - 1 <= i - 1) /\ k - 1 + 1 = k
          BY <1>1, <3>3
        <4>2. r[k - 1] = s[k]
          BY <1>5, <4>1
        <4> QED BY <1>6, <4>1, <4>2
      <3> QED BY <1>1, <3>1, <3>2, <3>3
    <2> QED BY <1>6, <2>1
  <1>9. s[i] \in X /\ s[i] \in ToSet(s)
    BY <1>6, ElementOfSeq
  <1> HIDE DEF ToSet, RemoveAt
  <1> QED BY <1>4, <1>5, <1>7, <1>8, <1>9

(* What happens to the queue of one client: a message more, the first or
   another one less, or only a beginning left. *)
OnlyOf(X, queues, c, new) ==
  /\ new \in [Client -> Seq(X)]
  /\ \A d \in Client : d # c => new[d] = queues[d]

Gains(X, queues, c, m, new) ==
  OnlyOf(X, queues, c, new) /\ ToSet(new[c]) = ToSet(queues[c]) \union {m}

Loses(X, queues, c, m, new) ==
  /\ OnlyOf(X, queues, c, new)
  /\ m \in X /\ m \in ToSet(queues[c])
  /\ ToSet(new[c]) \subseteq ToSet(queues[c])
  /\ ToSet(queues[c]) \subseteq ToSet(new[c]) \union {m}

LEMMA AppendGains ==
  ASSUME NEW X, NEW queues \in [Client -> Seq(X)], NEW c \in Client, NEW m \in X,
         NEW new, new = [queues EXCEPT ![c] = Append(@, m)]
  PROVE  Gains(X, queues, c, m, new)
  <1>1. queues[c] \in Seq(X)
    OBVIOUS
  <1>2. Append(queues[c], m) \in Seq(X) /\ ToSet(Append(queues[c], m)) = ToSet(queues[c]) \union {m}
    BY <1>1, AppendMembers
  <1>3. OnlyOf(X, queues, c, new) /\ new[c] = Append(queues[c], m)
    BY <1>2 DEF OnlyOf
  <1> HIDE DEF ToSet
  <1> QED BY <1>2, <1>3 DEF Gains

LEMMA SendGains ==
  ASSUME NEW X, NEW queues \in [Client -> Seq(X)], NEW c \in Client, NEW m \in X,
         NEW new, new = Send(queues, c, m)
  PROVE  IF c \in online THEN Gains(X, queues, c, m, new) ELSE new = queues
  BY AppendGains DEF Send

LEMMA TailLoses ==
  ASSUME NEW X, NEW queues \in [Client -> Seq(X)], NEW c \in Client, queues[c] # <<>>,
         NEW new, new = [queues EXCEPT ![c] = Tail(@)]
  PROVE  Loses(X, queues, c, Head(queues[c]), new)
  <1>1. queues[c] \in Seq(X)
    OBVIOUS
  <1>2. /\ Tail(queues[c]) \in Seq(X) /\ Head(queues[c]) \in X /\ Head(queues[c]) \in ToSet(queues[c])
        /\ ToSet(Tail(queues[c])) \subseteq ToSet(queues[c])
        /\ ToSet(queues[c]) \subseteq ToSet(Tail(queues[c])) \union {Head(queues[c])}
    BY <1>1, TailMembers
  <1>3. OnlyOf(X, queues, c, new) /\ new[c] = Tail(queues[c])
    BY <1>2 DEF OnlyOf
  <1> HIDE DEF ToSet
  <1> QED BY <1>2, <1>3 DEF Loses

LEMMA RemoveAtLoses ==
  ASSUME NEW X, NEW queues \in [Client -> Seq(X)], NEW c \in Client, NEW i \in 1 .. Len(queues[c]),
         NEW new, new = [queues EXCEPT ![c] = RemoveAt(@, i)]
  PROVE  Loses(X, queues, c, queues[c][i], new)
  <1>1. queues[c] \in Seq(X)
    OBVIOUS
  <1> DEFINE s == queues[c]
             r == RemoveAt(s, i)
  <1>2. /\ r \in Seq(X) /\ s[i] \in X /\ s[i] \in ToSet(s)
        /\ ToSet(r) \subseteq ToSet(s)
        /\ ToSet(s) \subseteq ToSet(r) \union {s[i]}
    BY <1>1, RemoveAtMembers
  <1>3. new = [queues EXCEPT ![c] = r]
    OBVIOUS
  <1> HIDE DEF r
  <1>4. OnlyOf(X, queues, c, new) /\ new[c] = r
    BY <1>2, <1>3 DEF OnlyOf
  <1> HIDE DEF ToSet
  <1> QED BY <1>2, <1>4 DEF Loses

-----------------------------------------------------------------------------
(* What is under way. *)

AnyRequest ==
  [subscribe : BOOLEAN, messages : SUBSET Timestamps, ranges : Seq(AnyRange)]

AnyAnswer ==
  [type : {"Open", "Response", "Broadcast", "Error"}, messages : SUBSET Timestamps,
   ranges : Seq(AnyRange)]

Outcomes == {"none", "ok", "failed", "tooBig"}

(* A message of a peer that has S: it sends what it has, and its ranges cover
   every timestamp. *)
Sent(S, m) ==
  /\ m.messages \subseteq S
  /\ Covering(m.ranges)
  /\ \A i \in 1 .. Len(m.ranges) : m.ranges[i].content \subseteq S \union {Infinite}

Messages ==
  /\ store \in [Peer -> SUBSET Timestamps]
  /\ online \subseteq Client
  /\ requests \in [Client -> Seq(AnyRequest)]
  /\ answers \in [Client -> Seq(AnyAnswer)]
  /\ outcome \in [Client -> Outcomes]
  /\ \A c \in Client : /\ \A m \in ToSet(requests[c]) : Sent(store[c], m)
                       /\ \A m \in ToSet(answers[c]) : Sent(store[Relay], m)

(* What is under way after a step was under way before, or has just been sent. *)
Passes ==
  /\ store' \in [Peer -> SUBSET Timestamps]
  /\ \A p \in Peer : store[p] \subseteq store'[p]
  /\ online' \subseteq Client
  /\ requests' \in [Client -> Seq(AnyRequest)]
  /\ answers' \in [Client -> Seq(AnyAnswer)]
  /\ outcome' \in [Client -> Outcomes]
  /\ \A c \in Client :
       /\ \A m \in ToSet(requests'[c]) : m \in ToSet(requests[c]) \/ Sent(store'[c], m)
       /\ \A m \in ToSet(answers'[c]) : m \in ToSet(answers[c]) \/ Sent(store'[Relay], m)

LEMMA SentGrows ==
  ASSUME NEW S, NEW T, S \subseteq T, NEW m, Sent(S, m)
  PROVE  Sent(T, m)
  BY DEF Sent

LEMMA PassesKeeps ==
  ASSUME Messages, Passes
  PROVE  Messages'
  <1>1. ASSUME NEW c \in Client
        PROVE  /\ \A m \in ToSet(requests'[c]) : Sent(store'[c], m)
               /\ \A m \in ToSet(answers'[c]) : Sent(store'[Relay], m)
    <2>1. c \in Peer /\ Relay \in Peer
      BY DEF Peer
    <2>2. store[c] \subseteq store'[c] /\ store[Relay] \subseteq store'[Relay]
      BY <2>1 DEF Passes
    <2> HIDE DEF ToSet
    <2>3. \A m \in ToSet(requests'[c]) : Sent(store'[c], m)
      BY <2>2, SentGrows DEF Messages, Passes
    <2>4. \A m \in ToSet(answers'[c]) : Sent(store'[Relay], m)
      BY <2>2, SentGrows DEF Messages, Passes
    <2> QED BY <2>3, <2>4
  <1> QED BY <1>1 DEF Messages, Passes

(* The messages the peers make. *)
LEMMA EmptyBufferSent ==
  ASSUME NEW S \in SUBSET Timestamps
  PROVE  /\ Buffers(S, EmptyBuffer) /\ Covering(EmptyBuffer.ranges)
         /\ EmptyBuffer.messages = {} /\ EmptyBuffer.ranges = <<>>
         /\ LastBound(EmptyBuffer) = 0
  BY DEF EmptyBuffer, Buffers, Ordered, Covering, LastBound, Low

LEMMA RequestSent ==
  ASSUME NEW S \in SUBSET Timestamps, NEW buffer, Buffers(S, buffer), Covering(buffer.ranges),
         NEW subscribe \in BOOLEAN, NEW m, m = Request(buffer, subscribe)
  PROVE  /\ m \in AnyRequest /\ Sent(S, m)
         /\ m.messages = buffer.messages /\ m.ranges = buffer.ranges /\ m.subscribe = subscribe
  <1>1. m = [subscribe |-> subscribe, messages |-> buffer.messages, ranges |-> buffer.ranges]
    BY DEF Request
  <1>2. buffer.messages \in SUBSET Timestamps /\ buffer.messages \subseteq S /\ buffer.ranges \in Seq(AnyRange)
    BY DEF Buffers
  <1>3. m.messages = buffer.messages /\ m.ranges = buffer.ranges /\ m.subscribe = subscribe
    BY <1>1
  <1>4. m \in AnyRequest
    BY <1>1, <1>2 DEF AnyRequest
  <1>5. Sent(S, m)
    BY <1>2, <1>3 DEF Sent, Buffers
  <1> QED BY <1>3, <1>4, <1>5

LEMMA AnswerSent ==
  ASSUME NEW S \in SUBSET Timestamps, NEW buffer, Buffers(S, buffer), Covering(buffer.ranges),
         NEW type \in {"Open", "Response", "Broadcast", "Error"}, NEW m, m = Answer(type, buffer)
  PROVE  /\ m \in AnyAnswer /\ Sent(S, m)
         /\ m.messages = buffer.messages /\ m.ranges = buffer.ranges
  <1>1. m = [type |-> type, messages |-> buffer.messages, ranges |-> buffer.ranges]
    BY DEF Answer
  <1>2. buffer.messages \in SUBSET Timestamps /\ buffer.messages \subseteq S /\ buffer.ranges \in Seq(AnyRange)
    BY DEF Buffers
  <1>3. m.messages = buffer.messages /\ m.ranges = buffer.ranges
    BY <1>1
  <1>4. m \in AnyAnswer
    BY <1>1, <1>2 DEF AnyAnswer
  <1>5. Sent(S, m)
    BY <1>2, <1>3 DEF Sent, Buffers
  <1> QED BY <1>3, <1>4, <1>5

(* The request that starts a synchronization says something of every timestamp. *)
LEMMA SyncRequestWatches ==
  ASSUME NEW S \in SUBSET Timestamps, NEW buffer, buffer = SyncRequest(S)
  PROVE  /\ Buffers(S, buffer) /\ Covering(buffer.ranges)
         /\ buffer.messages = {} /\ buffer.ranges # <<>>
         /\ \A i \in 1 .. Len(buffer.ranges) : buffer.ranges[i].type # Skip
         /\ \A t \in Timestamps : Answered(S, buffer, t)
  <1>1. buffer = SplitRange(S, Count(S, 0), Count(S, Infinite), Infinite, EmptyBuffer)
    BY CountEnds DEF SyncRequest, Size
  <1>2. 0 < Infinite /\ 0 <= Infinite /\ Infinite \in 0 .. Infinite /\ 0 \in Nat
    BY InfiniteAssumption
  <1>3. Splits(S, EmptyBuffer, 0, Infinite, buffer)
    BY <1>1, <1>2, EmptyBufferSent, SplitRangeAnswers
  <1>4. /\ Buffers(S, buffer) /\ LastBound(buffer) = Infinite /\ buffer.messages = {}
        /\ Len(buffer.ranges) > 0
        /\ \A i \in 1 .. Len(buffer.ranges) : buffer.ranges[i].type # Skip
        /\ \A t \in Nat : 0 <= t /\ t < Infinite => Answered(S, buffer, t)
    <2>1. EmptyBuffer.messages = {} /\ Len(EmptyBuffer.ranges) = 0
      BY DEF EmptyBuffer
    <2> QED BY <1>3, <2>1 DEF Splits
  <1>5. buffer.ranges # <<>>
    BY <1>4
  <1>6. Covering(buffer.ranges)
    BY <1>4 DEF Covering, Buffers, LastBound
  <1>7. \A t \in Timestamps : t \in Nat /\ 0 <= t /\ t < Infinite
    BY TimestampsAreFinite
  <1> QED BY <1>4, <1>5, <1>6, <1>7

(* A mutation sends its messages, or asks for a synchronization instead. *)
LEMMA CrdtRequestSent ==
  ASSUME NEW changes \in SUBSET Timestamps, NEW S \in SUBSET Timestamps, changes \subseteq S,
         NEW buffer, buffer = CrdtRequest(changes),
         NEW subscribe \in BOOLEAN, NEW m, m = Request(buffer, subscribe)
  PROVE  /\ m \in AnyRequest /\ Sent(S, m)
         /\ \A t \in changes : t \in m.messages \/ WatchedIn(m.ranges, t, S)
  <1> DEFINE fitting == {t \in changes : \A u \in changes : u <= t =>
                           CanAddMessage([EmptyBuffer EXCEPT !.messages = {v \in changes : v < u}])}
             first == [EmptyBuffer EXCEPT !.messages = fitting]
             random == NewRange(FingerprintRange, Infinite, RandomFingerprint)
  <1>1. fitting \subseteq changes /\ fitting \in SUBSET S
    OBVIOUS
  <1> HIDE DEF fitting
  <1>2. EmptyBuffer \in AnyBuffer /\ EmptyBuffer.ranges = <<>> /\ Len(EmptyBuffer.ranges) = 0
    BY EmptyBufferSent, BuffersType
  <1>3. first.messages = fitting /\ first.ranges = EmptyBuffer.ranges
        /\ first \in [messages : SUBSET S, ranges : Seq(AnyRange)]
    <2>1. first = [messages |-> fitting, ranges |-> EmptyBuffer.ranges]
      BY <1>2, BufferRecord DEF AnyBuffer
    <2>2. EmptyBuffer.ranges \in Seq(AnyRange)
      BY <1>2
    <2> HIDE DEF first
    <2> QED BY <1>1, <2>1, <2>2
  <1>4. buffer = IF fitting = changes THEN first ELSE AddRange(first, random)
    BY DEF CrdtRequest, fitting
  <1> HIDE DEF first
  <1>5. Buffers(S, first) /\ Covering(first.ranges) /\ LastBound(first) = 0
    <2>1. Ordered(first.ranges) /\ Covering(first.ranges)
      BY <1>2, <1>3, EmptyBufferSent DEF Covering
    <2>2. LastBound(first) = 0
      BY <1>2, <1>3, EmptyBufferSent DEF LastBound
    <2>3. Len(first.ranges) = 0
      BY <1>2, <1>3
    <2> QED BY <1>3, <2>1, <2>2, <2>3 DEF Buffers
  <1>6. CASE fitting = changes
    <2>1. buffer = first
      BY <1>4, <1>6
    <2>2. m \in AnyRequest /\ Sent(S, m) /\ m.messages = buffer.messages
      BY <1>5, <2>1, RequestSent
    <2> QED BY <1>3, <1>6, <2>1, <2>2
  <1>7. CASE fitting # changes
    <2>1. random = [type |-> FingerprintRange, upperBound |-> Infinite, content |-> RandomFingerprint]
      BY DEF NewRange
    <2>2. random.type = FingerprintRange /\ random.upperBound = Infinite /\ random.content = RandomFingerprint
      BY <2>1
    <2>3. RandomFingerprint \in SUBSET (Timestamps \union {Infinite}) /\ Infinite \in RandomFingerprint
      BY DEF RandomFingerprint
    <2>4. random \in AnyRange
      BY <2>1, <2>3, InfiniteAssumption DEF AnyRange
    <2> HIDE DEF random
    <2>5. buffer = AddRange(first, random)
      BY <1>4, <1>7
    <2>6. buffer = [messages |-> fitting, ranges |-> Append(first.ranges, random)]
      <3>1. buffer = [first EXCEPT !.ranges = Append(first.ranges, random)]
        BY <2>5 DEF AddRange
      <3>2. buffer = [messages |-> first.messages, ranges |-> Append(first.ranges, random)]
        BY <1>3, <3>1, BufferRecord
      <3> QED BY <1>3, <3>2
    <2>7. m = [subscribe |-> subscribe, messages |-> buffer.messages, ranges |-> buffer.ranges]
      BY DEF Request
    <2>8. buffer.messages = fitting /\ buffer.ranges = Append(first.ranges, random)
      BY <2>6
    <2>9. m.messages = fitting /\ m.ranges = Append(first.ranges, random)
      BY <2>7, <2>8
    <2> DEFINE q == m.ranges
    <2>10. /\ q \in Seq(AnyRange) /\ q # <<>> /\ Len(q) = 1 /\ q[1] = random
      BY <1>2, <1>3, <2>4, <2>9, AppendProperties
    <2>11. m \in AnyRequest
      <3>1. fitting \in SUBSET Timestamps
        BY <1>1
      <3>2. m = [subscribe |-> subscribe, messages |-> fitting, ranges |-> q]
        BY <2>7, <2>8, <2>9
      <3> HIDE DEF q
      <3> QED BY <2>10, <3>1, <3>2 DEF AnyRequest
    <2>12. Low(q, 1) = 0 /\ Low(q, 2) = Infinite
      BY <2>2, <2>10 DEF Low
    <2>13. Sent(S, m)
      <3>1. Covering(q)
        BY <2>2, <2>10, <2>12, InfiniteAssumption DEF Covering, Ordered
      <3>2. \A i \in 1 .. Len(q) : q[i].content \subseteq S \union {Infinite}
        BY <2>2, <2>10 DEF RandomFingerprint
      <3> QED BY <1>1, <2>9, <3>1, <3>2 DEF Sent
    <2>14. ASSUME NEW t \in changes
           PROVE  Watches(q, 1, t, S)
      <3>1. t \in Nat /\ 0 <= t /\ t < Infinite
        BY TimestampsAreFinite
      <3>2. FingerprintRange # Skip
        BY DEF FingerprintRange, Skip
      <3> QED BY <2>2, <2>10, <2>12, <3>1, <3>2 DEF Watches
    <2>15. 1 \in 1 .. Len(q)
      BY <2>10
    <2> QED BY <2>11, <2>13, <2>14, <2>15 DEF WatchedIn
  <1> QED BY <1>6, <1>7
-----------------------------------------------------------------------------
(* What the ranges under way are for. *)

(* While a client differs from the relay at t, the relay or the client will
   learn of it: t itself is under way, or a range that tells the receiver. *)
Watched(c, t) ==
  \/ \E m \in ToSet(requests[c]) : WatchedIn(m.ranges, t, store[c])
  \/ \E m \in ToSet(answers[c]) : WatchedIn(m.ranges, t, store[Relay])

FollowedAt(c) ==
  Undisturbed(c) => \A t \in Differ(c) : Carried(c, t) \/ Watched(c, t)

(* A client that synchronizes gets the broadcasts, or the request that will make
   it a subscriber asks about everything. *)
SubscribingAt(c) ==
  Undisturbed(c) =>
    \/ c \in subscribed
    \/ \E m \in ToSet(requests[c]) :
         /\ m.subscribe /\ m.ranges # <<>>
         /\ \A i \in 1 .. Len(m.ranges) : m.ranges[i].type # Skip

LEMMA WatchesSame ==
  ASSUME NEW ranges, NEW t, NEW S, NEW T, t \in S <=> t \in T, WatchedIn(ranges, t, S)
  PROVE  WatchedIn(ranges, t, T)
  BY DEF WatchedIn, Watches

(* A range that watches t is answered by a side for which t is otherwise. *)
LEMMA WatchesAnswered ==
  ASSUME NEW S, NEW T, NEW ranges, NEW output, NEW t \in Timestamps, ~(t \in S <=> t \in T),
         WatchedIn(ranges, t, T), Synchronizes(S, ranges, output), ~CutsRange(S, ranges)
  PROVE  Answered(S, output, t)
  <1>1. PICK i \in 1 .. Len(ranges) : Watches(ranges, i, t, T)
    BY DEF WatchedIn
  <1>2. Needs(ranges[i], Low(ranges, i), t, S)
    BY <1>1 DEF Watches, Needs
  <1>3. Attends(S, ranges[i], Low(ranges, i), output)
    BY <1>1 DEF Synchronizes, Attended
  <1> QED BY <1>2, <1>3 DEF Attends

(* Ranges that cover everything, none skipped, tell of what their sender lacks. *)
LEMMA CoveringWatches ==
  ASSUME NEW S \in SUBSET Timestamps, NEW ranges, Covering(ranges), ranges # <<>>,
         \A i \in 1 .. Len(ranges) : ranges[i].type # Skip,
         \A i \in 1 .. Len(ranges) : ranges[i].content \subseteq S \union {Infinite},
         NEW t \in Timestamps, t \notin S
  PROVE  WatchedIn(ranges, t, S)
  <1> DEFINE T == {i \in 1 .. Len(ranges) : t < ranges[i].upperBound}
  <1>1. ranges \in Seq(AnyRange) /\ Len(ranges) \in Nat \ {0}
    BY EmptySeq DEF Covering, Ordered
  <1>2. t \in Nat /\ t < Infinite /\ t # Infinite /\ Infinite \in Nat
    BY TimestampsAreFinite, InfiniteAssumption
  <1>3. \A i \in 1 .. Len(ranges) : ranges[i].upperBound \in Nat
    <2>1. \A i \in 1 .. Len(ranges) : ranges[i] \in AnyRange
      BY <1>1
    <2>2. \A range \in AnyRange : range.upperBound \in 0 .. Infinite
      BY DEF AnyRange
    <2> QED BY <1>2, <2>1, <2>2
  <1>4. ranges[Len(ranges)].upperBound = Infinite
    BY <1>1 DEF Covering, Low
  <1>5. PICK i \in T : \A j \in T : i <= j
    <2>1. T \subseteq Nat /\ Len(ranges) \in T
      BY <1>1, <1>2, <1>4
    <2>2. T # {}
      BY <2>1
    <2> HIDE DEF T
    <2> QED BY <2>1, <2>2, LeastNatural
  <1>6. i \in 1 .. Len(ranges) /\ t < ranges[i].upperBound
    BY <1>5
  <1>7. Low(ranges, i) <= t
    <2>1. CASE i = 1
      BY <1>2, <2>1 DEF Low
    <2>2. CASE i # 1
      <3>1. i - 1 \in 1 .. Len(ranges) /\ ~(i <= i - 1)
        BY <1>1, <1>6, <2>2
      <3>2. ~(t < ranges[i - 1].upperBound)
        BY <1>5, <3>1
      <3> QED BY <1>2, <1>3, <2>2, <3>1, <3>2 DEF Low
    <2> QED BY <2>1, <2>2
  <1>8. t \notin ranges[i].content
    BY <1>2, <1>6
  <1>9. Watches(ranges, i, t, S)
    BY <1>6, <1>7, <1>8 DEF Watches
  <1> QED BY <1>6, <1>9 DEF WatchedIn

(* A client nothing happens to but that it may receive something. *)
Unaffected(c) ==
  /\ store'[c] = store[c] /\ store'[Relay] = store[Relay]
  /\ ToSet(requests[c]) \subseteq ToSet(requests'[c])
  /\ ToSet(answers[c]) \subseteq ToSet(answers'[c])
  /\ c \in subscribed => c \in subscribed'
  /\ Undisturbed(c)' => Undisturbed(c)

LEMMA UnaffectedKeeps ==
  ASSUME NEW c \in Client, Unaffected(c), FollowedAt(c), SubscribingAt(c)
  PROVE  FollowedAt(c)' /\ SubscribingAt(c)'
  <1>1. SubscribingAt(c)'
    <2> HIDE DEF ToSet
    <2> QED BY DEF SubscribingAt, Unaffected
  <1>2. FollowedAt(c)'
    <2>1. SUFFICES ASSUME Undisturbed(c)', NEW t \in Differ(c)'
                   PROVE  Carried(c, t)' \/ Watched(c, t)'
      BY DEF FollowedAt
    <2>2. Undisturbed(c) /\ t \in Differ(c)
      BY <2>1 DEF Unaffected, Differ
    <2>3. CASE Carried(c, t)
      BY <2>3 DEF Carried, Unaffected
    <2>4. CASE Watched(c, t)
      <3>1. CASE \E m \in ToSet(requests[c]) : WatchedIn(m.ranges, t, store[c])
        BY <3>1 DEF Watched, Unaffected
      <3>2. CASE \E m \in ToSet(answers[c]) : WatchedIn(m.ranges, t, store[Relay])
        BY <3>2 DEF Watched, Unaffected
      <3> QED BY <2>4, <3>1, <3>2 DEF Watched
    <2> QED BY <2>2, <2>3, <2>4 DEF FollowedAt
  <1> QED BY <1>1, <1>2

(* A client while the relay stores messages of another one. *)
Relayed(c, messages) ==
  /\ store'[c] = store[c] /\ store'[Relay] = store[Relay] \union messages
  /\ ToSet(requests[c]) \subseteq ToSet(requests'[c])
  /\ ToSet(answers[c]) \subseteq ToSet(answers'[c])
  /\ c \in subscribed =>
       /\ c \in subscribed'
       /\ messages # {} => \E m \in ToSet(answers'[c]) : m.messages = messages
  /\ Undisturbed(c)' => Undisturbed(c)

LEMMA RelayedKeeps ==
  ASSUME NEW c \in Client, NEW messages \in SUBSET Timestamps, Messages, Relayed(c, messages),
         FollowedAt(c), SubscribingAt(c)
  PROVE  FollowedAt(c)' /\ SubscribingAt(c)'
  <1>1. SubscribingAt(c)'
    <2> HIDE DEF ToSet
    <2> QED BY DEF SubscribingAt, Relayed
  <1>2. FollowedAt(c)'
    <2>1. SUFFICES ASSUME Undisturbed(c)', NEW t \in Differ(c)'
                   PROVE  Carried(c, t)' \/ Watched(c, t)'
      BY DEF FollowedAt
    <2>2. Undisturbed(c)
      BY <2>1 DEF Relayed
    <2>0. store[c] \in SUBSET Timestamps /\ store[Relay] \in SUBSET Timestamps
      BY DEF Messages, Peer
    <2>3. CASE t \in store[Relay] <=> t \in store'[Relay]
      <3>1. t \in Differ(c)
        BY <2>1, <2>3 DEF Relayed, Differ
      <3>2. CASE Carried(c, t)
        BY <3>2 DEF Carried, Relayed
      <3>3. CASE Watched(c, t)
        <4>1. CASE \E m \in ToSet(requests[c]) : WatchedIn(m.ranges, t, store[c])
          BY <4>1 DEF Watched, Relayed
        <4>2. CASE \E m \in ToSet(answers[c]) : WatchedIn(m.ranges, t, store[Relay])
          BY <2>3, <4>2, WatchesSame DEF Watched, Relayed
        <4> QED BY <3>3, <4>1, <4>2 DEF Watched
      <3> QED BY <2>2, <3>1, <3>2, <3>3 DEF FollowedAt
    <2>4. CASE ~(t \in store[Relay] <=> t \in store'[Relay])
      <3>1. t \in messages /\ t \notin store[c] /\ t \in Timestamps
        BY <2>1, <2>4 DEF Relayed, Differ
      <3>2. CASE c \in subscribed
        <4>1. PICK m \in ToSet(answers'[c]) : m.messages = messages
          BY <3>1, <3>2 DEF Relayed
        <4> QED BY <3>1, <4>1 DEF Carried, Relayed
      <3>3. CASE c \notin subscribed
        <4>1. PICK m \in ToSet(requests[c]) : /\ m.ranges # <<>>
                                             /\ \A i \in 1 .. Len(m.ranges) : m.ranges[i].type # Skip
          BY <2>2, <3>3 DEF SubscribingAt
        <4>2. Sent(store[c], m)
          BY DEF Messages
        <4>3. WatchedIn(m.ranges, t, store[c])
          BY <2>0, <3>1, <4>1, <4>2, CoveringWatches DEF Sent
        <4> QED BY <4>1, <4>3 DEF Watched, Relayed
      <3> QED BY <3>2, <3>3
    <2> QED BY <2>3, <2>4
  <1> QED BY <1>1, <1>2

-----------------------------------------------------------------------------
(* The steps. *)

Keeps(c) == FollowedAt(c) /\ SubscribingAt(c) => FollowedAt(c)' /\ SubscribingAt(c)'

LEMMA DisturbedKeeps ==
  ASSUME NEW c, ~Undisturbed(c)'
  PROVE  Keeps(c)
  BY DEF Keeps, FollowedAt, SubscribingAt

(* What belongs to a client, and what the relay has, stays. *)
Untouched(c) ==
  /\ store'[c] = store[c] /\ store'[Relay] = store[Relay]
  /\ requests'[c] = requests[c] /\ answers'[c] = answers[c]
  /\ outcome'[c] = outcome[c]
  /\ c \in online' => c \in online
  /\ c \in subscribed => c \in subscribed'

LEMMA UntouchedKeeps ==
  ASSUME NEW c \in Client, Untouched(c)
  PROVE  Keeps(c)
  <1>1. Undisturbed(c)' => Undisturbed(c)
    BY DEF Untouched, Undisturbed
  <1>2. ToSet(requests'[c]) = ToSet(requests[c]) /\ ToSet(answers'[c]) = ToSet(answers[c])
    BY DEF Untouched
  <1>3. Unaffected(c)
    <2> HIDE DEF ToSet
    <2> QED BY <1>1, <1>2 DEF Unaffected, Untouched
  <1> QED BY <1>3, UnaffectedKeeps DEF Keeps

LEMMA MessagesType ==
  ASSUME Messages, NEW c \in Client
  PROVE  /\ c \in Peer /\ Relay \in Peer /\ c # Relay
         /\ store[c] \in SUBSET Timestamps /\ store[Relay] \in SUBSET Timestamps
         /\ requests[c] \in Seq(AnyRequest) /\ answers[c] \in Seq(AnyAnswer)
         /\ \A m \in ToSet(requests[c]) : m \in AnyRequest /\ Sent(store[c], m)
         /\ \A m \in ToSet(answers[c]) : m \in AnyAnswer /\ Sent(store[Relay], m)
  <1>1. c \in Peer /\ Relay \in Peer /\ c # Relay
    BY PeersAssumption DEF Peer
  <1>2. requests[c] \in Seq(AnyRequest) /\ answers[c] \in Seq(AnyAnswer)
    BY DEF Messages
  <1>3. ToSet(requests[c]) \in SUBSET AnyRequest /\ ToSet(answers[c]) \in SUBSET AnyAnswer
    BY <1>2, Members
  <1> HIDE DEF ToSet
  <1> QED BY <1>1, <1>2, <1>3 DEF Messages

LEMMA ConnectKeeps ==
  ASSUME Messages, NEW c \in Client, Connect(c)
  PROVE  Passes /\ \A d \in Client : Keeps(d)
  <1> DEFINE open == Answer("Open", EmptyBuffer)
  <1>1. open \in AnyAnswer /\ Sent(store[Relay], open)
    <2>1. store[Relay] \in SUBSET Timestamps
      BY MessagesType
    <2> QED BY <2>1, EmptyBufferSent, AnswerSent
  <1> HIDE DEF open
  <1>2. Gains(AnyAnswer, answers, c, open, answers')
    <2>1. answers' = [answers EXCEPT ![c] = Append(@, open)] /\ answers \in [Client -> Seq(AnyAnswer)]
      BY DEF Connect, Messages, open
    <2> QED BY <1>1, <2>1, AppendGains
  <1>3. /\ outcome' = [outcome EXCEPT ![c] = "none"] /\ online' = online \union {c}
        /\ store' = store /\ subscribed' = subscribed /\ requests' = requests
    BY DEF Connect
  <1>4. Passes
    <2> HIDE DEF ToSet
    <2>1. outcome' \in [Client -> Outcomes] /\ online' \subseteq Client
      BY <1>3 DEF Messages, Outcomes
    <2>2. \A d \in Client : \A m \in ToSet(answers'[d]) : m \in ToSet(answers[d]) \/ Sent(store'[Relay], m)
      BY <1>1, <1>2, <1>3 DEF Gains, OnlyOf
    <2> QED BY <1>2, <1>3, <2>1, <2>2 DEF Passes, Messages, Gains, OnlyOf
  <1>5. ASSUME NEW d \in Client
        PROVE  Keeps(d)
    <2>1. CASE d = c
      <3>1. outcome'[c] = "none"
        BY <1>3 DEF Messages
      <3> QED BY <2>1, <3>1, DisturbedKeeps DEF Undisturbed
    <2>2. CASE d # c
      <3>1. Untouched(d)
        BY <1>2, <1>3, <2>2 DEF Untouched, Gains, OnlyOf, Messages
      <3> QED BY <3>1, UntouchedKeeps
    <2> QED BY <2>1, <2>2
  <1> QED BY <1>4, <1>5

LEMMA StartSyncKeeps ==
  ASSUME Messages, NEW c \in Client, StartSync(c)
  PROVE  Passes /\ \A d \in Client : Keeps(d)
  <1> DEFINE yes == TRUE
  <1>0. yes \in BOOLEAN /\ yes
    OBVIOUS
  <1>1. PICK buffer : \/ /\ buffer = SyncRequest(store[c])
                         /\ requests' = Send(requests, c, Request(buffer, yes))
                         /\ outcome' = [outcome EXCEPT ![c] = "ok"]
                      \/ /\ buffer = EmptyBuffer
                         /\ requests' = Send(requests, c, Request(buffer, yes))
                         /\ outcome' = [outcome EXCEPT ![c] = "failed"]
    BY Zenon DEF StartSync
  <1> HIDE DEF yes
  <1>2. store[c] \in SUBSET Timestamps
    BY MessagesType
  <1>3. Buffers(store[c], buffer) /\ Covering(buffer.ranges)
    BY <1>1, <1>2, EmptyBufferSent, SyncRequestWatches
  <1> DEFINE S == store[c]
  <1>a. S \in SUBSET Timestamps /\ Buffers(S, buffer) /\ Covering(buffer.ranges)
    BY <1>2, <1>3
  <1> DEFINE request == Request(buffer, yes)
  <1>5. requests' = Send(requests, c, request)
    BY <1>1
  <1>b. yes \in BOOLEAN
    BY <1>0
  <1>c. S = store[c]
    OBVIOUS
  <1> HIDE DEF S
  <1>s. /\ request \in AnyRequest /\ Sent(S, request)
        /\ request.messages = buffer.messages /\ request.ranges = buffer.ranges
        /\ request.subscribe = yes
    BY <1>a, <1>b, RequestSent
  <1> HIDE DEF request
  <1>4. /\ request \in AnyRequest /\ Sent(store[c], request)
        /\ request.messages = buffer.messages /\ request.ranges = buffer.ranges /\ request.subscribe
    <2>1. request.subscribe
      BY <1>0, <1>s, Zenon
    <2> QED BY <1>c, <1>s, <2>1, Zenon
  <1>6. IF c \in online THEN Gains(AnyRequest, requests, c, request, requests') ELSE requests' = requests
    <2>1. requests \in [Client -> Seq(AnyRequest)]
      BY DEF Messages
    <2> QED BY <1>4, <1>5, <2>1, SendGains
  <1>7. Loses(AnyAnswer, answers, c, Head(answers[c]), answers')
    <2>1. /\ answers' = [answers EXCEPT ![c] = Tail(@)] /\ answers[c] # <<>>
          /\ answers \in [Client -> Seq(AnyAnswer)]
      BY DEF StartSync, Messages
    <2> QED BY <2>1, TailLoses
  <1>8. store' = store /\ online' = online /\ subscribed' = subscribed
    BY DEF StartSync
  <1>9. /\ outcome' \in [Client -> Outcomes] /\ \A d \in Client : d # c => outcome'[d] = outcome[d]
        /\ outcome'[c] = "ok" => buffer = SyncRequest(store[c])
    BY <1>1 DEF Messages, Outcomes
  <1>10. Passes
    <2> HIDE DEF ToSet
    <2>1. /\ requests' \in [Client -> Seq(AnyRequest)]
          /\ \A d \in Client : \A m \in ToSet(requests'[d]) : m \in ToSet(requests[d]) \/ Sent(store'[d], m)
      <3>1. CASE c \in online
        BY <1>4, <1>6, <1>8, <3>1 DEF Gains, OnlyOf
      <3>2. CASE c \notin online
        BY <1>6, <3>2 DEF Messages
      <3> QED BY <3>1, <3>2
    <2>2. /\ answers' \in [Client -> Seq(AnyAnswer)]
          /\ \A d \in Client : \A m \in ToSet(answers'[d]) : m \in ToSet(answers[d])
      BY <1>7 DEF Loses, OnlyOf
    <2> QED BY <1>8, <1>9, <2>1, <2>2 DEF Passes, Messages
  <1>11. ASSUME NEW d \in Client
         PROVE  Keeps(d)
    <2>1. CASE d = c
      <3>1. SUFFICES ASSUME Undisturbed(c)' PROVE FollowedAt(c)' /\ SubscribingAt(c)'
        BY <2>1, DisturbedKeeps DEF Keeps
      <3>2. c \in online /\ buffer = SyncRequest(store[c])
        BY <1>8, <1>9, <3>1 DEF Undisturbed
      <3>3. request \in ToSet(requests'[c])
        <4> HIDE DEF ToSet
        <4> QED BY <1>6, <3>2 DEF Gains
      <3>4. /\ buffer.messages = {} /\ buffer.ranges # <<>>
            /\ \A i \in 1 .. Len(buffer.ranges) : buffer.ranges[i].type # Skip
            /\ \A t \in Timestamps : Answered(store[c], buffer, t)
        BY <1>2, <3>2, SyncRequestWatches
      <3>5. \A t \in Timestamps : WatchedIn(request.ranges, t, store'[c])
        BY <1>4, <1>8, <3>4 DEF Answered
      <3>6. Differ(c)' \subseteq Timestamps
        BY <1>8, MessagesType DEF Differ
      <3> HIDE DEF ToSet
      <3>7. FollowedAt(c)'
        BY <3>3, <3>5, <3>6 DEF FollowedAt, Watched
      <3>8. SubscribingAt(c)'
        BY <1>4, <3>3, <3>4 DEF SubscribingAt
      <3> QED BY <3>7, <3>8
    <2>2. CASE d # c
      <3>1. requests'[d] = requests[d]
        BY <1>6, <2>2 DEF Gains, OnlyOf
      <3>2. Untouched(d)
        BY <1>7, <1>8, <1>9, <2>2, <3>1 DEF Untouched, Loses, OnlyOf
      <3> QED BY <3>2, UntouchedKeeps
    <2> QED BY <2>1, <2>2
  <1> QED BY <1>10, <1>11

LEMMA DisconnectKeeps ==
  ASSUME Messages, NEW c \in Client, Disconnect(c)
  PROVE  Passes /\ \A d \in Client : Keeps(d)
  <1>1. /\ online' = online \ {c} /\ subscribed' = subscribed \ {c}
        /\ requests' = [requests EXCEPT ![c] = <<>>]
        /\ store' = store /\ outcome' = outcome
    BY DEF Disconnect
  <1>2. PICK kept \in 0 .. Len(answers[c]) : answers' = [answers EXCEPT ![c] = SubSeq(@, 1, kept)]
    BY DEF Disconnect
  <1> DEFINE rest == SubSeq(answers[c], 1, kept)
  <1>3. rest \in Seq(AnyAnswer) /\ ToSet(rest) \subseteq ToSet(answers[c])
    <2>1. answers[c] \in Seq(AnyAnswer)
      BY MessagesType
    <2>2. kept \in Nat /\ kept <= Len(answers[c]) /\ 1 \in Nat /\ 1 >= 1
      BY <2>1
    <2> QED BY <2>1, <2>2, SubSeqMembers
  <1> HIDE DEF rest
  <1>4. /\ answers' \in [Client -> Seq(AnyAnswer)]
        /\ answers'[c] = rest /\ \A d \in Client : d # c => answers'[d] = answers[d]
    BY <1>2, <1>3 DEF rest, Messages
  <1>5. /\ requests' \in [Client -> Seq(AnyRequest)]
        /\ requests'[c] = <<>> /\ \A d \in Client : d # c => requests'[d] = requests[d]
    BY <1>1 DEF Messages
  <1>6. Passes
    <2>1. ToSet(requests'[c]) = {}
      BY <1>5, EmptyMembers
    <2> HIDE DEF ToSet
    <2>2. \A d \in Client : \A m \in ToSet(requests'[d]) : m \in ToSet(requests[d])
      BY <1>5, <2>1
    <2>3. \A d \in Client : \A m \in ToSet(answers'[d]) : m \in ToSet(answers[d])
      BY <1>3, <1>4
    <2>4. online' \subseteq Client
      BY <1>1 DEF Messages
    <2> QED BY <1>1, <1>4, <1>5, <2>2, <2>3, <2>4 DEF Passes, Messages
  <1>7. ASSUME NEW d \in Client
        PROVE  Keeps(d)
    <2>1. CASE d = c
      BY <1>1, <2>1, DisturbedKeeps DEF Undisturbed
    <2>2. CASE d # c
      <3>1. Untouched(d)
        BY <1>1, <1>4, <1>5, <2>2 DEF Untouched
      <3> QED BY <3>1, UntouchedKeeps
    <2> QED BY <2>1, <2>2
  <1> QED BY <1>6, <1>7

LEMMA MutateKeeps ==
  ASSUME Messages, NEW c \in Client, NEW changes \in SUBSET Timestamps, Mutate(c, changes)
  PROVE  Passes /\ \A d \in Client : Keeps(d)
  <1> DEFINE no == FALSE
             buffer == CrdtRequest(changes)
             request == Request(buffer, no)
  <1>0. no \in BOOLEAN
    OBVIOUS
  <1>1. requests' = Send(requests, c, request)
    BY Zenon DEF Mutate
  <1>2. /\ store' = [store EXCEPT ![c] = @ \union changes]
        /\ online' = online /\ subscribed' = subscribed /\ answers' = answers /\ outcome' = outcome
    BY DEF Mutate
  <1> HIDE DEF no, request
  <1>3. /\ store[c] \in SUBSET Timestamps /\ store[Relay] \in SUBSET Timestamps
        /\ c \in Peer /\ Relay \in Peer /\ c # Relay
    BY MessagesType
  <1>4. /\ store' \in [Peer -> SUBSET Timestamps]
        /\ store'[c] = store[c] \union changes
        /\ \A p \in Peer : p # c => store'[p] = store[p]
        /\ \A p \in Peer : store[p] \subseteq store'[p]
    BY <1>2, <1>3 DEF Messages
  <1>5. /\ request \in AnyRequest /\ Sent(store'[c], request)
        /\ \A t \in changes : t \in request.messages \/ WatchedIn(request.ranges, t, store'[c])
    <2>1. store'[c] \in SUBSET Timestamps /\ changes \subseteq store'[c]
      BY <1>3, <1>4
    <2> QED BY <1>0, <2>1, CrdtRequestSent DEF request
  <1>6. IF c \in online THEN Gains(AnyRequest, requests, c, request, requests') ELSE requests' = requests
    <2>1. requests \in [Client -> Seq(AnyRequest)]
      BY DEF Messages
    <2> QED BY <1>1, <1>5, <2>1, SendGains
  <1>7. Passes
    <2> HIDE DEF ToSet
    <2>1. /\ requests' \in [Client -> Seq(AnyRequest)]
          /\ \A d \in Client : \A m \in ToSet(requests'[d]) : m \in ToSet(requests[d]) \/ Sent(store'[d], m)
      <3>1. CASE c \in online
        BY <1>5, <1>6, <3>1 DEF Gains, OnlyOf
      <3>2. CASE c \notin online
        BY <1>6, <3>2 DEF Messages
      <3> QED BY <3>1, <3>2
    <2> QED BY <1>2, <1>4, <2>1 DEF Passes, Messages
  <1>8. ASSUME NEW d \in Client
        PROVE  Keeps(d)
    <2>1. CASE d = c
      <3>1. SUFFICES ASSUME Undisturbed(c)', FollowedAt(c), SubscribingAt(c)
                     PROVE  FollowedAt(c)' /\ SubscribingAt(c)'
        BY <2>1, DisturbedKeeps DEF Keeps
      <3>2. Undisturbed(c) /\ c \in online
        BY <1>2, <3>1 DEF Undisturbed
      <3>3. ToSet(requests'[c]) = ToSet(requests[c]) \union {request}
        <4> HIDE DEF ToSet
        <4> QED BY <1>6, <3>2 DEF Gains
      <3> HIDE DEF ToSet
      <3>4. SubscribingAt(c)'
        BY <1>2, <3>1, <3>2, <3>3 DEF SubscribingAt
      <3>5. ASSUME NEW t \in Differ(c)'
            PROVE  Carried(c, t)' \/ Watched(c, t)'
        <4>1. CASE t \in changes
          <5>1. t \in store'[c] /\ request \in ToSet(requests'[c])
            BY <1>4, <3>3, <4>1
          <5> QED BY <1>5, <4>1, <5>1 DEF Carried, Watched
        <4>2. CASE t \notin changes
          <5>1. t \in store'[c] <=> t \in store[c]
            BY <1>4, <4>2
          <5>2. store'[Relay] = store[Relay]
            BY <1>3, <1>4
          <5>3. t \in Differ(c)
            BY <3>5, <5>1, <5>2 DEF Differ
          <5>4. CASE Carried(c, t)
            BY <1>2, <3>3, <5>1, <5>4 DEF Carried
          <5>5. CASE Watched(c, t)
            <6>1. CASE \E m \in ToSet(requests[c]) : WatchedIn(m.ranges, t, store[c])
              BY <3>3, <5>1, <6>1, WatchesSame DEF Watched
            <6>2. CASE \E m \in ToSet(answers[c]) : WatchedIn(m.ranges, t, store[Relay])
              BY <1>2, <5>2, <6>2 DEF Watched
            <6> QED BY <5>5, <6>1, <6>2 DEF Watched
          <5> QED BY <3>1, <3>2, <5>3, <5>4, <5>5 DEF FollowedAt
        <4> QED BY <4>1, <4>2
      <3> QED BY <3>4, <3>5 DEF FollowedAt
    <2>2. CASE d # c
      <3>1. requests'[d] = requests[d]
        BY <1>6, <2>2 DEF Gains, OnlyOf
      <3>2. d \in Peer
        BY MessagesType
      <3>3. Untouched(d)
        BY <1>2, <1>3, <1>4, <2>2, <3>1, <3>2 DEF Untouched
      <3> QED BY <3>3, UntouchedKeeps
    <2> QED BY <2>1, <2>2
  <1> QED BY <1>7, <1>8

(* A broadcast reaches the queue of every other subscriber. *)
PassesOn(c, messages, T, queues) ==
  /\ queues \in [Client -> Seq(AnyAnswer)]
  /\ queues[c] = answers[c]
  /\ \A d \in Client :
       /\ ToSet(answers[d]) \subseteq ToSet(queues[d])
       /\ \A m \in ToSet(queues[d]) : m \in ToSet(answers[d]) \/ Sent(T, m)
       /\ d # c /\ d \in subscribed /\ messages # {} =>
            \E m \in ToSet(queues[d]) : m.messages = messages

LEMMA BroadcastPassesOn ==
  ASSUME Messages, NEW c \in Client, NEW T \in SUBSET Timestamps,
         NEW messages \in SUBSET Timestamps, messages \subseteq T,
         NEW queues, queues = Broadcast(c, messages)
  PROVE  PassesOn(c, messages, T, queues)
  <1> DEFINE buffer == [EmptyBuffer EXCEPT !.messages = messages]
             broadcast == Answer("Broadcast", buffer)
  <1>1. buffer.messages = messages /\ buffer.ranges = EmptyBuffer.ranges
        /\ buffer \in [messages : SUBSET T, ranges : Seq(AnyRange)]
    <2>1. EmptyBuffer \in AnyBuffer /\ EmptyBuffer.ranges \in Seq(AnyRange)
      BY EmptyBufferSent, BuffersType DEF AnyBuffer
    <2>2. buffer = [messages |-> messages, ranges |-> EmptyBuffer.ranges]
      BY <2>1, BufferRecord DEF AnyBuffer
    <2> HIDE DEF buffer
    <2> QED BY <2>1, <2>2
  <1> HIDE DEF buffer
  <1>2. Buffers(T, buffer) /\ Covering(buffer.ranges)
    <2>1. Ordered(EmptyBuffer.ranges) /\ Covering(EmptyBuffer.ranges) /\ Len(EmptyBuffer.ranges) = 0
      BY EmptyBufferSent DEF Covering
    <2> QED BY <1>1, <2>1 DEF Buffers
  <1>3. broadcast \in AnyAnswer /\ Sent(T, broadcast) /\ broadcast.messages = messages
    BY <1>1, <1>2, AnswerSent
  <1>4. queues = [d \in Client |-> IF d \in subscribed \ {c} /\ messages # {}
                                   THEN Append(answers[d], broadcast) ELSE answers[d]]
    BY Zenon DEF Broadcast, buffer, broadcast
  <1> HIDE DEF broadcast
  <1>5. ASSUME NEW d \in Client
        PROVE  /\ Append(answers[d], broadcast) \in Seq(AnyAnswer) /\ answers[d] \in Seq(AnyAnswer)
               /\ ToSet(Append(answers[d], broadcast)) = ToSet(answers[d]) \union {broadcast}
    BY <1>3, MessagesType, AppendMembers
  <1> HIDE DEF ToSet
  <1>6. queues \in [Client -> Seq(AnyAnswer)] /\ queues[c] = answers[c]
    BY <1>4, <1>5
  <1>7. ASSUME NEW d \in Client
        PROVE  /\ ToSet(answers[d]) \subseteq ToSet(queues[d])
               /\ \A m \in ToSet(queues[d]) : m \in ToSet(answers[d]) \/ Sent(T, m)
               /\ d # c /\ d \in subscribed /\ messages # {} =>
                    \E m \in ToSet(queues[d]) : m.messages = messages
    <2>1. CASE d \in subscribed \ {c} /\ messages # {}
      <3>1. ToSet(queues[d]) = ToSet(answers[d]) \union {broadcast}
        BY <1>4, <1>5, <2>1
      <3> QED BY <1>3, <3>1
    <2>2. CASE ~(d \in subscribed \ {c} /\ messages # {})
      <3>1. queues[d] = answers[d]
        BY <1>4, <2>2
      <3> QED BY <2>2, <3>1
    <2> QED BY <2>1, <2>2
  <1> QED BY <1>6, <1>7 DEF PassesOn

LEMMA RelayHandleKeeps ==
  ASSUME Messages, NEW c \in Client, NEW i \in 1 .. Len(requests[c]), RelayHandle(c, i)
  PROVE  /\ Passes
         /\ ~CutsRange(store'[Relay], requests[c][i].ranges) => \A d \in Client : Keeps(d)
  <1> DEFINE request == requests[c][i]
             stored == store[Relay] \union request.messages
             output == Sync(stored, request.ranges)
             queues == Broadcast(c, request.messages)
             response == Answer("Response", output)
  <1>1. /\ requests' = [requests EXCEPT ![c] = RemoveAt(@, i)]
        /\ store' = [store EXCEPT ![Relay] = stored]
        /\ online' = online
        /\ subscribed' = IF request.subscribe THEN subscribed \union {c} ELSE subscribed
        /\ \/ answers' = [queues EXCEPT ![c] = Append(@, response)] /\ outcome' = outcome
           \/ answers' = queues /\ outcome' = [outcome EXCEPT ![c] = "tooBig"]
    BY Zenon DEF RelayHandle, Subscribe
  <1>2. Loses(AnyRequest, requests, c, request, requests')
    <2>1. requests \in [Client -> Seq(AnyRequest)]
      BY DEF Messages
    <2> HIDE DEF request
    <2> QED BY <1>1, <2>1, RemoveAtLoses DEF request
  <1>3. /\ store[c] \in SUBSET Timestamps /\ store[Relay] \in SUBSET Timestamps
        /\ c \in Peer /\ Relay \in Peer /\ c # Relay
    BY MessagesType
  <1> HIDE DEF request
  <1>4. request \in AnyRequest /\ request \in ToSet(requests[c]) /\ Sent(store[c], request)
    <2> HIDE DEF ToSet
    <2> QED BY <1>2, MessagesType DEF Loses
  <1>5. request.messages \in SUBSET Timestamps /\ request.messages \subseteq store[c]
        /\ stored \in SUBSET Timestamps /\ Covering(request.ranges)
    BY <1>3, <1>4 DEF AnyRequest, Sent
  <1>6. Synchronizes(stored, request.ranges, output)
    BY <1>5, SyncSynchronizes
  <1>7. Buffers(stored, output) /\ Covering(output.ranges)
    BY <1>6 DEF Synchronizes
  <1>8. PassesOn(c, request.messages, stored, queues)
    BY <1>5, BroadcastPassesOn
  <1> HIDE DEF output, queues
  <1>9. /\ response \in AnyAnswer /\ Sent(stored, response)
        /\ response.messages = output.messages /\ response.ranges = output.ranges
    BY <1>5, <1>7, AnswerSent
  <1> HIDE DEF response
  <1>10. /\ store' \in [Peer -> SUBSET Timestamps] /\ store'[Relay] = stored
         /\ \A p \in Peer : p # Relay => store'[p] = store[p]
         /\ \A p \in Peer : store[p] \subseteq store'[p]
    BY <1>1, <1>3, <1>5 DEF Messages
  <1> HIDE DEF stored
  <1>11. /\ answers' \in [Client -> Seq(AnyAnswer)]
         /\ \A d \in Client : d # c => answers'[d] = queues[d]
         /\ \A d \in Client : ToSet(answers[d]) \subseteq ToSet(answers'[d])
         /\ \A d \in Client : \A m \in ToSet(answers'[d]) : m \in ToSet(answers[d]) \/ Sent(stored, m)
         /\ outcome' \in [Client -> Outcomes]
         /\ \A d \in Client : d # c => outcome'[d] = outcome[d]
         /\ outcome'[c] = "ok" => outcome[c] = "ok" /\ response \in ToSet(answers'[c])
    <2>1. queues \in [Client -> Seq(AnyAnswer)]
      BY <1>8 DEF PassesOn
    <2>2. CASE answers' = [queues EXCEPT ![c] = Append(@, response)] /\ outcome' = outcome
      <3>1. Gains(AnyAnswer, queues, c, response, answers')
        BY <1>9, <2>1, <2>2, AppendGains
      <3> HIDE DEF ToSet
      <3>2. \A d \in Client : d # c => answers'[d] = queues[d]
        BY <3>1 DEF Gains, OnlyOf
      <3>3. answers' \in [Client -> Seq(AnyAnswer)] /\ ToSet(answers'[c]) = ToSet(queues[c]) \union {response}
        BY <3>1 DEF Gains, OnlyOf
      <3>4. outcome' \in [Client -> Outcomes]
        BY <2>2 DEF Messages
      <3>5. \A d \in Client : ToSet(queues[d]) \subseteq ToSet(answers'[d])
        BY <3>2, <3>3
      <3>6. \A d \in Client : \A m \in ToSet(answers'[d]) : m \in ToSet(queues[d]) \/ m = response
        BY <3>2, <3>3
      <3> QED BY <1>8, <1>9, <2>2, <3>2, <3>3, <3>4, <3>5, <3>6 DEF PassesOn
    <2>3. CASE answers' = queues /\ outcome' = [outcome EXCEPT ![c] = "tooBig"]
      <3>1. /\ outcome' \in [Client -> Outcomes] /\ outcome'[c] = "tooBig"
            /\ \A d \in Client : d # c => outcome'[d] = outcome[d]
        BY <2>3 DEF Messages, Outcomes
      <3> HIDE DEF ToSet
      <3>2. outcome'[c] # "ok"
        BY <3>1
      <3> QED BY <1>8, <2>1, <2>3, <3>1, <3>2 DEF PassesOn
    <2> QED BY <1>1, <2>2, <2>3
  <1>12. ASSUME NEW d \in Client
         PROVE  /\ requests'[d] \in Seq(AnyRequest)
                /\ ToSet(requests'[d]) \subseteq ToSet(requests[d])
                /\ d # c => requests'[d] = requests[d]
    <2> HIDE DEF ToSet
    <2> QED BY <1>2 DEF Loses, OnlyOf
  <1>13. Passes
    <2> HIDE DEF ToSet
    <2>1. requests' \in [Client -> Seq(AnyRequest)]
      BY <1>2 DEF Loses, OnlyOf
    <2>2. online' \subseteq Client
      BY <1>1 DEF Messages
    <2>3. \A d \in Client : \A m \in ToSet(requests'[d]) : m \in ToSet(requests[d])
      BY <1>12
    <2>4. \A d \in Client : \A m \in ToSet(answers'[d]) : m \in ToSet(answers[d]) \/ Sent(store'[Relay], m)
      BY <1>10, <1>11
    <2>5. answers' \in [Client -> Seq(AnyAnswer)] /\ outcome' \in [Client -> Outcomes]
      BY <1>11
    <2>6. store' \in [Peer -> SUBSET Timestamps] /\ \A p \in Peer : store[p] \subseteq store'[p]
      BY <1>10
    <2>7. \A d \in Client :
            /\ \A m \in ToSet(requests'[d]) : m \in ToSet(requests[d]) \/ Sent(store'[d], m)
            /\ \A m \in ToSet(answers'[d]) : m \in ToSet(answers[d]) \/ Sent(store'[Relay], m)
      BY <2>3, <2>4
    <2> QED BY <2>1, <2>2, <2>5, <2>6, <2>7, Zenon DEF Passes
  <1>14. ASSUME ~CutsRange(stored, request.ranges), NEW d \in Client
         PROVE  Keeps(d)
    <2>1. CASE d = c
      <3>1. SUFFICES ASSUME Undisturbed(c)', FollowedAt(c), SubscribingAt(c)
                     PROVE  FollowedAt(c)' /\ SubscribingAt(c)'
        BY <2>1, DisturbedKeeps DEF Keeps
      <3>2. Undisturbed(c) /\ response \in ToSet(answers'[c])
        BY <1>1, <1>11, <3>1 DEF Undisturbed
      <3> HIDE DEF ToSet
      <3>3. ToSet(requests[c]) \subseteq ToSet(requests'[c]) \union {request}
        BY <1>2 DEF Loses
      <3>4. c \in subscribed => c \in subscribed'
        BY <1>1
      <3>5. request.subscribe => c \in subscribed'
        BY <1>1
      <3>6. SubscribingAt(c)'
        BY <3>1, <3>2, <3>3, <3>4, <3>5 DEF SubscribingAt
      <3>7. ASSUME NEW t \in Differ(c)'
            PROVE  Carried(c, t)' \/ Watched(c, t)'
        <4>1. store'[c] = store[c] /\ store'[Relay] = stored
          BY <1>3, <1>10
        <4>2. t \in stored <=> t \in store[Relay]
          BY <1>5, <3>7, <4>1 DEF Differ, stored
        <4>3. t \in Differ(c) /\ t \in Timestamps /\ ~(t \in stored <=> t \in store[c])
          BY <1>3, <3>7, <4>1, <4>2 DEF Differ
        <4>4. ToSet(answers[c]) \subseteq ToSet(answers'[c])
          BY <1>11
        <4>5. CASE Carried(c, t)
          <5>1. CASE t \in store[c]
            <6>1. PICK m \in ToSet(requests[c]) : t \in m.messages
              BY <4>5, <5>1 DEF Carried
            <6>2. m # request
              BY <4>3, <5>1, <6>1 DEF stored
            <6>3. m \in ToSet(requests'[c])
              BY <3>3, <6>1, <6>2
            <6> QED BY <4>1, <5>1, <6>1, <6>3 DEF Carried
          <5>2. CASE t \notin store[c]
            BY <4>1, <4>4, <4>5, <5>2 DEF Carried
          <5> QED BY <5>1, <5>2
        <4>6. ASSUME NEW m \in ToSet(requests[c]), WatchedIn(m.ranges, t, store[c])
              PROVE  Carried(c, t)' \/ Watched(c, t)'
          <5>1. CASE m = request
            <6>1. Answered(stored, output, t)
              BY <1>6, <1>14, <4>3, <4>6, <5>1, WatchesAnswered
            <6>2. CASE t \in stored /\ t \in output.messages
              <7>1. t \notin store'[c] /\ t \in response.messages
                BY <1>9, <4>1, <4>3, <6>2
              <7> QED BY <3>2, <7>1 DEF Carried
            <6>3. CASE WatchedIn(output.ranges, t, stored)
              <7>1. WatchedIn(response.ranges, t, store'[Relay])
                BY <1>9, <4>1, <6>3
              <7> QED BY <3>2, <7>1 DEF Watched
            <6> QED BY <6>1, <6>2, <6>3 DEF Answered
          <5>2. CASE m # request
            BY <3>3, <4>1, <4>6, <5>2 DEF Watched
          <5> QED BY <5>1, <5>2
        <4>7. ASSUME NEW m \in ToSet(answers[c]), WatchedIn(m.ranges, t, store[Relay])
              PROVE  Watched(c, t)'
          <5>1. WatchedIn(m.ranges, t, stored)
            BY <4>2, <4>7, WatchesSame
          <5> QED BY <4>1, <4>4, <5>1 DEF Watched
        <4> QED BY <3>1, <3>2, <4>3, <4>5, <4>6, <4>7 DEF FollowedAt, Watched
      <3> QED BY <3>6, <3>7 DEF FollowedAt
    <2>2. CASE d # c
      <3>1. /\ store'[d] = store[d] /\ store'[Relay] = store[Relay] \union request.messages
            /\ requests'[d] = requests[d] /\ answers'[d] = queues[d] /\ outcome'[d] = outcome[d]
        BY <1>10, <1>11, <1>12, <2>2, MessagesType DEF stored
      <3>2. Relayed(d, request.messages)
        <4> HIDE DEF ToSet
        <4> QED BY <1>1, <1>8, <1>11, <2>2, <3>1 DEF Relayed, PassesOn, Undisturbed
      <3> QED BY <1>5, <3>2, RelayedKeeps DEF Keeps
    <2> QED BY <2>1, <2>2
  <1>15. store'[Relay] = stored
    BY <1>10
  <1> HIDE DEF CutsRange
  <1> QED BY <1>13, <1>14, <1>15 DEF request

LEMMA RelayFailsKeeps ==
  ASSUME Messages, NEW c \in Client, NEW i \in 1 .. Len(requests[c]), RelayFails(c, i)
  PROVE  Passes /\ \A d \in Client : Keeps(d)
  <1> DEFINE request == requests[c][i]
             queues == Broadcast(c, request.messages)
             error == Answer("Error", EmptyBuffer)
  <1>1. /\ requests' = [requests EXCEPT ![c] = RemoveAt(@, i)]
        /\ online' = online
        /\ subscribed' = IF request.subscribe THEN subscribed \union {c} ELSE subscribed
        /\ outcome' = [outcome EXCEPT ![c] = "failed"]
        /\ \/ answers' = [answers EXCEPT ![c] = Append(@, error)] /\ store' = store
           \/ /\ answers' = [queues EXCEPT ![c] = Append(@, error)]
              /\ store' = [store EXCEPT ![Relay] = @ \union request.messages]
    BY Zenon DEF RelayFails, Subscribe
  <1>2. Loses(AnyRequest, requests, c, request, requests')
    <2>1. requests \in [Client -> Seq(AnyRequest)]
      BY DEF Messages
    <2> HIDE DEF request
    <2> QED BY <1>1, <2>1, RemoveAtLoses DEF request
  <1>3. /\ store[c] \in SUBSET Timestamps /\ store[Relay] \in SUBSET Timestamps
        /\ c \in Peer /\ Relay \in Peer /\ c # Relay
    BY MessagesType
  <1> HIDE DEF request
  <1>4. request \in AnyRequest
    <2> HIDE DEF ToSet
    <2> QED BY <1>2 DEF Loses
  <1>5. request.messages \in SUBSET Timestamps
    BY <1>4 DEF AnyRequest
  <1>6. /\ outcome' \in [Client -> Outcomes] /\ outcome'[c] = "failed"
        /\ \A d \in Client : d # c => outcome'[d] = outcome[d]
    BY <1>1 DEF Messages, Outcomes
  <1>7. ASSUME NEW d \in Client
        PROVE  /\ requests'[d] \in Seq(AnyRequest)
               /\ ToSet(requests'[d]) \subseteq ToSet(requests[d])
               /\ d # c => requests'[d] = requests[d]
    <2> HIDE DEF ToSet
    <2> QED BY <1>2 DEF Loses, OnlyOf
  <1>8. ASSUME NEW T \in SUBSET Timestamps, store'[Relay] = T,
               store' \in [Peer -> SUBSET Timestamps],
               \A p \in Peer : store[p] \subseteq store'[p],
               NEW old \in [Client -> Seq(AnyAnswer)],
               \A d \in Client : \A m \in ToSet(old[d]) : m \in ToSet(answers[d]) \/ Sent(T, m),
               answers' = [old EXCEPT ![c] = Append(@, error)]
        PROVE  Passes /\ \A d \in Client : d # c => answers'[d] = old[d]
    <2>1. error \in AnyAnswer /\ Sent(T, error)
      BY <1>8, EmptyBufferSent, AnswerSent
    <2> HIDE DEF error
    <2>2. Gains(AnyAnswer, old, c, error, answers')
      BY <1>8, <2>1, AppendGains
    <2> HIDE DEF ToSet
    <2>3. /\ answers' \in [Client -> Seq(AnyAnswer)]
          /\ \A d \in Client : d # c => answers'[d] = old[d]
          /\ ToSet(answers'[c]) = ToSet(old[c]) \union {error}
      BY <2>2 DEF Gains, OnlyOf
    <2>4. requests' \in [Client -> Seq(AnyRequest)]
      BY <1>2 DEF Loses, OnlyOf
    <2>5. online' \subseteq Client
      BY <1>1 DEF Messages
    <2>6. ASSUME NEW d \in Client
          PROVE  /\ \A m \in ToSet(requests'[d]) : m \in ToSet(requests[d]) \/ Sent(store'[d], m)
                 /\ \A m \in ToSet(answers'[d]) : m \in ToSet(answers[d]) \/ Sent(store'[Relay], m)
      <3>1. \A m \in ToSet(answers'[d]) : m \in ToSet(old[d]) \/ m = error
        BY <2>3
      <3> QED BY <1>7, <1>8, <2>1, <3>1
    <2>7. Passes
      BY <1>6, <1>8, <2>3, <2>4, <2>5, <2>6 DEF Passes
    <2> QED BY <2>3, <2>7
  <1>9. CASE answers' = [answers EXCEPT ![c] = Append(@, error)] /\ store' = store
    <2>1. Passes /\ \A d \in Client : d # c => answers'[d] = answers[d]
      <3>1. /\ store'[Relay] = store[Relay] /\ store' \in [Peer -> SUBSET Timestamps]
            /\ \A p \in Peer : store[p] \subseteq store'[p]
            /\ answers \in [Client -> Seq(AnyAnswer)]
        BY <1>9 DEF Messages
      <3> HIDE DEF error, ToSet
      <3> QED BY <1>3, <1>8, <1>9, <3>1
    <2>2. ASSUME NEW d \in Client
          PROVE  Keeps(d)
      <3>1. CASE d = c
        BY <1>6, <3>1, DisturbedKeeps DEF Undisturbed
      <3>2. CASE d # c
        <4>1. Untouched(d)
          BY <1>1, <1>6, <1>7, <1>9, <2>1, <3>2 DEF Untouched
        <4> QED BY <4>1, UntouchedKeeps
      <3> QED BY <3>1, <3>2
    <2> QED BY <2>1, <2>2
  <1>10. CASE /\ answers' = [queues EXCEPT ![c] = Append(@, error)]
              /\ store' = [store EXCEPT ![Relay] = @ \union request.messages]
    <2> DEFINE stored == store[Relay] \union request.messages
    <2>1. stored \in SUBSET Timestamps /\ request.messages \subseteq stored
      BY <1>3, <1>5
    <2>2. PassesOn(c, request.messages, stored, queues)
      BY <1>5, <2>1, BroadcastPassesOn
    <2>3. /\ store' \in [Peer -> SUBSET Timestamps] /\ store'[Relay] = stored
          /\ \A p \in Peer : p # Relay => store'[p] = store[p]
          /\ \A p \in Peer : store[p] \subseteq store'[p]
      BY <1>3, <1>10, <2>1 DEF Messages
    <2> HIDE DEF stored, queues, error
    <2>4. Passes /\ \A d \in Client : d # c => answers'[d] = queues[d]
      <3> HIDE DEF ToSet
      <3>1. /\ queues \in [Client -> Seq(AnyAnswer)]
            /\ \A d \in Client : \A m \in ToSet(queues[d]) : m \in ToSet(answers[d]) \/ Sent(stored, m)
        BY <2>2 DEF PassesOn
      <3> QED BY <1>8, <1>10, <2>1, <2>3, <3>1
    <2>5. ASSUME NEW d \in Client
          PROVE  Keeps(d)
      <3>1. CASE d = c
        BY <1>6, <3>1, DisturbedKeeps DEF Undisturbed
      <3>2. CASE d # c
        <4>1. /\ store'[d] = store[d] /\ store'[Relay] = store[Relay] \union request.messages
              /\ requests'[d] = requests[d] /\ answers'[d] = queues[d] /\ outcome'[d] = outcome[d]
          BY <1>6, <1>7, <2>3, <2>4, <3>2, MessagesType DEF stored
        <4>2. Relayed(d, request.messages)
          <5> HIDE DEF ToSet
          <5> QED BY <1>1, <2>2, <3>2, <4>1 DEF Relayed, PassesOn, Undisturbed
        <4> QED BY <1>5, <4>2, RelayedKeeps DEF Keeps
      <3> QED BY <3>1, <3>2
    <2> QED BY <2>4, <2>5
  <1> QED BY <1>1, <1>9, <1>10

LEMMA ClientStopsKeeps ==
  ASSUME Messages, NEW c \in Client, ClientStops(c)
  PROVE  Passes /\ \A d \in Client : Keeps(d)
  <1>1. /\ answers[c] # <<>> /\ answers' = [answers EXCEPT ![c] = Tail(@)]
        /\ outcome' = [outcome EXCEPT ![c] = "failed"]
        /\ online' = online /\ subscribed' = subscribed /\ requests' = requests
        /\ \/ store' = store
           \/ store' = [store EXCEPT ![c] = @ \union Head(answers[c]).messages]
    BY DEF ClientStops
  <1>2. Loses(AnyAnswer, answers, c, Head(answers[c]), answers')
    <2>1. answers \in [Client -> Seq(AnyAnswer)]
      BY DEF Messages
    <2> QED BY <1>1, <2>1, TailLoses
  <1>3. /\ store[c] \in SUBSET Timestamps /\ c \in Peer /\ Relay \in Peer /\ c # Relay
        /\ \A d \in Client : d \in Peer
    BY MessagesType
  <1>4. Head(answers[c]).messages \in SUBSET Timestamps
    <2> HIDE DEF ToSet
    <2>1. Head(answers[c]) \in AnyAnswer
      BY <1>2 DEF Loses
    <2> QED BY <2>1 DEF AnyAnswer
  <1>5. /\ store' \in [Peer -> SUBSET Timestamps]
        /\ \A p \in Peer : p # c => store'[p] = store[p]
        /\ \A p \in Peer : store[p] \subseteq store'[p]
    BY <1>1, <1>3, <1>4 DEF Messages
  <1>6. /\ outcome' \in [Client -> Outcomes] /\ outcome'[c] = "failed"
        /\ \A d \in Client : d # c => outcome'[d] = outcome[d]
    BY <1>1 DEF Messages, Outcomes
  <1>7. /\ answers' \in [Client -> Seq(AnyAnswer)]
        /\ \A d \in Client : d # c => answers'[d] = answers[d]
        /\ \A d \in Client : \A m \in ToSet(answers'[d]) : m \in ToSet(answers[d])
    <2> HIDE DEF ToSet
    <2> QED BY <1>2 DEF Loses, OnlyOf
  <1>8. Passes
    <2> HIDE DEF ToSet
    <2> QED BY <1>1, <1>5, <1>6, <1>7 DEF Passes, Messages
  <1>9. ASSUME NEW d \in Client
        PROVE  Keeps(d)
    <2>1. CASE d = c
      BY <1>6, <2>1, DisturbedKeeps DEF Undisturbed
    <2>2. CASE d # c
      <3>1. Untouched(d)
        BY <1>1, <1>3, <1>5, <1>6, <1>7, <2>2 DEF Untouched
      <3> QED BY <3>1, UntouchedKeeps
    <2> QED BY <2>1, <2>2
  <1> QED BY <1>8, <1>9

LEMMA NothingAnswered ==
  ASSUME NEW S, NEW t
  PROVE  ~Answered(S, EmptyBuffer, t)
  <1>1. EmptyBuffer.messages = {} /\ Len(EmptyBuffer.ranges) = 0
    BY DEF EmptyBuffer
  <1> QED BY <1>1 DEF Answered, WatchedIn

LEMMA ReplyKeeps ==
  ASSUME Messages, NEW c \in Client, answers[c] # <<>>,
         NEW stored, stored = store[c] \/ stored = store[c] \union Head(answers[c]).messages,
         Reply(c, stored)
  PROVE  /\ Passes
         /\ ~CutsRange(stored, Head(answers[c]).ranges) => \A d \in Client : Keeps(d)
  <1> DEFINE answer == Head(answers[c])
             output == Sync(stored, answer.ranges)
             no == FALSE
             request == Request(output, no)
  <1>1. /\ answers' = [answers EXCEPT ![c] = Tail(@)]
        /\ store' = [store EXCEPT ![c] = stored]
        /\ requests' = IF output # EmptyBuffer /\ WithinSizeLimits(output)
                       THEN Send(requests, c, request) ELSE requests
        /\ outcome' = [outcome EXCEPT ![c] =
                         IF ~WithinSizeLimits(output) THEN "tooBig"
                         ELSE IF ~(answer.messages \subseteq stored) THEN "failed" ELSE @]
        /\ online' = online /\ subscribed' = subscribed
    BY Zenon DEF Reply
  <1>2. no \in BOOLEAN
    OBVIOUS
  <1> HIDE DEF no
  <1>3. Loses(AnyAnswer, answers, c, answer, answers')
    <2>1. answers \in [Client -> Seq(AnyAnswer)]
      BY DEF Messages
    <2> QED BY <1>1, <2>1, TailLoses
  <1>4. /\ store[c] \in SUBSET Timestamps /\ store[Relay] \in SUBSET Timestamps
        /\ c \in Peer /\ Relay \in Peer /\ c # Relay
    BY MessagesType
  <1>5. stored = store[c] \/ stored = store[c] \union answer.messages
    OBVIOUS
  <1> HIDE DEF answer
  <1>6. answer \in AnyAnswer /\ answer \in ToSet(answers[c]) /\ Sent(store[Relay], answer)
    <2> HIDE DEF ToSet
    <2> QED BY <1>3, MessagesType DEF Loses
  <1>7. answer.messages \in SUBSET Timestamps /\ answer.messages \subseteq store[Relay]
        /\ Covering(answer.ranges)
    BY <1>6 DEF AnyAnswer, Sent
  <1>8. stored \in SUBSET Timestamps /\ store[c] \subseteq stored
    BY <1>4, <1>5, <1>7
  <1>9. Synchronizes(stored, answer.ranges, output)
    BY <1>7, <1>8, SyncSynchronizes
  <1>10. Buffers(stored, output) /\ Covering(output.ranges)
    BY <1>9 DEF Synchronizes
  <1> HIDE DEF output
  <1>11. /\ request \in AnyRequest /\ Sent(stored, request)
         /\ request.messages = output.messages /\ request.ranges = output.ranges
    BY <1>2, <1>8, <1>10, RequestSent
  <1> HIDE DEF request
  <1> DEFINE replies == output # EmptyBuffer /\ WithinSizeLimits(output) /\ c \in online
  <1>12. IF replies THEN Gains(AnyRequest, requests, c, request, requests') ELSE requests' = requests
    <2>1. requests \in [Client -> Seq(AnyRequest)]
      BY DEF Messages
    <2> DEFINE sending == Send(requests, c, request)
    <2>2. IF c \in online THEN Gains(AnyRequest, requests, c, request, sending) ELSE sending = requests
      BY <1>11, <2>1, SendGains
    <2>3. requests' = IF output # EmptyBuffer /\ WithinSizeLimits(output) THEN sending ELSE requests
      BY <1>1
    <2> HIDE DEF sending
    <2> QED BY <2>2, <2>3
  <1>13. /\ store' \in [Peer -> SUBSET Timestamps] /\ store'[c] = stored
         /\ \A p \in Peer : p # c => store'[p] = store[p]
         /\ \A p \in Peer : store[p] \subseteq store'[p]
    BY <1>1, <1>4, <1>8 DEF Messages
  <1>14. /\ outcome' \in [Client -> Outcomes]
         /\ outcome'[c] = "ok" =>
              outcome[c] = "ok" /\ WithinSizeLimits(output) /\ answer.messages \subseteq stored
         /\ \A d \in Client : d # c => outcome'[d] = outcome[d]
    BY <1>1 DEF Messages, Outcomes
  <1>15. ASSUME NEW d \in Client
         PROVE  /\ requests'[d] \in Seq(AnyRequest)
                /\ ToSet(requests[d]) \subseteq ToSet(requests'[d])
                /\ \A m \in ToSet(requests'[d]) : m \in ToSet(requests[d]) \/ Sent(store'[d], m)
                /\ d # c => requests'[d] = requests[d]
    <2> HIDE DEF ToSet
    <2>1. CASE replies
      <3>1. Gains(AnyRequest, requests, c, request, requests')
        BY <1>12, <2>1
      <3> HIDE DEF replies
      <3>2. requests' \in [Client -> Seq(AnyRequest)] /\ ToSet(requests'[c]) = ToSet(requests[c]) \union {request}
        BY <3>1 DEF Gains, OnlyOf
      <3>3. d # c => requests'[d] = requests[d]
        BY <3>1 DEF Gains, OnlyOf
      <3> QED BY <1>11, <1>13, <3>2, <3>3
    <2>2. CASE ~replies
      <3>1. requests' = requests
        BY <1>12, <2>2
      <3> QED BY <3>1, MessagesType
    <2> QED BY <2>1, <2>2
  <1>16. /\ answers' \in [Client -> Seq(AnyAnswer)]
         /\ \A d \in Client : d # c => answers'[d] = answers[d]
         /\ \A d \in Client : \A m \in ToSet(answers'[d]) : m \in ToSet(answers[d])
    <2> HIDE DEF ToSet
    <2> QED BY <1>3 DEF Loses, OnlyOf
  <1>17. Passes
    <2> HIDE DEF ToSet
    <2>1. requests' \in [Client -> Seq(AnyRequest)]
      <3>1. CASE replies
        BY <1>12, <3>1 DEF Gains, OnlyOf
      <3>2. CASE ~replies
        BY <1>12, <3>2 DEF Messages
      <3> QED BY <3>1, <3>2
    <2>2. online' \subseteq Client
      BY <1>1 DEF Messages
    <2>3. \A d \in Client : \A m \in ToSet(answers'[d]) : m \in ToSet(answers[d])
      BY <1>16
    <2> QED BY <1>13, <1>14, <1>15, <1>16, <2>1, <2>2, <2>3 DEF Passes
  <1>18. ASSUME ~CutsRange(stored, answer.ranges), NEW d \in Client
         PROVE  Keeps(d)
    <2>1. CASE d = c
      <3>1. SUFFICES ASSUME Undisturbed(c)', FollowedAt(c), SubscribingAt(c)
                     PROVE  FollowedAt(c)' /\ SubscribingAt(c)'
        BY <2>1, DisturbedKeeps DEF Keeps
      <3>2. Undisturbed(c) /\ WithinSizeLimits(output) /\ answer.messages \subseteq stored /\ c \in online
        BY <1>1, <1>14, <3>1 DEF Undisturbed
      <3> HIDE DEF ToSet
      <3>3. ToSet(answers[c]) \subseteq ToSet(answers'[c]) \union {answer}
        BY <1>3 DEF Loses
      <3>4. ToSet(requests[c]) \subseteq ToSet(requests'[c])
        BY <1>15
      <3>5. output # EmptyBuffer => request \in ToSet(requests'[c])
        BY <1>12, <3>2 DEF Gains
      <3>6. SubscribingAt(c)'
        BY <1>1, <3>1, <3>2, <3>4 DEF SubscribingAt
      <3>7. ASSUME NEW t \in Differ(c)'
            PROVE  Carried(c, t)' \/ Watched(c, t)'
        <4>1. store'[c] = stored /\ store'[Relay] = store[Relay]
          BY <1>4, <1>13
        <4>2. t \in stored <=> t \in store[c]
          BY <1>5, <1>7, <1>8, <3>7, <4>1 DEF Differ
        <4>3. t \in Differ(c) /\ t \in Timestamps /\ ~(t \in stored <=> t \in store[Relay])
          BY <1>4, <1>8, <3>7, <4>1, <4>2 DEF Differ
        <4>4. CASE Carried(c, t)
          <5>1. CASE t \in store[c]
            BY <3>4, <4>1, <4>2, <4>4, <5>1 DEF Carried
          <5>2. CASE t \notin store[c]
            <6>1. PICK m \in ToSet(answers[c]) : t \in m.messages
              BY <4>4, <5>2 DEF Carried
            <6>2. m # answer
              BY <3>2, <4>2, <5>2, <6>1
            <6>3. m \in ToSet(answers'[c])
              BY <3>3, <6>1, <6>2
            <6> QED BY <4>1, <4>2, <5>2, <6>1, <6>3 DEF Carried
          <5> QED BY <5>1, <5>2
        <4>5. ASSUME NEW m \in ToSet(answers[c]), WatchedIn(m.ranges, t, store[Relay])
              PROVE  Carried(c, t)' \/ Watched(c, t)'
          <5>1. CASE m = answer
            <6>1. Answered(stored, output, t)
              BY <1>9, <1>18, <4>3, <4>5, <5>1, WatchesAnswered
            <6>2. output # EmptyBuffer
              BY <6>1, NothingAnswered
            <6>3. request \in ToSet(requests'[c])
              BY <3>5, <6>2
            <6>4. CASE t \in stored /\ t \in output.messages
              <7>1. t \in store'[c] /\ t \in request.messages
                BY <1>11, <4>1, <6>4
              <7> QED BY <6>3, <7>1 DEF Carried
            <6>5. CASE WatchedIn(output.ranges, t, stored)
              <7>1. WatchedIn(request.ranges, t, store'[c])
                BY <1>11, <4>1, <6>5
              <7> QED BY <6>3, <7>1 DEF Watched
            <6> QED BY <6>1, <6>4, <6>5 DEF Answered
          <5>2. CASE m # answer
            BY <3>3, <4>1, <4>5, <5>2 DEF Watched
          <5> QED BY <5>1, <5>2
        <4>6. ASSUME NEW m \in ToSet(requests[c]), WatchedIn(m.ranges, t, store[c])
              PROVE  Watched(c, t)'
          <5>1. WatchedIn(m.ranges, t, stored)
            BY <4>2, <4>6, WatchesSame
          <5> QED BY <3>4, <4>1, <5>1 DEF Watched
        <4> QED BY <3>1, <3>2, <4>3, <4>4, <4>5, <4>6 DEF FollowedAt, Watched
      <3> QED BY <3>6, <3>7 DEF FollowedAt
    <2>2. CASE d # c
      <3>1. store'[d] = store[d] /\ store'[Relay] = store[Relay]
        BY <1>4, <1>13, <2>2, MessagesType
      <3>2. requests'[d] = requests[d] /\ answers'[d] = answers[d] /\ outcome'[d] = outcome[d]
        BY <1>14, <1>15, <1>16, <2>2
      <3>3. Untouched(d)
        BY <1>1, <3>1, <3>2 DEF Untouched
      <3> QED BY <3>3, UntouchedKeeps
    <2> QED BY <2>1, <2>2
  <1> HIDE DEF CutsRange
  <1> QED BY <1>17, <1>18 DEF answer

LEMMA StepKeeps ==
  ASSUME Messages, [Next]_vars
  PROVE  Passes /\ (~EndsEarly => \A d \in Client : Keeps(d))
  <1>1. CASE UNCHANGED vars
    <2>1. /\ store' = store /\ online' = online /\ subscribed' = subscribed
          /\ requests' = requests /\ answers' = answers /\ outcome' = outcome
      BY <1>1 DEF vars
    <2> HIDE DEF ToSet
    <2>2. Passes
      BY <2>1 DEF Passes, Messages
    <2>3. \A d \in Client : Untouched(d)
      BY <2>1 DEF Untouched
    <2> QED BY <2>2, <2>3, UntouchedKeeps
  <1>2. ASSUME NEW c \in Client, Connect(c)
        PROVE  Passes /\ \A d \in Client : Keeps(d)
    BY <1>2, ConnectKeeps
  <1>3. ASSUME NEW c \in Client, Disconnect(c)
        PROVE  Passes /\ \A d \in Client : Keeps(d)
    BY <1>3, DisconnectKeeps
  <1>4. ASSUME NEW c \in Client, NEW changes \in SUBSET Timestamps, Mutate(c, changes)
        PROVE  Passes /\ \A d \in Client : Keeps(d)
    BY <1>4, MutateKeeps
  <1>5. ASSUME NEW c \in Client, NEW i \in 1 .. Len(requests[c]), RelayHandle(c, i)
        PROVE  Passes /\ (~EndsEarly => \A d \in Client : Keeps(d))
    <2>1. CutsRange(store'[Relay], requests[c][i].ranges) => EndsEarly
      BY <1>5, Zenon DEF EndsEarly
    <2> QED BY <1>5, <2>1, RelayHandleKeeps
  <1>6. ASSUME NEW c \in Client, NEW i \in 1 .. Len(requests[c]), RelayFails(c, i)
        PROVE  Passes /\ \A d \in Client : Keeps(d)
    BY <1>6, RelayFailsKeeps
  <1>7. ASSUME NEW c \in Client, StartSync(c)
        PROVE  Passes /\ \A d \in Client : Keeps(d)
    BY <1>7, StartSyncKeeps
  <1>8. ASSUME NEW c \in Client, ClientHandle(c) \/ ClientDrops(c)
        PROVE  Passes /\ (~EndsEarly => \A d \in Client : Keeps(d))
    <2>1. CutsRange(store'[c], Head(answers[c]).ranges) => EndsEarly
      BY <1>8, Zenon DEF EndsEarly
    <2>2. PICK stored : /\ stored = store[c] \/ stored = store[c] \union Head(answers[c]).messages
                        /\ Reply(c, stored) /\ answers[c] # <<>>
      BY <1>8, Zenon DEF ClientHandle, ClientDrops
    <2>3. store'[c] = stored
      BY <2>2, MessagesType DEF Reply, Messages
    <2> HIDE DEF CutsRange, Reply
    <2> QED BY <2>1, <2>2, <2>3, ReplyKeeps
  <1>9. ASSUME NEW c \in Client, ClientStops(c)
        PROVE  Passes /\ \A d \in Client : Keeps(d)
    BY <1>9, ClientStopsKeeps
  <1>10. CASE Next
    <2>1. PICK c \in Client :
            \/ Connect(c)
            \/ Disconnect(c)
            \/ \E changes \in SUBSET Timestamps : Mutate(c, changes)
            \/ \E i \in 1 .. Len(requests[c]) : RelayHandle(c, i) \/ RelayFails(c, i)
            \/ StartSync(c)
            \/ ClientHandle(c)
            \/ ClientDrops(c)
            \/ ClientStops(c)
      BY <1>10, Zenon DEF Next
    <2> QED BY <1>2, <1>3, <1>4, <1>5, <1>6, <1>7, <1>8, <1>9, <2>1, Zenon
  <1> QED BY <1>1, <1>10

(* At first nobody is connected and nothing is under way. *)
LEMMA InitMessages ==
  Init => Messages /\ \A c \in Client : FollowedAt(c) /\ SubscribingAt(c)
  <1>1. SUFFICES ASSUME Init PROVE Messages /\ \A c \in Client : FollowedAt(c) /\ SubscribingAt(c)
    OBVIOUS
  <1>2. /\ store \in [Peer -> SUBSET Timestamps] /\ online = {}
        /\ requests = [c \in Client |-> <<>>] /\ answers = [c \in Client |-> <<>>]
        /\ outcome = [c \in Client |-> "none"]
    BY <1>1 DEF Init, Disconnected
  <1>3. /\ requests \in [Client -> Seq(AnyRequest)] /\ answers \in [Client -> Seq(AnyAnswer)]
        /\ outcome \in [Client -> Outcomes]
    BY <1>2 DEF Outcomes
  <1>4. ASSUME NEW c \in Client
        PROVE  ToSet(requests[c]) = {} /\ ToSet(answers[c]) = {} /\ ~Undisturbed(c)
    BY <1>2, EmptyMembers DEF Undisturbed
  <1> HIDE DEF ToSet
  <1> QED BY <1>2, <1>3, <1>4 DEF Messages, FollowedAt, SubscribingAt

LEMMA MessagesAlways == Spec => []Messages
  <1>1. Messages /\ [Next]_vars => Messages'
    BY StepKeeps, PassesKeeps
  <1>2. Init => Messages
    BY InitMessages
  <1> QED BY <1>1, <1>2, PTL DEF Spec

(* The inductive invariant of a synchronization that no range cuts short. *)
Following == Messages /\ \A c \in Client : FollowedAt(c) /\ SubscribingAt(c)

LEMMA FollowingAlways == Spec /\ [][~EndsEarly]_vars => []Following
  <1>1. Init => Following
    BY InitMessages DEF Following
  <1>2. Following /\ [Next]_vars /\ [~EndsEarly]_vars => Following'
    <2>1. SUFFICES ASSUME Following, [Next]_vars, [~EndsEarly]_vars PROVE Following'
      OBVIOUS
    <2>2. CASE ~EndsEarly
      <3>1. Passes /\ \A d \in Client : Keeps(d)
        BY <2>1, <2>2, StepKeeps DEF Following
      <3>2. Messages'
        BY <2>1, <3>1, PassesKeeps DEF Following
      <3> QED BY <2>1, <3>1, <3>2 DEF Following, Keeps
    <2>3. CASE UNCHANGED vars
      <3>1. /\ store' = store /\ online' = online /\ subscribed' = subscribed
            /\ requests' = requests /\ answers' = answers /\ outcome' = outcome
        BY <2>3 DEF vars
      <3>2. \A d \in Client : Untouched(d)
        BY <3>1 DEF Untouched
      <3>3. \A d \in Client : Keeps(d)
        BY <3>2, UntouchedKeeps
      <3>4. Messages'
        BY <2>1, StepKeeps, PassesKeeps DEF Following
      <3> QED BY <2>1, <3>3, <3>4 DEF Following, Keeps
    <2> QED BY <2>1, <2>2, <2>3
  <1> QED BY <1>1, <1>2, PTL DEF Spec

(* Whatever the peers have and whatever goes wrong, the ranges of every message
   under way cover every timestamp there can be, in order, up to an infinite bound:
   addRange and unwrap never assert. (sync, splitRange and
   createProtocolMessageFromCrdtMessages, Protocol.ts.) *)
THEOREM RangesAlwaysCover == Spec => []RangesCoverEverything
  <1>1. ASSUME Messages
        PROVE  RangesCoverEverything
    <2>1. SUFFICES ASSUME NEW c \in Client, NEW m \in InFlight(c), NEW i \in DOMAIN m.ranges
                   PROVE  /\ m.ranges[i].upperBound = Infinite <=> i = Len(m.ranges)
                          /\ i > 1 => m.ranges[i - 1].upperBound <= m.ranges[i].upperBound
      BY DEF RangesCoverEverything
    <2>2. Covering(m.ranges)
      <3> HIDE DEF ToSet
      <3> QED BY <1>1, <2>1 DEF InFlight, Messages, Sent
    <2> DEFINE ranges == m.ranges
    <2>3. ranges \in Seq(AnyRange) /\ Len(ranges) \in Nat /\ i \in 1 .. Len(ranges)
      BY <2>1, <2>2 DEF Covering, Ordered
    <2>4. ranges # <<>>
      BY <2>3
    <2> HIDE DEF ranges
    <2>5. Ordered(ranges) /\ Low(ranges, Len(ranges) + 1) = Infinite
      BY <2>2, <2>4 DEF Covering, ranges
    <2>6. Len(ranges) + 1 # 1 /\ Len(ranges) + 1 - 1 = Len(ranges)
      BY <2>3
    <2>7. ranges[Len(ranges)].upperBound = Infinite
      BY <2>5, <2>6 DEF Low
    <2>8. i < Len(ranges) => ranges[i].upperBound # Infinite
      BY <2>3, <2>5 DEF Ordered
    <2>9. i > 1 => ranges[i - 1].upperBound <= ranges[i].upperBound
      BY <2>3, <2>5 DEF Ordered, Low
    <2> QED BY <2>3, <2>7, <2>8, <2>9 DEF ranges
  <1> QED BY <1>1, MessagesAlways, PTL

LEMMA FollowingForgetsNothing ==
  ASSUME Following
  PROVE  NothingForgotten
  <1>1. SUFFICES ASSUME NEW c \in Client, Undisturbed(c), NEW t \in Differ(c)
                 PROVE  Carried(c, t) \/ Probed(c, t)
    BY DEF NothingForgotten
  <1>2. Carried(c, t) \/ Watched(c, t)
    BY <1>1 DEF Following, FollowedAt
  <1>3. ASSUME NEW m \in InFlight(c), NEW S, WatchedIn(m.ranges, t, S)
        PROVE  Probed(c, t)
    <2>1. m.ranges \in Seq(AnyRange)
      <3> HIDE DEF ToSet
      <3> QED BY <1>3 DEF Following, Messages, Sent, Covering, Ordered, InFlight
    <2>2. PICK i \in 1 .. Len(m.ranges) : Watches(m.ranges, i, t, S)
      BY <1>3 DEF WatchedIn
    <2>3. i \in DOMAIN m.ranges
      BY <2>1
    <2>4. /\ m.ranges[i].type # Skip /\ t < m.ranges[i].upperBound
          /\ i > 1 => m.ranges[i - 1].upperBound <= t
      BY <2>2 DEF Watches, Low
    <2> HIDE DEF InFlight
    <2> QED BY <1>3, <2>3, <2>4 DEF Probed
  <1> HIDE DEF ToSet
  <1> QED BY <1>2, <1>3 DEF Watched, InFlight

(* As long as nothing goes wrong for a client and no handler meets a range it cannot
   split, every timestamp that only one side has is on its way to the other or in a
   range under way that is not skipped: no round of the protocol, no mutation, no
   broadcast and no handler that overtakes another loses track of it.
   (sync and the handlers on both sides, Protocol.ts.) *)
THEOREM NothingIsForgotten ==
  Spec /\ [][~EndsEarly]_vars => []NothingForgotten
  <1> QED BY FollowingAlways, FollowingForgetsNothing, PTL

(* Then a client for which nothing is under way has exactly what the relay has.
   (Protocol.ts, "continuing until both sides are synchronized".) *)
THEOREM QuietMeansSynced ==
  Spec /\ [][~EndsEarly]_vars => []SyncedWhenQuiet
  <1>1. ASSUME Following
        PROVE  SyncedWhenQuiet
    <2>1. SUFFICES ASSUME NEW c \in Client, Undisturbed(c), requests[c] = <<>>, answers[c] = <<>>
                   PROVE  Differ(c) = {}
      BY DEF SyncedWhenQuiet
    <2>2. ToSet(requests[c]) = {} /\ ToSet(answers[c]) = {}
      BY <2>1, EmptyMembers
    <2> HIDE DEF ToSet
    <2>3. \A t \in Differ(c) : Carried(c, t) \/ Watched(c, t)
      BY <1>1, <2>1 DEF Following, FollowedAt
    <2> QED BY <2>2, <2>3 DEF Carried, Watched
  <1> QED BY <1>1, FollowingAlways, PTL

-----------------------------------------------------------------------------
(* The size of a buffer. *)

(* The size of the first n ranges. *)
SizeUpTo(ranges) ==
  LET size[n \in 0 .. Len(ranges)] ==
        IF n = 0 THEN 0 ELSE size[n - 1] + RangeSize(ranges[n])
  IN  size

LEMMA RangeSizeType ==
  ASSUME NEW range \in AnyRange
  PROVE  /\ RangeSize(range) \in Nat
         /\ range.type = Skip => RangeSize(range) = 1
         /\ range.type = FingerprintRange => RangeSize(range) = 2
         /\ range.type = TimestampsRange => RangeSize(range) = 1 + Cardinality(range.content)
  <1>1. Skip # FingerprintRange /\ Skip # TimestampsRange /\ FingerprintRange # TimestampsRange
    BY DEF Skip, FingerprintRange, TimestampsRange
  <1>2. range.type \in {Skip, FingerprintRange, TimestampsRange}
        /\ range.content \subseteq Timestamps \union {Infinite}
    BY DEF AnyRange
  <1>3. Cardinality(range.content) \in Nat
    <2>1. IsFiniteSet(0 .. Infinite)
      BY FS_Interval, InfiniteAssumption
    <2>2. range.content \subseteq 0 .. Infinite
      <3>1. \A t \in Timestamps \union {Infinite} : t \in 0 .. Infinite
        BY TimestampsAssumption, InfiniteAssumption
      <3> QED BY <1>2, <3>1
    <2> QED BY <2>1, <2>2, FS_Subset, FS_CardinalityType
  <1> HIDE DEF Skip, FingerprintRange, TimestampsRange
  <1> QED BY <1>1, <1>2, <1>3 DEF RangeSize

LEMMA SizeUpToStep ==
  ASSUME NEW ranges, Len(ranges) \in Nat
  PROVE  /\ SizeUpTo(ranges)[0] = 0
         /\ \A n \in 1 .. Len(ranges) :
              SizeUpTo(ranges)[n] = SizeUpTo(ranges)[n - 1] + RangeSize(ranges[n])
         /\ SizeOfRanges(ranges) = SizeUpTo(ranges)[Len(ranges)]
  <1> DEFINE N == Len(ranges)
             Next0(f, n) == IF n = 0 THEN 0 ELSE f[n - 1] + RangeSize(ranges[n])
             Good(k, f) == f = [n \in 0 .. k |-> Next0(f, n)]
             T == {k \in Nat : ~\E f : Good(k, f)}
  <1>1. T = {}
    <2>1. SUFFICES ASSUME T # {} PROVE FALSE
      OBVIOUS
    <2>2. PICK k \in T : \A j \in T : k <= j
      <3>1. T \subseteq Nat
        OBVIOUS
      <3> HIDE DEF T
      <3> QED BY <2>1, <3>1, LeastNatural
    <2>3. k \in Nat /\ ~\E f : Good(k, f)
      BY <2>2
    <2>4. CASE k = 0
      <3> DEFINE f == [n \in 0 .. 0 |-> 0]
      <3>1. Good(0, f)
        OBVIOUS
      <3> HIDE DEF f, Good
      <3> QED BY <2>3, <2>4, <3>1
    <2>5. CASE k # 0
      <3>1. k - 1 \in Nat /\ k - 1 \notin T
        <4>1. k - 1 \in Nat /\ ~(k <= k - 1)
          BY <2>3, <2>5
        <4> HIDE DEF T
        <4> QED BY <2>2, <4>1
      <3>2. PICK f : Good(k - 1, f)
        BY <3>1
      <3> DEFINE g == [n \in 0 .. k |-> IF n < k THEN f[n] ELSE f[k - 1] + RangeSize(ranges[k])]
      <3>3. \A n \in 0 .. k - 1 : f[n] = Next0(f, n)
        BY <3>1, <3>2
      <3>4. \A n \in 0 .. k : g[n] = Next0(g, n)
        <4>1. TAKE n \in 0 .. k
        <4>2. CASE n = 0
          BY <3>1, <3>3, <4>2, <2>5
        <4>3. CASE n # 0 /\ n < k
          <5>1. n \in 0 .. k - 1 /\ n - 1 \in 0 .. k /\ n - 1 < k
            BY <2>3, <4>3
          <5>2. g[n] = f[n] /\ g[n - 1] = f[n - 1]
            BY <5>1, <4>3
          <5> QED BY <3>3, <4>3, <5>1, <5>2
        <4>4. CASE n = k
          <5>1. k - 1 \in 0 .. k /\ k - 1 < k /\ ~(k < k) /\ k \in 0 .. k
            BY <2>3, <2>5
          <5>2. g[k - 1] = f[k - 1] /\ g[k] = f[k - 1] + RangeSize(ranges[k])
            BY <5>1
          <5> QED BY <2>5, <4>4, <5>2
        <4> QED BY <2>3, <4>2, <4>3, <4>4
      <3>5. Good(k, g)
        <4>1. g = [n \in 0 .. k |-> g[n]]
          OBVIOUS
        <4> HIDE DEF g
        <4> QED BY <3>4, <4>1
      <3> HIDE DEF g, Good
      <3> QED BY <2>3, <3>5
    <2> QED BY <2>4, <2>5
  <1>2. \E f : Good(N, f)
    <2> HIDE DEF Good
    <2> QED BY <1>1
  <1>3. SizeUpTo(ranges) = CHOOSE f : Good(N, f)
    BY DEF SizeUpTo
  <1>4. Good(N, SizeUpTo(ranges))
    <2> HIDE DEF Good
    <2> QED BY <1>2, <1>3
  <1>5. \A n \in 0 .. N : SizeUpTo(ranges)[n] = Next0(SizeUpTo(ranges), n)
    <2> DEFINE h == SizeUpTo(ranges)
    <2> HIDE DEF h
    <2>1. h = [n \in 0 .. N |-> Next0(h, n)]
      BY <1>4 DEF h
    <2>2. \A n \in 0 .. N : h[n] = Next0(h, n)
      BY <2>1
    <2> QED BY <2>2 DEF h
  <1>6. SizeOfRanges(ranges) = SizeUpTo(ranges)[Len(ranges)]
    BY DEF SizeOfRanges, SizeUpTo
  <1> QED BY <1>5, <1>6

(* A list of ranges that begins with another, followed by ranges of one size
   (fingerprints), is as much larger. *)
LEMMA SizesOfMore ==
  ASSUME NEW r \in Seq(AnyRange), NEW s \in Seq(AnyRange), Len(r) <= Len(s),
         \A i \in 1 .. Len(r) : s[i] = r[i]
  PROVE  /\ SizeOfRanges(r) \in Nat /\ SizeOfRanges(s) \in Nat
         /\ Len(s) = Len(r) + 1 => SizeOfRanges(s) = SizeOfRanges(r) + RangeSize(s[Len(s)])
         /\ (\A i \in Len(r) + 1 .. Len(s) : RangeSize(s[i]) = 2)
              => SizeOfRanges(s) = SizeOfRanges(r) + 2 * (Len(s) - Len(r))
  <1> DEFINE f == SizeUpTo(r)
             g == SizeUpTo(s)
             M == Len(r)
             N == Len(s)
             Sized(n) == /\ g[n] \in Nat
                         /\ n <= M => f[n] = g[n]
                         /\ n >= M => f[M] \in Nat
                         /\ (n >= M /\ \A i \in M + 1 .. N : RangeSize(s[i]) = 2)
                              => g[n] = f[M] + 2 * (n - M)
             T == {n \in 0 .. N : ~Sized(n)}
  <1>1. M \in Nat /\ N \in Nat /\ M <= N
    OBVIOUS
  <1>2. /\ f[0] = 0 /\ g[0] = 0 /\ SizeOfRanges(r) = f[M] /\ SizeOfRanges(s) = g[N]
        /\ \A n \in 1 .. M : f[n] = f[n - 1] + RangeSize(r[n])
        /\ \A n \in 1 .. N : g[n] = g[n - 1] + RangeSize(s[n])
    BY <1>1, SizeUpToStep
  <1>3. \A n \in 1 .. N : RangeSize(s[n]) \in Nat
    <2>1. \A n \in 1 .. N : s[n] \in AnyRange
      OBVIOUS
    <2> QED BY <2>1, RangeSizeType
  <1>4. \A i \in 1 .. M : s[i] = r[i]
    OBVIOUS
  <1> HIDE DEF f, g, M, N
  <1>5. Sized(0)
    BY <1>1, <1>2
  <1>6. ASSUME NEW n \in 1 .. N, Sized(n - 1)
        PROVE  Sized(n)
    <2>1. n \in Nat /\ n - 1 \in Nat /\ g[n] = g[n - 1] + RangeSize(s[n]) /\ RangeSize(s[n]) \in Nat
      BY <1>1, <1>2, <1>3
    <2>2. g[n] \in Nat
      BY <1>6, <2>1
    <2>3. ASSUME n <= M PROVE f[n] = g[n]
      <3>1. n \in 1 .. M /\ n - 1 <= M
        BY <1>1, <2>3, <2>1
      <3> QED BY <1>2, <1>4, <1>6, <2>1, <3>1
    <2>4. ASSUME n >= M PROVE f[M] \in Nat
      <3>1. n = M \/ n - 1 >= M
        BY <1>1, <2>1, <2>4
      <3> QED BY <1>1, <1>6, <2>2, <2>3, <3>1
    <2>5. ASSUME n >= M, \A i \in M + 1 .. N : RangeSize(s[i]) = 2
          PROVE  g[n] = f[M] + 2 * (n - M)
      <3>1. CASE n = M
        <4>1. g[n] = f[M] /\ f[M] \in Nat
          BY <1>1, <2>3, <2>4, <3>1
        <4>2. n - M = 0
          BY <1>1, <3>1
        <4> QED BY <4>1, <4>2
      <3>2. CASE n > M
        <4>1. n \in M + 1 .. N /\ n - 1 >= M
          BY <1>1, <2>1, <3>2
        <4>2. g[n - 1] = f[M] + 2 * (n - 1 - M) /\ RangeSize(s[n]) = 2
          BY <1>6, <2>5, <4>1
        <4>3. f[M] \in Nat
          BY <2>4, <2>5
        <4> DEFINE k == n - 1 - M
        <4>4. k \in Nat /\ n - M = k + 1
          BY <1>1, <2>1, <4>1
        <4>5. g[n - 1] = f[M] + 2 * k
          BY <4>2
        <4> HIDE DEF k
        <4>6. g[n] = f[M] + 2 * (k + 1)
          BY <2>1, <4>2, <4>3, <4>4, <4>5
        <4> QED BY <4>4, <4>6
      <3> QED BY <1>1, <2>1, <2>5, <3>1, <3>2
    <2> QED BY <2>2, <2>3, <2>4, <2>5
  <1> HIDE DEF Sized
  <1>7. \A n \in 0 .. N : Sized(n)
    <2>1. SUFFICES ASSUME T # {} PROVE FALSE
      OBVIOUS
    <2>2. T \subseteq Nat
      BY <1>1
    <2>3. PICK n \in T : \A m \in T : n <= m
      <3> HIDE DEF T
      <3> QED BY <2>1, <2>2, LeastNatural
    <2>4. n \in 0 .. N /\ ~Sized(n) /\ n # 0
      BY <1>5, <2>3
    <2>5. n \in 1 .. N /\ n - 1 \in 0 .. N /\ ~(n <= n - 1)
      BY <1>1, <2>4
    <2>6. Sized(n - 1)
      BY <2>3, <2>5
    <2> QED BY <1>6, <2>4, <2>5, <2>6
  <1>8. Sized(M) /\ Sized(N)
    BY <1>1, <1>7
  <1>9. f[M] \in Nat /\ g[N] \in Nat /\ f[M] = g[M]
    BY <1>1, <1>8 DEF Sized
  <1>10. ASSUME N = M + 1 PROVE g[N] = f[M] + RangeSize(s[N])
    <2>1. N \in 1 .. N /\ N - 1 = M
      BY <1>1, <1>10
    <2> QED BY <1>2, <1>9, <2>1
  <1>11. ASSUME \A i \in M + 1 .. N : RangeSize(s[i]) = 2
         PROVE  g[N] = f[M] + 2 * (N - M)
    BY <1>1, <1>8, <1>11 DEF Sized
  <1> QED BY <1>2, <1>9, <1>10, <1>11 DEF M, N

(* The size of a buffer with room for one more range. *)
FilledSize(buffer) ==
  MessagesSize(buffer) + RemainingRangeMargin + SizeOfRanges(buffer.ranges)

LEMMA FilledSizeType ==
  ASSUME NEW buffer \in AnyBuffer
  PROVE  /\ MessagesSize(buffer) \in Nat /\ RangesSize(buffer) \in Nat /\ FilledSize(buffer) \in Nat
         /\ FilledSize(buffer) <= MessagesSize(buffer) + RangesSize(buffer) + 2
         /\ FilledSize(buffer) <= TotalMax => WithinSizeLimits(buffer)
  <1>1. MessagesSize(buffer) \in Nat
    <2>1. Cardinality(buffer.messages) \in Nat
      BY StoresAreFinite, FS_CardinalityType DEF AnyBuffer
    <2>2. MessageSize \in Nat
      BY SizesAssumption
    <2>3. \A a \in Nat, b \in Nat : a * b \in Nat
      OBVIOUS
    <2> QED BY <2>1, <2>2, <2>3 DEF MessagesSize
  <1>2. SizeOfRanges(buffer.ranges) \in Nat
    <2>1. buffer.ranges \in Seq(AnyRange)
      BY DEF AnyBuffer
    <2> QED BY <2>1, SizesOfMore
  <1>3. SizeOfRanges(<<>>) = 0
    <2>1. Len(<<>>) = 0
      OBVIOUS
    <2> QED BY <2>1, SizeUpToStep
  <1> QED BY <1>1, <1>2, <1>3, SizesAssumption
          DEF FilledSize, RangesSize, RemainingRangeMargin, WithinSizeLimits

LEMMA AddedSize ==
  ASSUME NEW buffer \in AnyBuffer, NEW range \in AnyRange,
         NEW new, new = AddRange(buffer, range)
  PROVE  /\ new \in AnyBuffer
         /\ FilledSize(new) = FilledSize(buffer) + RangeSize(range)
         /\ RangeSize(range) \in Nat
  <1> DEFINE r == buffer.ranges
             s == Append(r, range)
  <1>1. r \in Seq(AnyRange) /\ Len(r) \in Nat
    BY DEF AnyBuffer
  <1>2. new = [messages |-> buffer.messages, ranges |-> s]
    BY DEF AnyBuffer, AddRange
  <1>3. /\ s \in Seq(AnyRange) /\ Len(s) = Len(r) + 1 /\ s[Len(s)] = range
        /\ \A i \in 1 .. Len(r) : s[i] = r[i]
    BY <1>1
  <1> HIDE DEF r, s
  <1>4. SizeOfRanges(s) = SizeOfRanges(r) + RangeSize(range) /\ SizeOfRanges(r) \in Nat
    <2>1. Len(r) <= Len(s)
      BY <1>1, <1>3
    <2> QED BY <1>1, <1>3, <2>1, SizesOfMore
  <1>5. new \in AnyBuffer /\ new.ranges = s /\ MessagesSize(new) = MessagesSize(buffer)
    BY <1>2, <1>3 DEF AnyBuffer, MessagesSize
  <1>6. MessagesSize(buffer) \in Nat
    BY FilledSizeType
  <1>7. RangeSize(range) \in Nat
    BY RangeSizeType
  <1> QED BY <1>4, <1>5, <1>6, <1>7 DEF FilledSize, RemainingRangeMargin, r

(* One message more. *)
LEMMA OneMessageMore ==
  ASSUME NEW old \in AnyBuffer, NEW new \in AnyBuffer, NEW t \in Timestamps,
         new.messages \subseteq old.messages \union {t}
  PROVE  MessagesSize(new) <= MessagesSize(old) + MessageSize
  <1> DEFINE a == Cardinality(old.messages)
             b == Cardinality(new.messages)
  <1>1. IsFiniteSet(old.messages) /\ IsFiniteSet(old.messages \union {t}) /\ IsFiniteSet(new.messages)
    BY StoresAreFinite DEF AnyBuffer
  <1>2. a \in Nat /\ b \in Nat /\ b <= a + 1
    <2>1. Cardinality(old.messages \union {t}) = IF t \in old.messages THEN a ELSE a + 1
      BY <1>1, FS_AddElement
    <2>2. b <= Cardinality(old.messages \union {t})
      BY <1>1, FS_Subset
    <2>3. a \in Nat /\ b \in Nat
      BY <1>1, FS_CardinalityType
    <2> HIDE DEF a, b
    <2> QED BY <2>1, <2>2, <2>3
  <1>3. MessageSize \in Nat
    BY SizesAssumption
  <1>4. MessageSize * b <= MessageSize * a + MessageSize
    <2> HIDE DEF a, b
    <2>1. PICK d \in Nat : a + 1 = b + d
      <3>1. (a + 1) - b \in Nat /\ a + 1 = b + ((a + 1) - b)
        BY <1>2
      <3> QED BY <3>1
    <2>2. MessageSize * (a + 1) = MessageSize * a + MessageSize
      BY <1>2, <1>3
    <2>3. MessageSize * (b + d) = MessageSize * b + MessageSize * d
      BY <1>2, <1>3
    <2>4. MessageSize * d \in Nat /\ MessageSize * a \in Nat /\ MessageSize * b \in Nat
      BY <1>2, <1>3
    <2>5. MessageSize * (a + 1) = MessageSize * (b + d)
      BY <2>1
    <2> QED BY <1>3, <2>2, <2>3, <2>4, <2>5
  <1> QED BY <1>4 DEF MessagesSize

(* The messages of the timestamps that fit leave room for the ranges that
   follow them: canAddTimestampsRangeAndMessage has looked at the last. *)
LEMMA FittingFits ==
  ASSUME NEW ours \in SUBSET Timestamps, NEW theirs, NEW buffer \in AnyBuffer,
         FilledSize(buffer) + 2 <= TotalMax,
         NEW fitting, fitting = Fitting(ours, theirs, buffer),
         NEW new, new = [buffer EXCEPT !.messages = @ \union (fitting \ theirs)]
  PROVE  new \in AnyBuffer /\ FilledSize(new) + 2 <= TotalMax
  <1>1. fitting \subseteq ours /\ \A t \in ours : t \in Nat /\ t < Infinite
    BY TimestampsAreFinite DEF Fitting
  <1>2. /\ new = [messages |-> buffer.messages \union (fitting \ theirs), ranges |-> buffer.ranges]
        /\ new \in AnyBuffer
    BY <1>1 DEF AnyBuffer
  <1>3. CASE fitting \ theirs = {}
    <2>1. new = buffer
      BY <1>2, <1>3 DEF AnyBuffer
    <2> QED BY <2>1
  <1>4. CASE fitting \ theirs # {}
    <2>1. PICK t \in fitting \ theirs : \A u \in fitting \ theirs : u <= t
      <3> DEFINE T == {Infinite - u : u \in fitting \ theirs}
      <3>1. T \subseteq Nat /\ T # {}
        BY <1>1, <1>4, InfiniteAssumption
      <3>2. PICK m \in T : \A n \in T : m <= n
        <4> HIDE DEF T
        <4> QED BY <3>1, LeastNatural
      <3>3. PICK t \in fitting \ theirs : m = Infinite - t
        BY <3>2
      <3>4. \A u \in fitting \ theirs : Infinite - t <= Infinite - u
        BY <3>2, <3>3
      <3>5. \A u \in fitting \ theirs : u <= t
        BY <1>1, <3>3, <3>4, InfiniteAssumption
      <3> QED BY <3>3, <3>5
    <2> DEFINE before == {u \in ours : u < t}
               earlier == [buffer EXCEPT !.messages = @ \union (before \ theirs)]
    <2>2. t \in ours /\ t \in Nat /\ t \in Timestamps /\ t \notin theirs
      BY <1>1, <2>1
    <2>3. CanAddTimestampsRangeAndMessage(earlier, Cardinality(before), t \notin theirs)
      <3>1. t <= t
        BY <2>2
      <3> QED BY <2>1, <2>2, <3>1 DEF Fitting
    <2>4. /\ earlier = [messages |-> buffer.messages \union (before \ theirs), ranges |-> buffer.ranges]
          /\ earlier \in AnyBuffer
      <3>1. before \subseteq Timestamps
        OBVIOUS
      <3> HIDE DEF before
      <3> DEFINE v == buffer.messages \union (before \ theirs)
      <3>2. v \in SUBSET Timestamps /\ buffer.ranges \in Seq(AnyRange)
        BY <3>1 DEF AnyBuffer
      <3> HIDE DEF v
      <3>3. [buffer EXCEPT !.messages = v] = [messages |-> v, ranges |-> buffer.ranges]
        BY BufferRecord DEF AnyBuffer
      <3>4. [buffer EXCEPT !.messages = v] \in AnyBuffer
        BY <3>2, <3>3 DEF AnyBuffer
      <3> QED BY <3>3, <3>4 DEF v
    <2>5. Cardinality(before) \in Nat
      BY StoresAreFinite, FS_CardinalityType
    <2>6. new.messages \subseteq earlier.messages \union {t}
      <3>1. \A u \in fitting \ theirs : u = t \/ u \in before \ theirs
        <4>1. TAKE u \in fitting \ theirs
        <4>2. u \in ours /\ u \in Nat /\ u <= t
          BY <1>1, <2>1
        <4> QED BY <2>2, <4>2
      <3> HIDE DEF before
      <3> QED BY <1>2, <2>4, <3>1
    <2>7. MessagesSize(earlier) + RangesSize(earlier) + Cardinality(before) + TimestampsRangeMargin
            + MessageMargin + MessageSize <= TotalMax
      <3>1. /\ MessagesSize(earlier) \in Nat /\ RangesSize(earlier) \in Nat
            /\ MessageSize \in Nat /\ TotalMax \in Nat
        BY <2>4, FilledSizeType, SizesAssumption
      <3>2. MessagesSize(earlier) + (RangesSize(earlier) + Cardinality(before) + TimestampsRangeMargin)
              + MessageMargin + MessageSize <= TotalMax
        BY <2>2, <2>3 DEF CanAddTimestampsRangeAndMessage
      <3> HIDE DEF earlier, before
      <3> QED BY <2>5, <3>1, <3>2 DEF TimestampsRangeMargin, MessageMargin
    <2>8. RangesSize(new) = RangesSize(earlier)
      BY <1>2, <2>4 DEF RangesSize
    <2>9. MessagesSize(new) <= MessagesSize(earlier) + MessageSize
      <3> HIDE DEF earlier
      <3> QED BY <1>2, <2>2, <2>4, <2>6, OneMessageMore
    <2>10. /\ MessagesSize(earlier) \in Nat /\ RangesSize(earlier) \in Nat
           /\ MessagesSize(new) \in Nat /\ FilledSize(new) \in Nat
           /\ FilledSize(new) <= MessagesSize(new) + RangesSize(new) + 2
      BY <1>2, <2>4, FilledSizeType
    <2> HIDE DEF earlier, before
    <2> QED BY <1>2, <2>5, <2>7, <2>8, <2>9, <2>10, SizesAssumption
            DEF TimestampsRangeMargin, MessageMargin
  <1> QED BY <1>3, <1>4

-----------------------------------------------------------------------------
(* What is added on the way fits. *)

(* After the answer to a range: the buffer is not too large and, unless sync is
   done or this was the last range, has room for one more. *)
RoomAfter(upperBound, new) ==
  /\ FilledSize(new.output) <= TotalMax
  /\ ~new.done /\ upperBound # Infinite => FilledSize(new.output) + 2 <= TotalMax

LEMMA SkipRangeFits ==
  ASSUME NEW state \in AnyState, FilledSize(state.output) + 2 <= TotalMax,
         NEW range \in AnyRange, NEW new, new = SkipRange(state, range)
  PROVE  RoomAfter(range.upperBound, new)
  <1>1. state.output \in AnyBuffer /\ FilledSize(state.output) \in Nat /\ TotalMax \in Nat
    BY FilledSizeType, SizesAssumption DEF AnyState
  <1>2. CASE state.added /\ range.upperBound = Infinite
    <2> DEFINE skipped == NewRange(Skip, Infinite, {})
               buffer == AddRange(state.output, skipped)
    <2>1. skipped \in AnyRange /\ skipped.type = Skip
      BY InfiniteAssumption DEF AnyRange, NewRange
    <2>2. new = [state EXCEPT !.output = buffer]
      BY <1>2 DEF SkipRange
    <2> HIDE DEF skipped
    <2>3. FilledSize(buffer) = FilledSize(state.output) + RangeSize(skipped) /\ RangeSize(skipped) = 1
      BY <1>1, <2>1, AddedSize, RangeSizeType
    <2> HIDE DEF buffer
    <2>4. new.output = buffer
      BY <2>2 DEF AnyState
    <2> QED BY <1>1, <1>2, <2>3, <2>4 DEF RoomAfter
  <1>3. CASE ~(state.added /\ range.upperBound = Infinite)
    <2>1. new = [state EXCEPT !.skip = TRUE]
      BY <1>3 DEF SkipRange
    <2>2. new.output = state.output
      BY <2>1 DEF AnyState
    <2> QED BY <1>1, <2>2 DEF RoomAfter
  <1> QED BY <1>2, <1>3

LEMMA CoalesceSkipsFits ==
  ASSUME NEW state \in AnyState, NEW new, new = CoalesceSkips(state)
  PROVE  /\ new \in AnyState
         /\ FilledSize(new.output) \in Nat
         /\ FilledSize(new.output) <= FilledSize(state.output) + 1
  <1>1. state.output \in AnyBuffer /\ FilledSize(state.output) \in Nat
    BY FilledSizeType DEF AnyState
  <1> DEFINE skipped == NewRange(Skip, state.bound, {})
             buffer == AddRange(state.output, skipped)
  <1>2. skipped \in AnyRange /\ skipped.type = Skip
    BY DEF AnyRange, NewRange, AnyState
  <1>3. new = [state EXCEPT !.added = TRUE, !.skip = FALSE,
                 !.output = IF state.skip THEN buffer ELSE state.output]
    BY DEF CoalesceSkips
  <1> HIDE DEF skipped
  <1>4. buffer \in AnyBuffer /\ FilledSize(buffer) = FilledSize(state.output) + 1
    BY <1>1, <1>2, AddedSize, RangeSizeType
  <1> HIDE DEF buffer
  <1>5. new \in AnyState /\ new.output \in {buffer, state.output}
    BY <1>1, <1>3, <1>4 DEF AnyState
  <1> QED BY <1>1, <1>4, <1>5

(* A split adds a list of too few timestamps to split, or the fingerprints. *)
LEMMA SplitRangeFits ==
  ASSUME NEW S \in SUBSET Timestamps, NEW buffer, Buffers(S, buffer),
         NEW lo \in Nat, lo < Infinite, LastBound(buffer) = lo,
         NEW upperBound \in 0 .. Infinite, lo <= upperBound,
         NEW new, new = SplitRange(S, Count(S, lo), Count(S, upperBound), upperBound, buffer)
  PROVE  FilledSize(new) + 1 <= FilledSize(buffer) + SplitMargin
  <1> DEFINE low == Count(S, lo)
             up == Count(S, upperBound)
             r == buffer.ranges
  <1>1. /\ Buckets \in Nat /\ MinPerBucket \in Nat /\ Infinite \in Nat /\ upperBound \in Nat
        /\ Buckets * MinPerBucket \in Nat /\ MinPerBucket * Buckets = Buckets * MinPerBucket
    BY BucketsAssumption, InfiniteAssumption
  <1>2. low \in Nat /\ up \in Nat /\ up <= Size(S) /\ Size(S) \in Nat /\ low <= up
    BY <1>1, CountType, CountBetween DEF Size
  <1>3. Splits(S, buffer, lo, upperBound, new)
    BY SplitRangeAnswers
  <1>4. /\ buffer \in AnyBuffer /\ new \in AnyBuffer /\ new.messages = buffer.messages
        /\ r \in Seq(AnyRange) /\ new.ranges \in Seq(AnyRange)
        /\ Len(r) \in Nat /\ Len(new.ranges) \in Nat /\ Len(r) <= Len(new.ranges)
        /\ \A i \in 1 .. Len(r) : new.ranges[i] = r[i]
    BY <1>3, BuffersType DEF Splits, Grows
  <1>5. FilledSize(buffer) \in Nat /\ FilledSize(new) \in Nat /\ MessagesSize(new) = MessagesSize(buffer)
        /\ MessagesSize(buffer) \in Nat
    BY <1>4, FilledSizeType DEF MessagesSize
  <1>6. CASE up - low < Buckets * MinPerBucket
    <2> DEFINE content == Slice(S, 0, up - low)
               range == NewRange(TimestampsRange, upperBound, content)
    <2>1. content \subseteq S
      BY DEF Slice
    <2>2. range \in AnyRange /\ range.content = content /\ range.type = TimestampsRange
      BY <2>1 DEF NewRange, AnyRange
    <2>3. new = AddRange(buffer, range)
      BY <1>6 DEF SplitRange, SmallRange
    <2>4. Cardinality(content) = up - low
      <3>1. up - low \in Nat /\ up - low <= Size(S)
        BY <1>2
      <3> QED BY <3>1, FirstTimestamps
    <2> HIDE DEF range, content, low, up
    <2>5. FilledSize(new) = FilledSize(buffer) + 1 + Cardinality(content)
      <3>1. RangeSize(range) = 1 + Cardinality(content)
        BY <2>2, RangeSizeType
      <3>2. FilledSize(new) = FilledSize(buffer) + RangeSize(range)
        BY <1>4, <2>2, <2>3, AddedSize
      <3> QED BY <1>2, <1>5, <2>4, <3>1, <3>2
    <2>6. up - low + 1 <= Buckets * MinPerBucket
      BY <1>1, <1>2, <1>6
    <2>7. Buckets * MinPerBucket + 1 <= SplitMargin /\ SplitMargin \in Nat
      BY <1>1 DEF SplitMargin
    <2> QED BY <1>1, <1>2, <1>5, <2>4, <2>5, <2>6, <2>7
  <1>7. CASE ~(up - low < Buckets * MinPerBucket)
    <2> DEFINE s == FingerprintRanges(S, low, up, upperBound)
    <2>1. /\ s \in Seq(AnyRange) /\ Len(s) = Buckets
          /\ \A i \in 1 .. Buckets : s[i].type = FingerprintRange
      <3>1. Buckets * MinPerBucket >= Buckets
        <4>1. PICK m \in Nat : MinPerBucket = m + 1
          <5>1. MinPerBucket - 1 \in Nat /\ MinPerBucket = (MinPerBucket - 1) + 1
            BY BucketsAssumption
          <5> QED BY <5>1
        <4>2. Buckets * MinPerBucket = Buckets * m + Buckets /\ Buckets * m \in Nat
          BY <1>1, <4>1
        <4> QED BY <1>1, <4>2
      <3>2. up - low >= Buckets
        <4> HIDE DEF low, up
        <4> QED BY <1>1, <1>2, <1>7, <3>1
      <3>3. Partition(S, lo, upperBound, s)
        BY <3>2, FingerprintRangesExact
      <3> QED BY <3>3 DEF Partition
    <2>2. new = [buffer EXCEPT !.ranges = r \o s]
      BY <1>7 DEF SplitRange
    <2> HIDE DEF s
    <2>3. new.ranges = r \o s
      BY <1>4, <2>2 DEF AnyBuffer
    <2>4. /\ Len(new.ranges) = Len(r) + Buckets
          /\ \A i \in Len(r) + 1 .. Len(new.ranges) : new.ranges[i].type = FingerprintRange
      <3> HIDE DEF r
      <3>1. /\ Len(r \o s) = Len(r) + Len(s)
            /\ \A i \in Len(r) + 1 .. Len(r) + Len(s) : (r \o s)[i] = s[i - Len(r)]
        BY <1>4, <2>1
      <3>2. \A i \in Len(r) + 1 .. Len(r) + Len(s) : i - Len(r) \in 1 .. Buckets
        BY <1>1, <1>4, <2>1
      <3> QED BY <2>1, <2>3, <3>1, <3>2
    <2>5. \A i \in Len(r) + 1 .. Len(new.ranges) : RangeSize(new.ranges[i]) = 2
      <3>1. \A i \in Len(r) + 1 .. Len(new.ranges) : new.ranges[i] \in AnyRange
        BY <1>4
      <3> QED BY <2>4, <3>1, RangeSizeType
    <2>6. SizeOfRanges(new.ranges) = SizeOfRanges(r) + 2 * (Len(new.ranges) - Len(r))
          /\ SizeOfRanges(r) \in Nat
      BY <1>4, <2>5, SizesOfMore
    <2> HIDE DEF r
    <2>7. SizeOfRanges(new.ranges) = SizeOfRanges(r) + 2 * Buckets
      BY <1>1, <1>4, <2>4, <2>6
    <2>8. FilledSize(new) = FilledSize(buffer) + 2 * Buckets
      <3>1. FilledSize(new) = MessagesSize(buffer) + 2 + SizeOfRanges(new.ranges)
        BY <1>5 DEF FilledSize, RemainingRangeMargin
      <3>2. FilledSize(buffer) = MessagesSize(buffer) + 2 + SizeOfRanges(r)
        BY DEF FilledSize, RemainingRangeMargin, r
      <3>3. Buckets \in Nat
        BY <1>1
      <3> QED BY <1>5, <2>6, <2>7, <3>1, <3>2, <3>3
    <2>9. 2 * Buckets + 1 <= SplitMargin /\ SplitMargin \in Nat
      BY <1>1 DEF SplitMargin
    <2> QED BY <1>1, <1>5, <2>8, <2>9
  <1> QED BY <1>6, <1>7

(* The range that asks for what remains. *)
LEMMA RemainingRangeFits ==
  ASSUME NEW S \in SUBSET Timestamps, NEW begin, NEW buffer \in AnyBuffer,
         NEW new, new = AddRange(buffer, RemainingRange(S, begin))
  PROVE  new \in AnyBuffer /\ FilledSize(new) = FilledSize(buffer) + 2
  <1> DEFINE range == RemainingRange(S, begin)
  <1>1. Slice(S, begin, Size(S)) \subseteq S
    BY DEF Slice
  <1>2. range \in AnyRange /\ range.type = FingerprintRange
    BY <1>1, InfiniteAssumption DEF RemainingRange, NewRange, Fingerprint, AnyRange
  <1> HIDE DEF range
  <1>3. new = AddRange(buffer, range)
    BY DEF range
  <1> QED BY <1>2, <1>3, AddedSize, RangeSizeType

LEMMA AnswerFingerprintFits ==
  ASSUME NEW S \in SUBSET Timestamps, NEW state, Reaches(S, state, state.bound),
         state.bound < Infinite, ~state.done, state.index = Count(S, state.bound),
         FilledSize(state.output) + 2 <= TotalMax,
         NEW range \in AnyRange, range.type = FingerprintRange, state.bound <= range.upperBound,
         NEW upper, upper = Count(S, range.upperBound),
         range.content # Slice(S, state.index, upper) /\ CanSplitRange(state.output)
           => HasRoom(state.output, SplitMargin),
         NEW new, new = AnswerFingerprint(S, state, range, upper)
  PROVE  RoomAfter(range.upperBound, new)
  <1> DEFINE lo == state.bound
             ub == range.upperBound
             ours == Slice(S, state.index, upper)
  <1>1. /\ lo \in Nat /\ ub \in Nat /\ ub \in 0 .. Infinite /\ Infinite \in Nat /\ lo < Infinite /\ lo <= ub
        /\ state \in AnyState /\ state.output \in AnyBuffer
        /\ FilledSize(state.output) \in Nat /\ TotalMax \in Nat
    BY InfiniteAssumption, FilledSizeType, SizesAssumption DEF Reaches, AnyRange, AnyState
  <1>2. CASE range.content = ours
    <2>1. new = SkipRange(state, range)
      BY <1>2 DEF AnswerFingerprint, Fingerprint
    <2> QED BY <1>1, <2>1, SkipRangeFits
  <1>3. CASE range.content # ours /\ CanSplitRange(state.output)
    <2> DEFINE coalesced == CoalesceSkips(state)
               buffer == SplitRange(S, state.index, upper, range.upperBound, coalesced.output)
    <2>1. new = [coalesced EXCEPT !.output = buffer]
      BY <1>3 DEF AnswerFingerprint, Fingerprint
    <2>2. Coalesced(S, state, lo, coalesced)
      BY CoalesceSkipsCoalesces
    <2>3. /\ coalesced \in AnyState /\ FilledSize(coalesced.output) \in Nat
          /\ FilledSize(coalesced.output) <= FilledSize(state.output) + 1
      BY <1>1, CoalesceSkipsFits
    <2> HIDE DEF coalesced
    <2>4. Buffers(S, coalesced.output) /\ LastBound(coalesced.output) = lo
      BY <2>2 DEF Coalesced
    <2>5. buffer = SplitRange(S, Count(S, lo), Count(S, ub), ub, coalesced.output)
      OBVIOUS
    <2> HIDE DEF buffer
    <2>6. FilledSize(buffer) + 1 <= FilledSize(coalesced.output) + SplitMargin
      <3> HIDE DEF lo, ub
      <3> QED BY <1>1, <2>4, <2>5, SplitRangeFits
    <2>7. FilledSize(buffer) \in Nat
      <3>1. Splits(S, coalesced.output, lo, ub, buffer)
        <4> HIDE DEF lo, ub
        <4> QED BY <1>1, <2>4, <2>5, SplitRangeAnswers
      <3> QED BY <3>1, BuffersType, FilledSizeType DEF Splits
    <2>8. new.output = buffer
      BY <2>1, <2>3 DEF AnyState
    <2>9. /\ MessagesSize(state.output) + RangesSize(state.output) + SplitMargin + 5 <= TotalMax
          /\ FilledSize(state.output) <= MessagesSize(state.output) + RangesSize(state.output) + 2
          /\ MessagesSize(state.output) \in Nat /\ RangesSize(state.output) \in Nat
      BY <1>1, <1>3, FilledSizeType DEF HasRoom, MessageMargin
    <2>10. SplitMargin \in Nat
      <3>1. Buckets \in Nat /\ MinPerBucket \in Nat /\ MinPerBucket * Buckets \in Nat
        BY BucketsAssumption
      <3> QED BY <3>1 DEF SplitMargin
    <2>11. FilledSize(buffer) + 2 <= TotalMax
      BY <1>1, <2>3, <2>6, <2>7, <2>9, <2>10
    <2> QED BY <1>1, <2>7, <2>8, <2>11 DEF RoomAfter
  <1>4. CASE range.content # ours /\ ~CanSplitRange(state.output)
    <2> DEFINE buffer == AddRange(state.output, RemainingRange(S, upper))
    <2>1. new = [state EXCEPT !.output = buffer, !.done = TRUE]
      BY <1>4 DEF AnswerFingerprint, Fingerprint
    <2>2. FilledSize(buffer) = FilledSize(state.output) + 2
      BY <1>1, RemainingRangeFits
    <2> HIDE DEF buffer
    <2>3. new.output = buffer /\ new.done
      BY <1>1, <2>1 DEF AnyState
    <2> QED BY <1>1, <2>2, <2>3 DEF RoomAfter
  <1> QED BY <1>2, <1>3, <1>4

LEMMA AnswerTimestampsFits ==
  ASSUME NEW S \in SUBSET Timestamps, NEW state, Reaches(S, state, state.bound),
         state.bound < Infinite, ~state.done, state.index = Count(S, state.bound),
         FilledSize(state.output) + 2 <= TotalMax,
         NEW range \in AnyRange, range.type = TimestampsRange, state.bound <= range.upperBound,
         NEW upper, upper = Count(S, range.upperBound),
         NEW ours, ours = Slice(S, state.index, upper),
         NEW fitting, fitting = Fitting(ours, range.content, state.output),
         NEW output, output = [state.output EXCEPT !.messages = @ \union (fitting \ range.content)],
         fitting # ours \/ ~(range.content \subseteq ours) => HasRoom(output, Cardinality(fitting) + 2),
         NEW new, new = AnswerTimestamps(S, state, range, upper)
  PROVE  RoomAfter(range.upperBound, new)
  <1> DEFINE lo == state.bound
             ub == range.upperBound
             filled == [state EXCEPT !.output = output]
             coalesced == CoalesceSkips(filled)
  <1>1. /\ lo \in Nat /\ ub \in Nat /\ ub \in 0 .. Infinite /\ Infinite \in Nat
        /\ state \in AnyState /\ state.output \in AnyBuffer
        /\ TotalMax \in Nat
    BY InfiniteAssumption, SizesAssumption DEF Reaches, AnyRange, AnyState
  <1>2. ours = {t \in S : lo <= t /\ t < ub}
    BY <1>1, SliceIsInterval
  <1>3. ours \in SUBSET Timestamps /\ fitting \subseteq ours
    BY DEF Slice, Fitting
  <1>4. output \in AnyBuffer /\ FilledSize(output) + 2 <= TotalMax
    BY <1>1, <1>3, FittingFits
  <1>5. filled \in AnyState /\ filled.output = output
    BY <1>1, <1>4 DEF AnyState
  <1>6. new = IF fitting # ours
              THEN [[coalesced EXCEPT
                       !.output = AddRange(@, NewRange(TimestampsRange,
                                    TimestampAt(S, state.index + Cardinality(fitting)), fitting))]
                    EXCEPT !.output = AddRange(@, RemainingRange(S, state.index + Cardinality(fitting))),
                           !.done = TRUE]
              ELSE IF range.content \subseteq ours THEN SkipRange(filled, range)
              ELSE [coalesced EXCEPT
                      !.output = AddRange(@, NewRange(TimestampsRange, ub, fitting))]
    <2>1. filled = [state EXCEPT !.output.messages = @ \union (fitting \ range.content)]
      OBVIOUS
    <2> QED BY <2>1 DEF AnswerTimestamps
  <1> HIDE DEF filled
  <1>7. /\ coalesced \in AnyState /\ coalesced.output \in AnyBuffer
        /\ FilledSize(coalesced.output) \in Nat
        /\ FilledSize(coalesced.output) <= FilledSize(output) + 1
    <2>1. /\ coalesced \in AnyState /\ FilledSize(coalesced.output) \in Nat
          /\ FilledSize(coalesced.output) <= FilledSize(filled.output) + 1
      BY <1>5, CoalesceSkipsFits
    <2> HIDE DEF coalesced
    <2> QED BY <1>5, <2>1 DEF AnyState
  <1> HIDE DEF coalesced
  <1>8. Cardinality(fitting) \in Nat /\ fitting \subseteq Timestamps
    BY <1>3, StoresAreFinite, FS_CardinalityType
  <1>9. ASSUME NEW bound \in 0 .. Infinite,
               HasRoom(output, Cardinality(fitting) + 2),
               NEW buffer, buffer = AddRange(coalesced.output, NewRange(TimestampsRange, bound, fitting))
        PROVE  buffer \in AnyBuffer /\ FilledSize(buffer) \in Nat /\ FilledSize(buffer) + 2 <= TotalMax
    <2> DEFINE listed == NewRange(TimestampsRange, bound, fitting)
    <2>1. listed \in AnyRange /\ listed.type = TimestampsRange /\ listed.content = fitting
      BY <1>8 DEF NewRange, AnyRange
    <2> HIDE DEF listed
    <2>2. /\ buffer \in AnyBuffer /\ RangeSize(listed) = 1 + Cardinality(fitting)
          /\ FilledSize(buffer) = FilledSize(coalesced.output) + RangeSize(listed)
      <3>1. buffer = AddRange(coalesced.output, listed)
        BY <1>9 DEF listed
      <3> QED BY <1>7, <2>1, <3>1, AddedSize, RangeSizeType
    <2>3. /\ MessagesSize(output) + RangesSize(output) + (Cardinality(fitting) + 2) + 5 <= TotalMax
          /\ FilledSize(output) <= MessagesSize(output) + RangesSize(output) + 2
          /\ MessagesSize(output) \in Nat /\ RangesSize(output) \in Nat /\ FilledSize(output) \in Nat
      BY <1>4, <1>9, FilledSizeType DEF HasRoom, MessageMargin
    <2> QED BY <1>1, <1>7, <1>8, <2>2, <2>3
  <1>10. CASE fitting # ours
    <2> DEFINE bound == TimestampAt(S, state.index + Cardinality(fitting))
               buffer == AddRange(coalesced.output, NewRange(TimestampsRange, bound, fitting))
               final == AddRange(buffer, RemainingRange(S, state.index + Cardinality(fitting)))
    <2>1. bound \in 0 .. Infinite
      <3>1. FitsBelow(S, lo, ub, fitting)
        <4> HIDE DEF lo, ub
        <4> QED BY <1>1, <1>2, FittingIsPrefix
      <3>2. PICK u \in ours : /\ Count(S, lo) + Cardinality(fitting) = Count(S, u)
                              /\ TimestampAt(S, Count(S, u)) = u
        BY <1>2, <1>10, <3>1 DEF FitsBelow
      <3>3. u \in Nat /\ u < Infinite
        BY <1>3, TimestampsAreFinite
      <3> QED BY <3>2, <3>3, InfiniteAssumption
    <2>2. new = [[coalesced EXCEPT !.output = buffer]
                   EXCEPT !.output = AddRange(@, RemainingRange(S, state.index + Cardinality(fitting))),
                          !.done = TRUE]
      BY <1>6, <1>10
    <2> HIDE DEF bound
    <2>3. buffer \in AnyBuffer /\ FilledSize(buffer) \in Nat /\ FilledSize(buffer) + 2 <= TotalMax
      BY <1>9, <1>10, <2>1
    <2> HIDE DEF buffer
    <2>4. final \in AnyBuffer /\ FilledSize(final) = FilledSize(buffer) + 2
      BY <2>3, RemainingRangeFits
    <2>5. new.output = final /\ new.done
      BY <1>7, <2>2 DEF AnyState
    <2> HIDE DEF final
    <2> QED BY <1>1, <2>3, <2>4, <2>5 DEF RoomAfter
  <1>11. CASE fitting = ours /\ range.content \subseteq ours
    <2>1. new = SkipRange(filled, range)
      BY <1>6, <1>11
    <2> QED BY <1>4, <1>5, <2>1, SkipRangeFits
  <1>12. CASE fitting = ours /\ ~(range.content \subseteq ours)
    <2> DEFINE buffer == AddRange(coalesced.output, NewRange(TimestampsRange, ub, fitting))
    <2>1. new = [coalesced EXCEPT !.output = buffer]
      BY <1>6, <1>12
    <2>2. FilledSize(buffer) \in Nat /\ FilledSize(buffer) + 2 <= TotalMax
      BY <1>1, <1>9, <1>12
    <2> HIDE DEF buffer
    <2>3. new.output = buffer
      BY <1>7, <2>1 DEF AnyState
    <2> QED BY <1>1, <2>2, <2>3 DEF RoomAfter
  <1> QED BY <1>10, <1>11, <1>12

(* Ranges are added, in answer to this one, that the messages leave no room for. *)
Unasked(S, state, range) ==
  LET ours == Slice(S, state.index, LowerBound(S, state.index, Size(S), range.upperBound))
      fitting == Fitting(ours, range.content, state.output)
      filled == [state.output EXCEPT !.messages = @ \union (fitting \ range.content)]
  IN  /\ ~state.done
      /\ \/ /\ range.type = FingerprintRange
            /\ range.content # ours
            /\ CanSplitRange(state.output) /\ ~HasRoom(state.output, SplitMargin)
         \/ /\ range.type = TimestampsRange
            /\ fitting # ours \/ ~(range.content \subseteq ours)
            /\ ~HasRoom(filled, Cardinality(fitting) + 2)

LEMMA AnswerRangeFits ==
  ASSUME NEW S \in SUBSET Timestamps, NEW ranges, Covering(ranges),
         NEW n \in 1 .. Len(ranges), NEW state, Along(S, ranges, n - 1, state),
         RoomAfter(state.bound, state), ~Unasked(S, state, ranges[n]),
         NEW new, new = AnswerRange(S, state, ranges[n])
  PROVE  RoomAfter(new.bound, new)
  <1> DEFINE range == ranges[n]
             lo == Low(ranges, n)
             ub == range.upperBound
             upper == LowerBound(S, state.index, Size(S), ub)
             answered == CASE range.type = Skip -> SkipRange(state, range)
                           [] range.type = FingerprintRange -> AnswerFingerprint(S, state, range, upper)
                           [] range.type = TimestampsRange -> AnswerTimestamps(S, state, range, upper)
  <1>1. ranges \in Seq(AnyRange) /\ range \in AnyRange /\ n \in Nat /\ n - 1 + 1 = n
    BY DEF Covering, Ordered
  <1>2. ub \in 0 .. Infinite /\ ub \in Nat /\ Infinite \in Nat
        /\ range.type \in {Skip, FingerprintRange, TimestampsRange}
    BY <1>1, InfiniteAssumption DEF AnyRange
  <1>3. lo <= ub
    BY DEF Covering, Ordered
  <1>4. lo \in Nat /\ lo < Infinite
    <2>1. CASE n = 1
      BY <2>1, InfiniteAssumption DEF Low
    <2>2. CASE n # 1
      <3>1. n - 1 \in 1 .. Len(ranges) /\ n - 1 < Len(ranges)
        BY <1>1, <2>2
      <3>2. ranges[n - 1].upperBound # Infinite /\ ranges[n - 1] \in AnyRange
        BY <1>1, <3>1 DEF Covering, Ordered
      <3>3. ranges[n - 1].upperBound \in 0 .. Infinite
        BY <3>2 DEF AnyRange
      <3> QED BY <1>2, <2>2, <3>2, <3>3 DEF Low
    <2> QED BY <2>1, <2>2
  <1>5. /\ state \in AnyState
        /\ ~state.done => /\ state.bound = lo
                          /\ state.index = Count(S, state.bound)
                          /\ Reaches(S, state, state.bound)
    BY <1>1 DEF Along
  <1>6. new = IF state.done THEN state
              ELSE [answered EXCEPT !.index = upper, !.bound = ub]
    BY DEF AnswerRange
  <1>7. CASE state.done
    BY <1>6, <1>7 DEF RoomAfter
  <1>8. CASE ~state.done
    <2>1. /\ state.bound = lo /\ state.index = Count(S, lo) /\ Reaches(S, state, state.bound)
          /\ state.bound < Infinite /\ state.bound <= range.upperBound
      BY <1>3, <1>4, <1>5, <1>8
    <2>2. upper = Count(S, ub) /\ upper \in Nat
      <3>1. LowerBound(S, Count(S, lo), Size(S), ub) = Count(S, ub)
        <4> HIDE DEF lo, ub
        <4> QED BY <1>2, <1>3, <1>4, LowerBoundCounts
      <3>2. Count(S, ub) \in Nat
        BY CountType
      <3> HIDE DEF lo, ub
      <3> QED BY <2>1, <3>1, <3>2
    <2>3. FilledSize(state.output) + 2 <= TotalMax
      BY <1>4, <1>8, <2>1 DEF RoomAfter
    <2> DEFINE ours == Slice(S, state.index, upper)
               fitting == Fitting(ours, range.content, state.output)
               output == [state.output EXCEPT !.messages = @ \union (fitting \ range.content)]
    <2>4. /\ range.type = FingerprintRange /\ range.content # ours /\ CanSplitRange(state.output)
               => HasRoom(state.output, SplitMargin)
          /\ range.type = TimestampsRange /\ (fitting # ours \/ ~(range.content \subseteq ours))
               => HasRoom(output, Cardinality(fitting) + 2)
      BY <1>8, Zenon DEF Unasked
    <2> HIDE DEF upper
    <2>5. RoomAfter(ub, answered)
      <3>1. CASE range.type = Skip
        <4>1. answered = SkipRange(state, range)
          BY <3>1 DEF Skip, FingerprintRange, TimestampsRange
        <4> HIDE DEF answered, range
        <4> QED BY <1>1, <1>5, <2>3, <4>1, SkipRangeFits DEF ub
      <3>2. CASE range.type = FingerprintRange
        <4>1. answered = AnswerFingerprint(S, state, range, upper)
          BY <3>2 DEF Skip, FingerprintRange, TimestampsRange
        <4>2. /\ state.index = Count(S, state.bound) /\ upper = Count(S, range.upperBound)
              /\ range.content # Slice(S, state.index, upper) /\ CanSplitRange(state.output)
                   => HasRoom(state.output, SplitMargin)
          BY <2>1, <2>2, <2>4, <3>2
        <4> HIDE DEF answered, range
        <4> QED BY <1>1, <1>8, <2>1, <2>3, <3>2, <4>1, <4>2, AnswerFingerprintFits DEF ub
      <3>3. CASE range.type = TimestampsRange
        <4>1. answered = AnswerTimestamps(S, state, range, upper)
          BY <3>3 DEF Skip, FingerprintRange, TimestampsRange
        <4>2. state.index = Count(S, state.bound) /\ upper = Count(S, range.upperBound)
          BY <2>1, <2>2
        <4>3. fitting # ours \/ ~(range.content \subseteq ours) => HasRoom(output, Cardinality(fitting) + 2)
          BY <2>4, <3>3
        <4>4. /\ ours = Slice(S, state.index, upper)
              /\ fitting = Fitting(ours, range.content, state.output)
              /\ output = [state.output EXCEPT !.messages = @ \union (fitting \ range.content)]
          OBVIOUS
        <4> HIDE DEF answered, range, ours, fitting, output
        <4> QED BY <1>1, <1>8, <2>1, <2>3, <3>3, <4>1, <4>2, <4>3, <4>4, AnswerTimestampsFits DEF ub
      <3> QED BY <1>2, <3>1, <3>2, <3>3
    <2>6. new.output = answered.output /\ new.done = answered.done /\ new.bound = ub
      <3>1. new = [answered EXCEPT !.index = upper, !.bound = ub]
        BY <1>6, <1>8
      <3>2. new \in AnyState
        BY AnswerRangeAdvances DEF Advances, Along
      <3> HIDE DEF answered, ub
      <3>3. DOMAIN new = DOMAIN answered
        BY <3>1
      <3>4. {"output", "done", "bound"} \subseteq DOMAIN new
        BY <3>2 DEF AnyState
      <3> QED BY <3>1, <3>3, <3>4
    <2> QED BY <2>5, <2>6 DEF RoomAfter
  <1> QED BY <1>7, <1>8, <1>5 DEF AnyState

-----------------------------------------------------------------------------
(* The answer fits. *)

(* What sync answers with fits, unless ranges are added unasked. *)
LEMMA SyncFits ==
  ASSUME NEW S \in SUBSET Timestamps, NEW ranges, Covering(ranges), ~AddsUnasked(S, ranges)
  PROVE  WithinSizeLimits(Sync(S, ranges))
  <1> DEFINE N == Len(ranges)
             state == SyncStates(S, ranges)
             Good(n) == Along(S, ranges, n, state[n]) /\ RoomAfter(state[n].bound, state[n])
  <1>1. ranges \in Seq(AnyRange) /\ N \in Nat
    BY DEF Covering, Ordered
  <1>2. /\ state[0] = Start
        /\ \A n \in 1 .. N : state[n] = AnswerRange(S, state[n - 1], ranges[n])
    BY <1>1, SyncStatesStep
  <1>3. \A n \in 1 .. N : ~Unasked(S, state[n - 1], ranges[n])
    BY Zenon DEF AddsUnasked, Unasked
  <1> HIDE DEF state
  <1>4. Good(0)
    <2>1. /\ Start \in AnyState /\ Start.output = EmptyBuffer /\ Start.bound = 0 /\ Start.index = 0
          /\ ~Start.done /\ ~Start.added /\ ~Start.skip /\ EmptyBuffer \in AnyBuffer
      <3>1. EmptyBuffer \in AnyBuffer
        BY DEF EmptyBuffer, AnyBuffer
      <3> QED BY <3>1, InfiniteAssumption DEF Start, AnyState
    <2>2. Buffers(S, EmptyBuffer) /\ LastBound(EmptyBuffer) = 0 /\ EmptyBuffer.ranges = <<>>
          /\ EmptyBuffer.messages = {}
      BY EmptyBufferSent
    <2>3. Reaches(S, Start, 0)
      BY <2>1, <2>2, InfiniteAssumption DEF Reaches
    <2>4. Low(ranges, 0 + 1) = 0
      BY DEF Low
    <2>5. Along(S, ranges, 0, Start)
      BY <2>1, <2>2, <2>3, <2>4, CountEnds DEF Along
    <2>6. FilledSize(EmptyBuffer) <= 2 /\ FilledSize(EmptyBuffer) \in Nat
      <3>1. MessagesSize(EmptyBuffer) = 0
        BY <2>2, FS_EmptySet, SizesAssumption DEF MessagesSize
      <3>2. RangesSize(EmptyBuffer) = 0
        BY <2>2 DEF RangesSize
      <3> QED BY <2>1, <3>1, <3>2, FilledSizeType
    <2>7. RoomAfter(Start.bound, Start)
      BY <2>1, <2>6, LimitsAssumption, SizesAssumption DEF RoomAfter, MessageMargin
    <2> QED BY <1>2, <2>5, <2>7
  <1>5. ASSUME NEW n \in 1 .. N, Good(n - 1)
        PROVE  Good(n)
    BY <1>2, <1>3, <1>5, AnswerRangeAdvances, AnswerRangeFits DEF Advances
  <1> HIDE DEF Good
  <1>6. Good(N)
    <2> DEFINE T == {n \in 0 .. N : ~Good(n)}
    <2>1. SUFFICES ASSUME T # {} PROVE FALSE
      BY <1>1
    <2>2. T \subseteq Nat
      BY <1>1
    <2>3. PICK n \in T : \A m \in T : n <= m
      <3> HIDE DEF T
      <3> QED BY <2>1, <2>2, LeastNatural
    <2>4. n \in 0 .. N /\ ~Good(n) /\ n # 0
      BY <1>4, <2>3
    <2>5. n \in 1 .. N /\ n - 1 \in 0 .. N /\ ~(n <= n - 1)
      BY <1>1, <2>4
    <2>6. Good(n - 1)
      BY <2>3, <2>5
    <2> QED BY <1>5, <2>4, <2>5, <2>6
  <1>7. /\ state[N].output \in AnyBuffer
        /\ FilledSize(state[N].output) <= TotalMax
    BY <1>6 DEF Good, Along, AnyState, RoomAfter
  <1>8. Sync(S, ranges) = state[N].output
    BY DEF Sync, state
  <1> QED BY <1>7, <1>8, FilledSizeType

LEMMA OutcomeOf ==
  ASSUME NEW c \in Client, outcome \in [Client -> Outcomes], SizeLimitsNeverExceeded,
         NEW v, v # "tooBig", outcome' = [outcome EXCEPT ![c] = v]
  PROVE  SizeLimitsNeverExceeded'
  <1>1. \A d \in Client : outcome'[d] = IF d = c THEN v ELSE outcome[d]
    OBVIOUS
  <1> QED BY <1>1 DEF SizeLimitsNeverExceeded

LEMMA StepFits ==
  ASSUME Messages, SizeLimitsNeverExceeded, [Next]_vars, [~Overfills]_vars
  PROVE  SizeLimitsNeverExceeded'
  <1>0. outcome \in [Client -> Outcomes]
    BY DEF Messages
  <1>1. ASSUME outcome' = outcome PROVE SizeLimitsNeverExceeded'
    BY <1>1 DEF SizeLimitsNeverExceeded
  <1>2. CASE UNCHANGED vars
    BY <1>1, <1>2 DEF vars
  <1>3. ASSUME NEW c \in Client, Connect(c)
        PROVE  SizeLimitsNeverExceeded'
    BY <1>0, <1>3, OutcomeOf DEF Connect
  <1>4. ASSUME NEW c \in Client, StartSync(c)
        PROVE  SizeLimitsNeverExceeded'
    BY <1>0, <1>4, OutcomeOf DEF StartSync
  <1>5. ASSUME NEW c \in Client, Disconnect(c) \/ \E changes \in SUBSET Timestamps : Mutate(c, changes)
        PROVE  SizeLimitsNeverExceeded'
    BY <1>1, <1>5 DEF Disconnect, Mutate
  <1>6. ASSUME ~Overfills, NEW c \in Client, NEW i \in 1 .. Len(requests[c]), RelayHandle(c, i)
        PROVE  SizeLimitsNeverExceeded'
    <2> DEFINE request == requests[c][i]
               stored == store[Relay] \union request.messages
               output == Sync(stored, request.ranges)
    <2>1. /\ store' = [store EXCEPT ![Relay] = stored]
          /\ ~WithinSizeLimits(output) \/ outcome' = outcome
      BY <1>6, Zenon DEF RelayHandle
    <2>2. store \in [Peer -> SUBSET Timestamps] /\ store[Relay] \in SUBSET Timestamps
          /\ Relay \in Peer
      BY MessagesType DEF Messages
    <2>3. requests[c] \in Seq(AnyRequest) /\ request \in AnyRequest /\ request \in ToSet(requests[c])
      <3>1. requests[c] \in Seq(AnyRequest)
        BY DEF Messages
      <3>2. request \in {requests[c][j] : j \in 1 .. Len(requests[c])}
        OBVIOUS
      <3>3. ToSet(requests[c]) = {requests[c][j] : j \in 1 .. Len(requests[c])}
            /\ ToSet(requests[c]) \in SUBSET AnyRequest
        BY <3>1, Members
      <3> HIDE DEF ToSet, request
      <3> QED BY <3>1, <3>2, <3>3
    <2>4. Covering(request.ranges)
      <3> HIDE DEF ToSet, request
      <3> QED BY <2>3 DEF Messages, Sent
    <2>5. stored \in SUBSET Timestamps
      <3> HIDE DEF request
      <3> QED BY <2>2, <2>3 DEF AnyRequest
    <2>6. store'[Relay] = stored
      BY <2>1, <2>2
    <2>7. ~AddsUnasked(stored, request.ranges)
      <3>1. ~AddsUnasked(store'[Relay], requests[c][i].ranges)
        BY <1>6, Zenon DEF Overfills
      <3> HIDE DEF stored
      <3> QED BY <2>6, <3>1
    <2>8. WithinSizeLimits(output)
      <3> HIDE DEF stored, request
      <3> QED BY <2>4, <2>5, <2>7, SyncFits
    <2> HIDE DEF output
    <2> QED BY <1>1, <2>1, <2>8
  <1>7. ASSUME NEW c \in Client, NEW i \in 1 .. Len(requests[c]), RelayFails(c, i)
        PROVE  SizeLimitsNeverExceeded'
    BY <1>0, <1>7, OutcomeOf DEF RelayFails
  <1>8. ASSUME ~Overfills, NEW c \in Client, ClientHandle(c) \/ ClientDrops(c)
        PROVE  SizeLimitsNeverExceeded'
    <2> DEFINE answer == Head(answers[c])
    <2>1. PICK stored : /\ stored = store[c] \/ stored = store[c] \union answer.messages
                        /\ Reply(c, stored) /\ answers[c] # <<>>
      BY <1>8, Zenon DEF ClientHandle, ClientDrops
    <2> DEFINE output == Sync(stored, answer.ranges)
    <2>2. /\ store' = [store EXCEPT ![c] = stored]
          /\ outcome' = [outcome EXCEPT ![c] =
                           IF ~WithinSizeLimits(output) THEN "tooBig"
                           ELSE IF ~(answer.messages \subseteq stored) THEN "failed" ELSE @]
      BY <2>1, Zenon DEF Reply
    <2>3. store \in [Peer -> SUBSET Timestamps] /\ store[c] \in SUBSET Timestamps /\ c \in Peer
      BY MessagesType DEF Messages
    <2>4. answer \in AnyAnswer /\ answer \in ToSet(answers[c])
      <3>1. answers[c] \in Seq(AnyAnswer)
        BY DEF Messages
      <3> HIDE DEF ToSet
      <3> QED BY <2>1, <3>1, TailMembers
    <2> HIDE DEF answer
    <2>5. Covering(answer.ranges)
      <3> HIDE DEF ToSet
      <3> QED BY <2>4 DEF Messages, Sent
    <2>6. stored \in SUBSET Timestamps
      BY <2>1, <2>3, <2>4 DEF AnyAnswer
    <2>7. store'[c] = stored
      BY <2>2, <2>3
    <2>8. ~AddsUnasked(stored, answer.ranges)
      <3>1. ~AddsUnasked(store'[c], Head(answers[c]).ranges)
        BY <1>8, Zenon DEF Overfills
      <3> QED BY <2>7, <3>1 DEF answer
    <2>9. WithinSizeLimits(output)
      BY <2>5, <2>6, <2>8, SyncFits
    <2> HIDE DEF output
    <2>10. outcome[c] # "tooBig"
      BY DEF SizeLimitsNeverExceeded
    <2> DEFINE v == IF ~(answer.messages \subseteq stored) THEN "failed" ELSE outcome[c]
    <2>11. outcome' = [outcome EXCEPT ![c] = v] /\ v # "tooBig"
      BY <2>2, <2>9, <2>10
    <2> HIDE DEF v
    <2> QED BY <1>0, <2>11, OutcomeOf
  <1>9. ASSUME NEW c \in Client, ClientStops(c)
        PROVE  SizeLimitsNeverExceeded'
    BY <1>0, <1>9, OutcomeOf DEF ClientStops
  <1>10. CASE Next /\ ~Overfills
    <2>1. PICK c \in Client :
            \/ Connect(c)
            \/ Disconnect(c)
            \/ \E changes \in SUBSET Timestamps : Mutate(c, changes)
            \/ \E i \in 1 .. Len(requests[c]) : RelayHandle(c, i) \/ RelayFails(c, i)
            \/ StartSync(c)
            \/ ClientHandle(c)
            \/ ClientDrops(c)
            \/ ClientStops(c)
      BY <1>10, Zenon DEF Next
    <2> QED BY <1>3, <1>4, <1>5, <1>6, <1>7, <1>8, <1>9, <1>10, <2>1, Zenon
  <1> QED BY <1>2, <1>10

(* Unless ranges are added unasked behind messages that leave no room for them, no
   handler runs into the size assertion of the buffer: what canAddMessage,
   canAddTimestampsRangeAndMessage, canSplitRange and the margins of the skips and of
   the remaining range let in always fits. (sync and the buffer, Protocol.ts.) *)
THEOREM SizeLimitsKept ==
  Spec /\ [][~Overfills]_vars => []SizeLimitsNeverExceeded
  <1> DEFINE Inv == Messages /\ SizeLimitsNeverExceeded
  <1>1. Init => Inv
    <2>1. Init => SizeLimitsNeverExceeded
      BY DEF Init, Disconnected, SizeLimitsNeverExceeded
    <2> QED BY <2>1, InitMessages
  <1>2. Inv /\ [Next]_vars /\ [~Overfills]_vars => Inv'
    BY StepKeeps, PassesKeeps, StepFits
  <1>3. Inv => SizeLimitsNeverExceeded
    OBVIOUS
  <1> QED BY <1>1, <1>2, <1>3, PTL DEF Spec

(* The requests a client makes on its own fit as well: the messages of a mutation that
   canAddMessage lets in, with the fingerprint that asks for the rest, and a first split,
   when a message has room for the largest.  StartSync and Mutate assert nothing for that
   reason. (createProtocolMessageFromCrdtMessages and createProtocolMessageForSync,
   Protocol.ts.) *)
THEOREM ClientRequestsFit ==
  ASSUME NEW S \in SUBSET Timestamps, NEW changes \in SUBSET Timestamps
  PROVE  /\ WithinSizeLimits(CrdtRequest(changes))
         /\ SplitMargin < TotalMax => WithinSizeLimits(SyncRequest(S))
  <1>1. EmptyBuffer \in AnyBuffer /\ EmptyBuffer.messages = {} /\ EmptyBuffer.ranges = <<>>
        /\ FilledSize(EmptyBuffer) \in Nat /\ FilledSize(EmptyBuffer) <= 2
    <2>1. EmptyBuffer \in AnyBuffer /\ EmptyBuffer.messages = {} /\ EmptyBuffer.ranges = <<>>
      BY EmptyBufferSent, BuffersType
    <2>2. MessagesSize(EmptyBuffer) = 0
      BY <2>1, FS_EmptySet, SizesAssumption DEF MessagesSize
    <2>3. RangesSize(EmptyBuffer) = 0
      BY <2>1 DEF RangesSize
    <2> QED BY <2>1, <2>2, <2>3, FilledSizeType
  <1>2. TotalMax \in Nat /\ RangesMax \in Nat /\ 5 <= TotalMax /\ MessageSize \in Nat
    BY SizesAssumption, LimitsAssumption DEF MessageMargin
  <1>3. ASSUME SplitMargin < TotalMax
        PROVE  WithinSizeLimits(SyncRequest(S))
    <2> DEFINE buffer == SyncRequest(S)
    <2>1. buffer = SplitRange(S, Count(S, 0), Count(S, Infinite), Infinite, EmptyBuffer)
      BY CountEnds DEF SyncRequest, Size
    <2>2. /\ 0 < Infinite /\ 0 <= Infinite /\ Infinite \in 0 .. Infinite /\ 0 \in Nat
          /\ Buffers(S, EmptyBuffer) /\ LastBound(EmptyBuffer) = 0
      BY InfiniteAssumption, EmptyBufferSent
    <2>3. buffer \in AnyBuffer
      BY SyncRequestWatches, BuffersType
    <2> HIDE DEF buffer
    <2>4. FilledSize(buffer) + 1 <= FilledSize(EmptyBuffer) + SplitMargin
      BY <2>1, <2>2, SplitRangeFits
    <2>5. SplitMargin \in Nat
      <3>1. Buckets \in Nat /\ MinPerBucket \in Nat /\ MinPerBucket * Buckets \in Nat
        BY BucketsAssumption
      <3> QED BY <3>1 DEF SplitMargin
    <2>6. FilledSize(buffer) \in Nat /\ FilledSize(buffer) <= TotalMax
      BY <1>1, <1>2, <1>3, <2>3, <2>4, <2>5, FilledSizeType
    <2> QED BY <2>3, <2>6, FilledSizeType DEF buffer
  <1>4. WithinSizeLimits(CrdtRequest(changes))
    <2> DEFINE Earlier(u) == [EmptyBuffer EXCEPT !.messages = {v \in changes : v < u}]
               fitting == {t \in changes : \A u \in changes : u <= t => CanAddMessage(Earlier(u))}
               buffer == [EmptyBuffer EXCEPT !.messages = fitting]
               rest == NewRange(FingerprintRange, Infinite, RandomFingerprint)
    <2>1. \A t \in changes : t \in Nat /\ t < Infinite /\ t \in Timestamps
      BY TimestampsAreFinite
    <2>2. \A M \in SUBSET Timestamps :
            /\ [EmptyBuffer EXCEPT !.messages = M] = [messages |-> M, ranges |-> <<>>]
            /\ [EmptyBuffer EXCEPT !.messages = M] \in AnyBuffer
      <3>1. TAKE M \in SUBSET Timestamps
      <3>2. [EmptyBuffer EXCEPT !.messages = M] = [messages |-> M, ranges |-> <<>>]
        BY DEF EmptyBuffer
      <3>3. <<>> \in Seq(AnyRange)
        OBVIOUS
      <3> QED BY <3>2, <3>3 DEF AnyBuffer
    <2>3. fitting \in SUBSET Timestamps
      <3>1. fitting \subseteq changes
        OBVIOUS
      <3> QED BY <3>1
    <2>4. buffer = [messages |-> fitting, ranges |-> <<>>] /\ buffer \in AnyBuffer
      <3> HIDE DEF fitting
      <3> QED BY <2>2, <2>3
    <2>5. FilledSize(buffer) \in Nat /\ FilledSize(buffer) + 2 <= TotalMax
      <3>1. CASE fitting = {}
        <4>1. buffer = EmptyBuffer
          <5> HIDE DEF fitting
          <5> QED BY <2>4, <3>1 DEF EmptyBuffer
        <4> HIDE DEF buffer
        <4> QED BY <1>1, <1>2, <4>1
      <3>2. CASE fitting # {}
        <4>1. PICK t \in fitting : \A u \in fitting : u <= t
          <5> DEFINE T == {Infinite - u : u \in fitting}
          <5>1. \A t \in fitting : t \in Nat /\ t < Infinite
            BY <2>1
          <5> HIDE DEF fitting
          <5>2. T \subseteq Nat /\ T # {}
            BY <3>2, <5>1, InfiniteAssumption
          <5>3. PICK m \in T : \A n \in T : m <= n
            <6> HIDE DEF T
            <6> QED BY <5>2, LeastNatural
          <5>4. PICK t \in fitting : m = Infinite - t
            BY <5>3
          <5>5. \A u \in fitting : Infinite - t <= Infinite - u
            BY <5>3, <5>4
          <5>6. \A u \in fitting : u <= t
            BY <5>1, <5>4, <5>5, InfiniteAssumption
          <5> QED BY <5>4, <5>6
        <4>2. t \in changes /\ t \in Nat /\ t \in Timestamps
          BY <2>1, <4>1
        <4>3. CanAddMessage(Earlier(t))
          <5>1. t <= t
            BY <4>2
          <5> QED BY <4>1, <4>2, <5>1
        <4> DEFINE before == {v \in changes : v < t}
                   earlier == [EmptyBuffer EXCEPT !.messages = before]
        <4>4. earlier = [messages |-> before, ranges |-> <<>>] /\ earlier \in AnyBuffer
          <5>1. before \in SUBSET Timestamps
            OBVIOUS
          <5> HIDE DEF before
          <5> QED BY <2>2, <5>1
        <4>5. MessagesSize(earlier) + RangesSize(earlier) + MessageMargin + MessageSize <= TotalMax
          BY <4>3 DEF CanAddMessage
        <4>6. buffer.messages \subseteq earlier.messages \union {t}
          <5>1. \A u \in fitting : u = t \/ u \in before
            <6>1. TAKE u \in fitting
            <6>2. u \in changes /\ u \in Nat /\ u <= t
              BY <2>1, <4>1
            <6> QED BY <4>2, <6>2
          <5> HIDE DEF before, fitting
          <5> QED BY <2>4, <4>4, <5>1
        <4> HIDE DEF earlier
        <4>7. RangesSize(buffer) = 0 /\ RangesSize(earlier) = 0
          BY <2>4, <4>4 DEF RangesSize
        <4> HIDE DEF buffer
        <4>8. MessagesSize(buffer) <= MessagesSize(earlier) + MessageSize
          BY <2>4, <4>2, <4>4, <4>6, OneMessageMore
        <4>9. /\ MessagesSize(earlier) \in Nat /\ MessagesSize(buffer) \in Nat /\ FilledSize(buffer) \in Nat
              /\ FilledSize(buffer) <= MessagesSize(buffer) + RangesSize(buffer) + 2
          BY <2>4, <4>4, FilledSizeType
        <4> QED BY <1>2, <4>5, <4>7, <4>8, <4>9 DEF MessageMargin
      <3> QED BY <3>1, <3>2
    <2>6. CrdtRequest(changes) \in {buffer, AddRange(buffer, rest)}
      BY DEF CrdtRequest
    <2>7. rest \in AnyRange /\ rest.type = FingerprintRange
      BY InfiniteAssumption DEF NewRange, AnyRange, RandomFingerprint
    <2> HIDE DEF buffer, rest
    <2>8. AddRange(buffer, rest) \in AnyBuffer /\ FilledSize(AddRange(buffer, rest)) = FilledSize(buffer) + 2
      BY <2>4, <2>7, AddedSize, RangeSizeType
    <2>9. WithinSizeLimits(buffer) /\ WithinSizeLimits(AddRange(buffer, rest))
      BY <1>2, <2>4, <2>5, <2>8, FilledSizeType
    <2> QED BY <2>6, <2>9
  <1> QED BY <1>3, <1>4

-----------------------------------------------------------------------------
(* Sync implements Replication. *)

(* A step that adds to one what its counterpart has is a copy. *)
LEMMA AddingCopies ==
  ASSUME NEW from, NEW to, NEW added, added \subseteq store[from],
         store' = [store EXCEPT ![to] = @ \union added]
  PROVE  Replicas!Copy(from, to)
  BY DEF Replicas!Copy

LEMMA StepReplicates ==
  ASSUME Messages, [Next]_vars
  PROVE  [Replicas!Next]_store
  <1>0. /\ store \in [Peer -> SUBSET Timestamps] /\ Relay \in Peer /\ Client \subseteq Peer
        /\ Relay \notin Client
    BY PeersAssumption DEF Messages, Peer
  <1>1. CASE UNCHANGED vars
    BY <1>1 DEF vars
  <1>2. ASSUME NEW c \in Client, Connect(c) \/ Disconnect(c) \/ StartSync(c)
        PROVE  UNCHANGED store
    BY <1>2 DEF Connect, Disconnect, StartSync
  <1>3. ASSUME NEW c \in Client, NEW changes \in SUBSET Timestamps, Mutate(c, changes)
        PROVE  Replicas!Next
    <2>1. /\ \A t \in changes, p \in Peer : t \notin store[p]
          /\ \A t \in changes, u \in store[c] : u < t
          /\ store' = [store EXCEPT ![c] = @ \union changes]
      BY <1>3 DEF Mutate
    <2>2. DOMAIN store = Peer
      BY <1>0
    <2>3. Replicas!Write(c, changes)
      BY <2>1, <2>2 DEF Replicas!Write
    <2> QED BY <2>3 DEF Replicas!Next
  <1>4. ASSUME NEW c \in Client, NEW i \in 1 .. Len(requests[c]), RelayHandle(c, i) \/ RelayFails(c, i)
        PROVE  Replicas!Next \/ UNCHANGED store
    <2> DEFINE request == requests[c][i]
    <2>1. \/ store' = [store EXCEPT ![Relay] = @ \union request.messages]
          \/ UNCHANGED store
      BY <1>4, Zenon DEF RelayHandle, RelayFails
    <2>2. request.messages \subseteq store[c]
      <3>1. requests[c] \in Seq(AnyRequest)
        BY DEF Messages
      <3>2. request \in {requests[c][j] : j \in 1 .. Len(requests[c])}
        OBVIOUS
      <3>3. ToSet(requests[c]) = {requests[c][j] : j \in 1 .. Len(requests[c])}
        BY <3>1, Members
      <3> HIDE DEF ToSet, request
      <3> QED BY <3>2, <3>3 DEF Messages, Sent
    <2> HIDE DEF request
    <2>3. CASE store' = [store EXCEPT ![Relay] = @ \union request.messages]
      <3>1. Replicas!Copy(c, Relay)
        BY <2>2, <2>3, AddingCopies
      <3> QED BY <3>1 DEF Replicas!Next
    <2> QED BY <2>1, <2>3
  <1>5. ASSUME NEW c \in Client, ClientHandle(c) \/ ClientDrops(c) \/ ClientStops(c)
        PROVE  Replicas!Next \/ UNCHANGED store
    <2> DEFINE answer == Head(answers[c])
    <2>1. \/ store' = [store EXCEPT ![c] = @ \union answer.messages]
          \/ store' = [store EXCEPT ![c] = store[c]]
          \/ UNCHANGED store
      BY <1>5, Zenon DEF ClientHandle, ClientDrops, ClientStops, Reply
    <2>2. answer.messages \subseteq store[Relay]
      <3>1. answers[c] # <<>> /\ answers[c] \in Seq(AnyAnswer)
        BY <1>5, Zenon DEF ClientHandle, ClientDrops, ClientStops, Messages
      <3>2. answer \in ToSet(answers[c])
        BY <3>1, TailMembers
      <3> HIDE DEF ToSet, answer
      <3> QED BY <3>2 DEF Messages, Sent
    <2> HIDE DEF answer
    <2>3. CASE store' = [store EXCEPT ![c] = @ \union answer.messages]
      <3>1. Replicas!Copy(Relay, c)
        BY <2>2, <2>3, AddingCopies
      <3> QED BY <3>1 DEF Replicas!Next
    <2>4. CASE store' = [store EXCEPT ![c] = store[c]]
      BY <2>4, <1>0
    <2> QED BY <2>1, <2>3, <2>4
  <1>6. CASE Next
    <2>1. PICK c \in Client :
            \/ Connect(c)
            \/ Disconnect(c)
            \/ \E changes \in SUBSET Timestamps : Mutate(c, changes)
            \/ \E i \in 1 .. Len(requests[c]) : RelayHandle(c, i) \/ RelayFails(c, i)
            \/ StartSync(c)
            \/ ClientHandle(c)
            \/ ClientDrops(c)
            \/ ClientStops(c)
      BY <1>6, Zenon DEF Next
    <2> QED BY <1>2, <1>3, <1>4, <1>5, <2>1
  <1> QED BY <1>1, <1>6

(* Whatever fails, is lost or is handled out of turn, the peers replicate: every step
   is a client that writes, a copy between the relay and a client of what the one has,
   or leaves the stores alone. (applyProtocolMessageAsRelay and
   applyProtocolMessageAsClient, Protocol.ts.) *)
THEOREM ReplicationImplemented == Spec => ImplementsReplication
  <1>1. Init => Replicas!Init
    BY DEF Init, Replicas!Init, Peer
  <1>2. Messages /\ [Next]_vars => [Replicas!Next]_store
    BY StepReplicates
  <1> QED BY <1>1, <1>2, MessagesAlways, PTL DEF Spec, ImplementsReplication, Replicas!Spec

=============================================================================
