------------------------------ MODULE Skiplist ------------------------------
(***************************************************************************)
(* The skiplist of one owner in the table evolu_timestamp, with the bounds *)
(* kept in evolu_usage (local-first/Storage.ts).                           *)
(*                                                                         *)
(* index maps every stored timestamp to its row [l, h, c]: its level, and  *)
(* the fingerprint and count of the timestamps after the nearest earlier   *)
(* node of the same or a higher level, up to and including itself.  A row  *)
(* is never rewritten from scratch: three insertion strategies keep h and  *)
(* c up to date with XOR, +1 and differences.                              *)
(*                                                                         *)
(* The recursive queries walk the list from the highest level down and, on *)
(* each level, to the right; Visible is the set of nodes such a walk       *)
(* meets.                                                                  *)
(***************************************************************************)
EXTENDS Integers, Sequences, FiniteSets, FiniteSetsExt

CONSTANTS
  Timestamps,  \* naturals, in the order of TimestampBytes; 0 is below them all
  Infinite,    \* InfiniteUpperBound, above them all
  MaxLevel     \* skiplistMaxLevel (10 in the code)

ASSUME TimestampsAssumption == Timestamps \subseteq Nat \ {0}
ASSUME InfiniteAssumption == Infinite \in Nat \ {0} /\ \A t \in Timestamps : t < Infinite
ASSUME LevelAssumption == MaxLevel \in Nat \ {0}

VARIABLES
  index,   \* the rows of evolu_timestamp
  usage    \* the bounds in evolu_usage: <<>> or [first, last]

vars == <<index, usage>>

Levels == 1 .. MaxLevel
Row == [l : Levels, h : SUBSET Timestamps, c : Int]

Init == index = <<>> /\ usage = <<>>
-----------------------------------------------------------------------------
(* Walking the list. *)

(* Together the fingerprints of some rows stand for what an odd number of them has. *)
XorOf(rows, ts) == {u \in Timestamps : Cardinality({t \in ts : u \in rows[t].h}) % 2 = 1}

(* The counts of some rows, summed in the order of their timestamps. *)
CountOf(rows, ts) ==
  LET sum[n \in 0 .. Infinite] ==
        IF n = 0 THEN 0 ELSE sum[n - 1] + (IF n \in ts THEN rows[n].c ELSE 0)
  IN  sum[Infinite]

(* The nodes of levels 1 .. top strictly between two timestamps that no higher
   of those nodes hides from the right. *)
Visible(rows, from, to, top) ==
  {t \in DOMAIN rows :
     /\ from < t /\ t < to /\ rows[t].l <= top
     /\ \A u \in DOMAIN rows :
          t < u /\ u < to /\ rows[u].l <= top => rows[u].l <= rows[t].l}

(* The first node of a level after a timestamp, 0 when there is none. *)
FirstAfter(rows, level, t) ==
  LET ts == {u \in DOMAIN rows : rows[u].l = level /\ u > t}
  IN  IF ts = {} THEN 0 ELSE Min(ts)

(* The nodes that cover t from the right: the first node of each level from
   low on, unless a node of a higher level comes before it. *)
Covering(rows, t, low) ==
  {u \in DOMAIN rows :
     /\ rows[u].l >= low /\ u = FirstAfter(rows, rows[u].l, t)
     /\ \A l \in rows[u].l + 1 .. MaxLevel :
          FirstAfter(rows, l, t) = 0 \/ u < FirstAfter(rows, l, t)}
-----------------------------------------------------------------------------
(* insertTimestamp, by strategy.  Rows of a timestamp already stored stay as
   they are ("on conflict do nothing", "changes() > 0"). *)

WithRow(rows, t, row) == [u \in DOMAIN rows \union {t} |-> IF u = t THEN row ELSE rows[u]]

Extended(row, t) == [row EXCEPT !.h = SymDiff({t}, @), !.c = @ + 1]

(* A promoted node summarises the suffix after the nearest preceding node of
   its own or a higher level. *)
AppendRow(rows, t, level) ==
  LET preceding == {u \in DOMAIN rows : rows[u].l >= level /\ u < t}
      from == IF preceding = {} THEN 0 ELSE Max(preceding)
      covered == Visible(rows, from, t, level - 1)
  IN  WithRow(rows, t,
        IF level = 1 THEN [l |-> 1, h |-> {t}, c |-> 1]
        ELSE [l |-> level, h |-> SymDiff({t}, XorOf(rows, covered)), c |-> CountOf(rows, covered) + 1])

(* Wrong: a node of the same level grows too. *)
PrependRowToo(rows, t, level) ==
  LET after == WithRow(rows, t, [l |-> level, h |-> {t}, c |-> 1])
      covering == Covering(after, t, level) \ {t}
  IN  [u \in DOMAIN after |-> IF u \in covering THEN Extended(after[u], t) ELSE after[u]]

(* The first timestamp covers itself only; every higher node that covers it
   grows by one. *)
PrependRow(rows, t, level) ==
  LET after == WithRow(rows, t, [l |-> level, h |-> {t}, c |-> 1])
      covering == Covering(after, t, level + 1)
  IN  [u \in DOMAIN after |-> IF u \in covering THEN Extended(after[u], t) ELSE after[u]]

(* An interior node of level 1 extends the higher nodes that cover it. *)
InsertLowRow(rows, t) ==
  LET after == WithRow(rows, t, [l |-> 1, h |-> {t}, c |-> 1])
      covering == Covering(after, t, 2)
  IN  [u \in DOMAIN after |-> IF u \in covering THEN Extended(after[u], t) ELSE after[u]]

(* An interior node of a higher level takes over what the lower nodes before it
   cover.  c4[l] of the query sums these nodes up to level l; a covering node
   that is not higher than the new one gives up the sum of the levels below its
   own, and nothing when there is no such level. *)
InsertHighRow(rows, t, level) ==
  LET taken == {u \in Visible(rows, 0, t, MaxLevel) : rows[u].l < level}
      below(l) == {u \in taken : rows[u].l < l}
      row == [l |-> level, h |-> SymDiff({t}, XorOf(rows, taken)), c |-> CountOf(rows, taken) + 1]
      after == WithRow(rows, t, row)
      low == Min({rows[u].l : u \in taken} \union {level}) + 1
      covering == Covering(after, t, low)
  IN  [u \in DOMAIN after |->
         IF u \notin covering THEN after[u]
         ELSE IF after[u].l > level THEN Extended(after[u], t)
         ELSE [after[u] EXCEPT !.h = SymDiff(@, XorOf(rows, below(after[u].l))),
                               !.c = @ - CountOf(rows, below(after[u].l))]]

(* getTimestampInsertStrategy with the bounds of readOwnerUsageOrDefault. *)
Bounds(t) == IF usage = <<>> THEN [first |-> t, last |-> t] ELSE usage

Strategy(t, bounds) ==
  IF t > bounds.last THEN "append" ELSE IF t < bounds.first THEN "prepend" ELSE "insert"

(* Wrong: without "changes() > 0" the nodes above a timestamp grow whenever it comes again. *)
InsertTimestampAgain(rows, t, level, strategy) ==
  IF t \in DOMAIN rows
    THEN LET covering == Covering(rows, t, 2)
         IN  [u \in DOMAIN rows |-> IF u \in covering \ {t} THEN Extended(rows[u], t) ELSE rows[u]]
  ELSE CASE strategy = "append" -> AppendRow(rows, t, level)
         [] strategy = "prepend" -> PrependRow(rows, t, level)
         [] strategy = "insert" /\ level = 1 -> InsertLowRow(rows, t)
         [] strategy = "insert" /\ level > 1 -> InsertHighRow(rows, t, level)

InsertTimestamp(rows, t, level, strategy) ==
  IF t \in DOMAIN rows THEN rows
  ELSE CASE strategy = "append" -> AppendRow(rows, t, level)
         [] strategy = "prepend" -> PrependRow(rows, t, level)
         [] strategy = "insert" /\ level = 1 -> InsertLowRow(rows, t)
         [] strategy = "insert" /\ level > 1 -> InsertHighRow(rows, t, level)

(* One message of applyMessages or of the relay's writeMessages: the level is
   random, the bounds follow the strategy and are saved with the transaction. *)
Insert(t, level) ==
  LET bounds == Bounds(t)
      strategy == Strategy(t, bounds)
  IN  /\ index' = InsertTimestamp(index, t, level, strategy)
      /\ usage' = [first |-> IF strategy = "prepend" THEN t ELSE bounds.first,
                   last |-> IF strategy = "append" THEN t ELSE bounds.last]

(* Wrong: the bounds outlive the timestamps. *)
DeleteTimestampsOnly == index # <<>> /\ index' = <<>> /\ UNCHANGED usage

(* The relay's deleteOwner forgets the timestamps and the bounds together. *)
DeleteOwner == index # <<>> /\ index' = <<>> /\ usage' = <<>>

Next == DeleteOwner \/ \E t \in Timestamps, level \in Levels : Insert(t, level)
Spec == Init /\ [][Next]_vars
-----------------------------------------------------------------------------
(* The queries. *)

(* getSize and getTimestampCount. *)
SizeOf(rows) == CountOf(rows, Visible(rows, 0, Infinite, MaxLevel))
TimestampCount(rows, t) == CountOf(rows, Visible(rows, 0, t + 1, MaxLevel))

FindLowerBound(rows, begin, end, bound) ==
  LET notBelow == {t \in DOMAIN rows : t >= bound}
  IN  IF end = 0 \/ begin = end \/ bound = Infinite \/ notBelow = {} THEN end
      ELSE TimestampCount(rows, Min(notBelow)) - 1

(* The descent of getTimestampByIndex and fingerprintRanges to the first n
   timestamps: on each level go right as long as no more than n are counted,
   and stay before the node that was too much. *)
Descent(rows, n) ==
  LET at[l \in 0 .. MaxLevel] ==
        IF l = MaxLevel THEN [from |-> 0, to |-> Infinite, counted |-> 0, h |-> {}]
        ELSE LET s == at[l + 1]
                 nodes == {t \in DOMAIN rows : rows[t].l = l + 1 /\ s.from < t /\ t < s.to}
                 run(t) == {u \in nodes : u <= t}
                 taken == {t \in nodes : s.counted + CountOf(rows, run(t)) <= n}
             IN  [from |-> Max(taken \union {s.from}),
                  to |-> Min((nodes \ taken) \union {s.to}),
                  counted |-> s.counted + CountOf(rows, taken),
                  h |-> SymDiff(s.h, XorOf(rows, taken))]
  IN  at[0]

GetTimestampByIndex(rows, i) == Descent(rows, i + 1).from

(* Wrong: a bucket keeps the fingerprints of those before it. *)
CumulativeFingerprint(rows, buckets, k) ==
  LET descent == Descent(rows, buckets[k])
  IN  [fingerprint |-> descent.h,
       upperBound |-> IF k = Len(buckets) THEN Infinite
                      ELSE Min({t \in DOMAIN rows : t > descent.from})]

(* fingerprintRanges for ascending buckets: what each bucket adds to the one
   before it, and the timestamp its range ends at. *)
FingerprintRange(rows, buckets, k) ==
  LET descent == Descent(rows, buckets[k])
      later == {t \in DOMAIN rows : t > descent.from}
  IN  [fingerprint |-> IF k = 1 THEN descent.h
                       ELSE SymDiff(descent.h, Descent(rows, buckets[k - 1]).h),
       upperBound |-> IF k = Len(buckets) THEN Infinite ELSE Min(later)]

FingerprintOf(rows, begin, end) ==
  IF begin = end THEN {}
  ELSE IF begin = 0 THEN FingerprintRange(rows, <<end>>, 1).fingerprint
  ELSE FingerprintRange(rows, <<begin, end>>, 2).fingerprint
-----------------------------------------------------------------------------
(* Properties. *)

(* The types of the rows of evolu_timestamp and evolu_usage. *)
TypeOK ==
  /\ DOMAIN index \subseteq Timestamps
  /\ \A t \in DOMAIN index : index[t] \in Row
  /\ usage = <<>> \/ usage \in [first : Timestamps, last : Timestamps]

(* The timestamps a row stands for: those after the nearest earlier node of its
   level or a higher one. *)
Covered(rows, t) ==
  {u \in DOMAIN rows : u <= t /\
     ~\E v \in DOMAIN rows : u <= v /\ v < t /\ rows[v].l >= rows[t].l}

(* Whatever the order of the insertions, their levels and strategies, every row
   is well formed and carries the fingerprint and the count of exactly what it covers. *)
RowsSummarise ==
  /\ TypeOK
  /\ \A t \in DOMAIN index :
       index[t].h = Covered(index, t) /\ index[t].c = Cardinality(Covered(index, t))

(* The bounds in evolu_usage are the first and the last timestamp stored: a
   wrong bound would choose a strategy that corrupts rows. *)
BoundsExact ==
  IF index = <<>> THEN usage = <<>>
  ELSE usage = [first |-> Min(DOMAIN index), last |-> Max(DOMAIN index)]

Set == INSTANCE TimestampSet

Answers(rows) ==
  [fingerprint |-> FingerprintOf(rows, 0, SizeOf(rows)),
   listed |-> [i \in 0 .. SizeOf(rows) - 1 |-> GetTimestampByIndex(rows, i)]]

(* What the list answers changes as the answers of an ordered set do: after an insertion
   its fingerprint and the timestamps by index, read from the rows by the walks above,
   have that timestamp more, once and in its place; inserting it again (a replay, or a
   broadcast and a synchronization that both deliver it) changes no answer, whatever
   strategy its bounds choose; after deleteOwner nothing is left of the list.
   (insertTimestamp, getSize, fingerprintRanges, getTimestampByIndex.) *)
ImplementsSet ==
  /\ Set!Init(Answers(index))
  /\ [][Set!Next(Answers(index), Answers(index'))]_vars

(* The queries agree with the ordered set: counts, searches, and the fingerprints of
   ranges, one by one or as consecutive buckets, of which one ends where the next
   begins.  The range of a search starts where the timestamps below its bound start,
   as the ranges of the protocol do. *)
QueriesExact ==
  LET S == DOMAIN index
      n == SizeOf(index)
  IN  /\ n = Set!Size(S)
      /\ \A i \in 0 .. n - 1 : GetTimestampByIndex(index, i) = Set!TimestampAt(S, i)
      /\ \A begin \in 0 .. n, bound \in Timestamps \union {Infinite} :
           (\A t \in Set!Slice(S, 0, begin) : t < bound) =>
             FindLowerBound(index, begin, n, bound) = Set!LowerBound(S, begin, n, bound)
      /\ \A begin \in 0 .. n : \A end \in begin .. n :
           /\ FingerprintOf(index, begin, end) = Set!Fingerprint(S, begin, end)
           /\ 0 < begin /\ begin < end =>
                LET first == FingerprintRange(index, <<begin, end>>, 1)
                IN  /\ first.fingerprint = Set!Fingerprint(S, 0, begin)
                    /\ first.upperBound = Set!TimestampAt(S, begin)
=============================================================================
