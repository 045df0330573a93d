--------------------------- MODULE StorageQueries ---------------------------
(***************************************************************************)
(* What a storage answers about the timestamps of one owner (the queries   *)
(* of BaseSqliteStorage in local-first/Storage.ts): an ordered set that    *)
(* can be counted, indexed, cut at an upper bound and fingerprinted.       *)
(*                                                                         *)
(* Timestamps are naturals, in the order of their bytes.  A fingerprint is *)
(* the set of timestamps it stands for: hashes do not collide, and XOR is  *)
(* the symmetric difference.                                               *)
(***************************************************************************)
EXTENDS Integers, FiniteSets

CONSTANTS Timestamps, Infinite

ASSUME TimestampsAssumption == Timestamps \subseteq Nat
ASSUME InfiniteAssumption == Infinite \in Nat \ {0} /\ \A t \in Timestamps : t < Infinite

(* The number of timestamps up to and including t: one more than its index. *)
Rank(S, t) == Cardinality({u \in S : u <= t})

(* The timestamps with an index in begin .. end-1 (iterate). *)
Slice(S, begin, end) == {t \in S : Rank(S, t) > begin /\ Rank(S, t) <= end}

(* The fingerprint of those timestamps. *)
Fingerprint(S, begin, end) == Slice(S, begin, end)

Size(S) == Cardinality(S)

(* findLowerBound: the first index in begin .. end-1 whose timestamp is not
   below the bound, or end. *)
LowerBound(S, begin, end, bound) ==
  IF begin = end THEN end
  ELSE begin + Cardinality({t \in Slice(S, begin, end) : t < bound})

(* getTimestampByIndex. *)
TimestampAt(S, index) == CHOOSE t \in S : Rank(S, t) = index + 1
=============================================================================
