--------------------------- MODULE Reconciliation ---------------------------
(***************************************************************************)
(* Range-based set reconciliation (local-first/Protocol.ts): the message   *)
(* buffer with its size limits, splitRange, and sync, which answers the    *)
(* ranges of the other side from the timestamps S of this side.            *)
(*                                                                         *)
(* A range reaches from the upper bound of the range before it (included)  *)
(* to its own (excluded).  Its content is the timestamps listed in it, or  *)
(* those its fingerprint stands for.  A message stands for its timestamp.  *)
(* Sizes are in units of one encoded timestamp, about twelve bytes.        *)
(***************************************************************************)
EXTENDS StorageQueries, Sequences, SequencesExt

CONSTANTS
  Buckets,       \* numberOfBuckets of computeBalancedBuckets (16 in the code)
  MinPerBucket,  \* minNumberOfItemsPerBucket (2 in the code)
  MessageSize,   \* the size of one message with its encrypted change
  TotalMax,      \* ProtocolMessageMaxSize
  RangesMax      \* ProtocolMessageRangesMaxSize

ASSUME BucketsAssumption == Buckets \in Nat \ {0} /\ MinPerBucket \in Nat \ {0}
ASSUME SizesAssumption ==
  MessageSize \in Nat \ {0} /\ TotalMax \in Nat /\ RangesMax \in Nat

Skip == "Skip"
FingerprintRange == "Fingerprint"
TimestampsRange == "Timestamps"

NewRange(type, upperBound, content) ==
  [type |-> type, upperBound |-> upperBound, content |-> content]

(* The random fingerprint that matches no set of timestamps. *)
RandomFingerprint == {Infinite}

-----------------------------------------------------------------------------
(* The buffer.                                                             *)

EmptyBuffer == [messages |-> {}, ranges |-> <<>>]

(* safeMargins: room for one more fingerprint range, for a message header, for
   a timestamps range with the skip before it, for the largest split. *)
RemainingRangeMargin == 2
MessageMargin == 5
TimestampsRangeMargin == 4
SplitMargin ==
  1 + (IF 2 * Buckets > MinPerBucket * Buckets THEN 2 * Buckets
       ELSE MinPerBucket * Buckets)

(* ProtocolMessageRangesMaxSize is at most 100,000 bytes, ProtocolMessageMaxSize at
   least 1,000,000. *)
ASSUME LimitsAssumption == RangesMax + MessageMargin <= TotalMax

RangeSize(range) ==
  CASE range.type = Skip -> 1
    [] range.type = FingerprintRange -> 2
    [] range.type = TimestampsRange -> 1 + Cardinality(range.content)

SizeOfRanges(ranges) ==
  LET size[n \in 0 .. Len(ranges)] ==
        IF n = 0 THEN 0 ELSE size[n - 1] + RangeSize(ranges[n])
  IN  size[Len(ranges)]

RangesSize(buffer) ==
  IF buffer.ranges = <<>> THEN 0 ELSE RemainingRangeMargin + SizeOfRanges(buffer.ranges)

MessagesSize(buffer) == MessageSize * Cardinality(buffer.messages)

(* The assertion of addMessage and addRange.  A buffer only grows, so it fails
   on the way exactly when it fails for the buffer that comes out. *)
WithinSizeLimits(buffer) == MessagesSize(buffer) + RangesSize(buffer) <= TotalMax

CanAddMessage(buffer) ==
  MessagesSize(buffer) + RangesSize(buffer) + MessageMargin + MessageSize <= TotalMax

CanSplitRange(buffer) == RangesSize(buffer) + SplitMargin <= RangesMax

(* Wrong: only the size of the ranges counts. *)
CanAddTimestampsRange(buffer, count, withMessage) ==
  RangesSize(buffer) + count + TimestampsRangeMargin <= RangesMax

CanAddTimestampsRangeAndMessage(buffer, count, withMessage) ==
  LET newSize == RangesSize(buffer) + count + TimestampsRangeMargin
  IN  /\ newSize <= RangesMax
      /\ withMessage =>
           MessagesSize(buffer) + newSize + MessageMargin + MessageSize <= TotalMax

AddRange(buffer, range) == [buffer EXCEPT !.ranges = Append(@, range)]

-----------------------------------------------------------------------------
(* computeBalancedBuckets: where bucket i of count items ends. *)
BucketEnd(count, i) ==
  i * (count \div Buckets)
    + (IF i < count % Buckets THEN i ELSE count % Buckets)

(* Too few to split: the timestamps themselves, read from index 0. *)
SmallRange(S, lower, upper, upperBound) ==
  NewRange(TimestampsRange, upperBound, Slice(S, 0, upper - lower))

(* fingerprintRanges over the buckets between lower and upper. *)
FingerprintRanges(S, lower, upper, upperBound) ==
  [i \in 1 .. Buckets |->
     LET begin == lower + BucketEnd(upper - lower, i - 1)
         end == lower + BucketEnd(upper - lower, i)
     IN  NewRange(FingerprintRange,
               IF i = Buckets THEN upperBound ELSE TimestampAt(S, end),
               Fingerprint(S, begin, end))]

SplitsIntoFingerprints(S) == Size(S) >= Buckets * MinPerBucket

SplitRange(S, lower, upper, upperBound, buffer) ==
  IF upper - lower < Buckets * MinPerBucket
  THEN AddRange(buffer, SmallRange(S, lower, upper, upperBound))
  ELSE [buffer EXCEPT !.ranges = @ \o FingerprintRanges(S, lower, upper, upperBound)]

-----------------------------------------------------------------------------
(* sync: a fold over the ranges of the other side.  "skip" is a skipped range
   not written yet, "added" is nonSkipRangeAdded, "done" an early return.    *)

Start == [index |-> 0, bound |-> 0, skip |-> FALSE, added |-> FALSE,
          done |-> FALSE, output |-> EmptyBuffer]

(* Wrong: the last range is skipped in silence. *)
SkipLastRangeToo(state, range) == [state EXCEPT !.skip = TRUE]

SkipRange(state, range) ==
  IF state.added /\ range.upperBound = Infinite
  THEN [state EXCEPT !.output = AddRange(@, NewRange(Skip, Infinite, {}))]
  ELSE [state EXCEPT !.skip = TRUE]

CoalesceSkips(state) ==
  [state EXCEPT !.added = TRUE, !.skip = FALSE,
     !.output = IF state.skip THEN AddRange(@, NewRange(Skip, state.bound, {})) ELSE @]

RemainingRange(S, begin) ==
  NewRange(FingerprintRange, Infinite, Fingerprint(S, begin, Size(S)))

AnswerFingerprint(S, state, range, upper) ==
  IF range.content = Fingerprint(S, state.index, upper) THEN SkipRange(state, range)
  ELSE IF CanSplitRange(state.output)
  THEN LET coalesced == CoalesceSkips(state)
       IN  [coalesced EXCEPT
              !.output = SplitRange(S, state.index, upper, range.upperBound, @)]
  ELSE [state EXCEPT !.output = AddRange(@, RemainingRange(S, upper)), !.done = TRUE]

(* Our timestamps of a range that still fit, each with its message when the
   other side does not list it. *)
Fitting(ours, theirs, buffer) ==
  LET Fits(t) ==
        LET before == {u \in ours : u < t}
        IN  CanAddTimestampsRangeAndMessage(
              [buffer EXCEPT !.messages = @ \union (before \ theirs)],
              Cardinality(before), t \notin theirs)
  IN  {t \in ours : \A u \in ours : u <= t => Fits(u)}

(* Wrong: what this side lacks is not asked for. *)
AnswerWithMessagesOnly(S, state, range, upper) ==
  LET fitting == Fitting(Slice(S, state.index, upper), range.content, state.output)
  IN  SkipRange([state EXCEPT !.output.messages = @ \union (fitting \ range.content)], range)

(* Wrong: a range is returned although the other side lacks nothing. *)
AnswerWithTimestampsToo(S, state, range, upper) ==
  LET fitting == Fitting(Slice(S, state.index, upper), range.content, state.output)
      filled == [state EXCEPT !.output.messages = @ \union (fitting \ range.content)]
  IN  [CoalesceSkips(filled) EXCEPT
         !.output = AddRange(@, NewRange(TimestampsRange, range.upperBound, fitting))]

AnswerTimestamps(S, state, range, upper) ==
  LET ours == Slice(S, state.index, upper)
      fitting == Fitting(ours, range.content, state.output)
      filled == [state EXCEPT !.output.messages = @ \union (fitting \ range.content)]
      WithTimestamps(bound) ==
        [CoalesceSkips(filled) EXCEPT
           !.output = AddRange(@, NewRange(TimestampsRange, bound, fitting))]
      end == state.index + Cardinality(fitting)
  IN  IF fitting # ours
      THEN [WithTimestamps(TimestampAt(S, end)) EXCEPT
              !.output = AddRange(@, RemainingRange(S, end)), !.done = TRUE]
      ELSE IF range.content \subseteq ours THEN SkipRange(filled, range)
      ELSE WithTimestamps(range.upperBound)

AnswerRange(S, state, range) ==
  LET upper == LowerBound(S, state.index, Size(S), range.upperBound)
      answered ==
        CASE range.type = Skip -> SkipRange(state, range)
          [] range.type = FingerprintRange -> AnswerFingerprint(S, state, range, upper)
          [] range.type = TimestampsRange -> AnswerTimestamps(S, state, range, upper)
  IN  IF state.done THEN state
      ELSE [answered EXCEPT !.index = upper, !.bound = range.upperBound]

(* The state before the first range and after each of them. *)
SyncStates(S, ranges) ==
  LET state[n \in 0 .. Len(ranges)] ==
        IF n = 0 THEN Start ELSE AnswerRange(S, state[n - 1], ranges[n])
  IN  state

Sync(S, ranges) == SyncStates(S, ranges)[Len(ranges)].output

(* On the way a range that differs could not be split, for lack of room. *)
CutsRange(S, ranges) ==
  \E n \in 1 .. Len(ranges) :
    LET state == SyncStates(S, ranges)[n - 1]
        upper == LowerBound(S, state.index, Size(S), ranges[n].upperBound)
    IN  /\ ~state.done /\ ranges[n].type = FingerprintRange
        /\ ranges[n].content # Fingerprint(S, state.index, upper)
        /\ ~CanSplitRange(state.output)

(* Room for more ranges of some size, as canAddMessage asks for it for a message. *)
HasRoom(buffer, size) ==
  MessagesSize(buffer) + RangesSize(buffer) + size + MessageMargin <= TotalMax

(* On the way ranges are added, with the skip before them, that the messages leave no
   room for: canSplitRange looks at the size of the ranges only, as does
   canAddTimestampsRangeAndMessage without a message, and an empty list of timestamps
   is added unasked. *)
AddsUnasked(S, ranges) ==
  \E n \in 1 .. Len(ranges) :
    LET state == SyncStates(S, ranges)[n - 1]
        ours == Slice(S, state.index, LowerBound(S, state.index, Size(S), ranges[n].upperBound))
        fitting == Fitting(ours, ranges[n].content, state.output)
        filled == [state.output EXCEPT !.messages = @ \union (fitting \ ranges[n].content)]
    IN  /\ ~state.done
        /\ \/ /\ ranges[n].type = FingerprintRange
              /\ ranges[n].content # ours
              /\ CanSplitRange(state.output) /\ ~HasRoom(state.output, SplitMargin)
           \/ /\ ranges[n].type = TimestampsRange
              /\ fitting # ours \/ ~(ranges[n].content \subseteq ours)
              /\ ~HasRoom(filled, Cardinality(fitting) + 2)

(* createProtocolMessageForSync. *)
SyncRequest(S) == SplitRange(S, 0, Size(S), Infinite, EmptyBuffer)

(* Wrong: what does not fit is left out without a range. *)
CrdtRequestOfFitting(changes) ==
  [EmptyBuffer EXCEPT !.messages = {t \in changes : \A u \in changes : u <= t =>
     CanAddMessage([EmptyBuffer EXCEPT !.messages = {v \in changes : v < u}])}]

(* createProtocolMessageFromCrdtMessages: the first messages that fit, and when
   some do not, a fingerprint that makes the relay answer with its ranges. *)
CrdtRequest(changes) ==
  LET fitting == {t \in changes : \A u \in changes : u <= t =>
                    CanAddMessage([EmptyBuffer EXCEPT !.messages = {v \in changes : v < u}])}
      buffer == [EmptyBuffer EXCEPT !.messages = fitting]
  IN  IF fitting = changes THEN buffer
      ELSE AddRange(buffer, NewRange(FingerprintRange, Infinite, RandomFingerprint))
=============================================================================
