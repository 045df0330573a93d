\* One client and the relay, every distribution of four timestamps, under fairness.
SPECIFICATION FairSpec
CONSTANTS
  c1 = c1
  relay = relay
  Client = {c1}
  Relay = relay
  Timestamps <- MCTimestamps
  Infinite <- MCInfinite
  N = 4
  Buckets = 2
  MinPerBucket = 1
  MessageSize = 20
  TotalMax = 44
  RangesMax = 20
  MaxChanges = 2
  MaxStale = 1
INVARIANTS
  RangesCoverEverything
  NothingForgotten
  SizeLimitsNeverExceeded
PROPERTIES
  EventuallySynced
  RoundsEnd
