\* Ranges that soon fill their part of a message.
SPECIFICATION Spec
CONSTANTS
  c1 = c1
  relay = relay
  Client = {c1}
  Relay = relay
  Timestamps <- MCTimestamps
  Infinite <- MCInfinite
  N = 4
  Buckets = 2
  MinPerBucket = 1
  MessageSize = 20
  TotalMax = 64
  RangesMax = 10
  MaxChanges = 2
  MaxStale = 1
INVARIANTS
  SyncedWhenQuiet
