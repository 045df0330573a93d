\* A split after messages that nearly fill a message.
SPECIFICATION CrowdedSpec
CONSTANTS
  c1 = c1
  relay = relay
  Client = {c1}
  Relay = relay
  Timestamps <- MCTimestamps
  Infinite <- MCInfinite
  N = 14
  Buckets = 4
  MinPerBucket = 1
  MessageSize = 60
  TotalMax = 72
  RangesMax = 40
  MaxChanges = 0
  MaxStale = 1
INVARIANTS
  SizeLimitsNeverExceeded
