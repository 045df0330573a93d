\* One client, no changes: what is sent twice.
SPECIFICATION Spec
CONSTANTS
  c1 = c1
  relay = relay
  Client = {c1}
  Relay = relay
  Timestamps <- MCTimestamps
  Infinite <- MCInfinite
  N = 4
  Buckets = 2
  MinPerBucket = 1
  MessageSize = 20
  TotalMax = 64
  RangesMax = 20
  MaxChanges = 0
  MaxStale = 0
INVARIANTS
  NoRetransmission
