\* Two clients that share a relay.
SPECIFICATION Spec
CONSTANTS
  c1 = c1
  c2 = c2
  relay = relay
  Client = {c1, c2}
  Relay = relay
  Timestamps <- MCTimestamps
  Infinite <- MCInfinite
  N = 3
  Buckets = 2
  MinPerBucket = 1
  MessageSize = 20
  TotalMax = 64
  RangesMax = 20
  MaxChanges = 1
  MaxStale = 0
INVARIANT SyncedWhenQuiet
SYMMETRY ClientSymmetry
PROPERTY ImplementsReplication
