SPECIFICATION Spec
CONSTANTS
  Owner = {"o"}
  s1 = s1
  s2 = s2
  Socket = {s1, s2}
  WriteKey = {"k1", "k2"}
  Timestamps <- TwoTimestamps
  Bytes <- MCBytes
  Quota <- MCQuota
  None = None
  MaxBatch = 2
  MaxHandlers = 2
INVARIANTS TypeOK ToldIsStored NothingMissed UsageExact QuotaHolds
SYMMETRY SocketSymmetry
