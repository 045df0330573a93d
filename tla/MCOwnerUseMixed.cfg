SPECIFICATION Spec
CONSTANTS
  i1 = i1
  i2 = i2
  u1 = u1
  u2 = u2
  u3 = u3
  None = None
  Disposal = Disposal
  Instance = {i1, i2}
  Use = {u1, u2, u3}
  Writable = {u2, u3}
  Owner = {"o"}
  Key = {"k1", "k2"}
  Reachable = {"k1"}
  Resource = {1, 2}
  InstanceOf <- MCInstanceOf
  OwnerOf <- MCOwnerOf
  TransportsOf <- MCTransportsOf
  Holder <- MCHolder
  KeyOf <- MCKeyOf
INVARIANT UsedOwnerHasClaimLease
