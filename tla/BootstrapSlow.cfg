CONSTANTS
  a1 = a1
  a2 = a2
  Agents = {a1, a2}
  Plan <- KidAndTree
  TreeKeys = {"maple"}
  SyncTimeout = 2
  Timeout = 1
  MaxFresh = 6
  MaxFaults = 0
SPECIFICATION Spec
INVARIANT SameLogIdEveryTime
