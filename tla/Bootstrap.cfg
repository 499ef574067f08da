CONSTANTS
  a1 = a1
  a2 = a2
  Agents = {a1, a2}
  Plan <- KidAndTree
  TreeKeys = {"maple"}
  SyncTimeout = 2
  Timeout = 1
  MaxFresh = 6
  MaxFaults = 2
SPECIFICATION Spec
INVARIANTS ResolvedIsStored NoNewValueOnceResolved ResolvedTreeIsInitialised
PROPERTY StartEnds
