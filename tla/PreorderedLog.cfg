CONSTANTS
  a1 = a1
  a2 = a2
  s1 = s1
  s2 = s2
  Batches <- MCBatches
  Adders = {a1, a2}
  Signers = {s1, s2}
  Limit = 2
  MaxCalls = 2
  MaxFaults = 1
SPECIFICATION Spec
INVARIANTS AckedAreStored NoSideEffects RootIsPrefix
PROPERTIES CallsEnd PrefixIsSigned
