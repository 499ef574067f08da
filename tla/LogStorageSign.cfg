CONSTANTS
  q1 = q1
  q2 = q2
  w1 = w1
  w2 = w2
  va = va
  vb = vb
  LeafIds = {1, 2}
  LeafValues = {va}
  Times = {1, 2}
  Batches <- SingleLeaves
  Queuers = {q1}
  Writers = {w1, w2}
  DequeueLimit = 2
  MaxRevision = 1
  MaxFaults = 1
SPECIFICATION Spec
SYMMETRY WriterSymmetry
INVARIANTS RootMatchesRows RootsConsistent ReadsMatchRoot NoDeadlock
PROPERTIES AppendOnly ImplementsLog
