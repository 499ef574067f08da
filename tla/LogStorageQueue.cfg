CONSTANTS
  q1 = q1
  q2 = q2
  w1 = w1
  w2 = w2
  va = va
  vb = vb
  LeafIds = {1, 2}
  LeafValues = {va, vb}
  Times = {1}
  Batches <- QueueBatches
  Queuers = {q1, q2}
  Writers = {w1}
  DequeueLimit = 2
  MaxRevision = 0
  MaxFaults = 1
SPECIFICATION Spec
SYMMETRY QueuerSymmetry
INVARIANTS LeafAccounting RepliesAreStored NoDeadlock
