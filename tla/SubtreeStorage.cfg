CONSTANTS
  t1 = t1
  t2 = t2
  a = a
  b = b
  SubtreeIds = {a, b}
  Txs = {t1, t2}
  MaxBegun = 5
  MaxFaults = 1
SYMMETRY Symmetry
SPECIFICATION Spec
INVARIANTS RevisionsReadBack ReadsAreOfTheRoot TransactionsEnd ArgumentsInOrder
