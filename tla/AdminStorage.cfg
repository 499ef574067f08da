CONSTANTS
  c1 = c1
  c2 = c2
  i1 = i1
  s1 = s1
  s2 = s2
  TreeIds = {i1}
  Settings = {s1, s2}
  Clients = {c1, c2}
  MaxTx = 5
  MaxFaults = 1
SPECIFICATION Spec
INVARIANTS ControlForEveryTree DeletedAsLastCommitted
PROPERTIES ReturnsCommittedRow
