CONSTANTS
  t1 = t1
  t2 = t2
  p1 = p1
  p2 = p2
  p3 = p3
  nil = nil
  NilCert = nil
  Threads = {t1, t2}
  Certs = {p1, p2, p3}
  Raw <- MCRaw
  Subject <- MCSubject
  AddLists <- Lists
  MaxCalls = 5
  MaxLoadFailures = 1
SPECIFICATION Spec
INVARIANT GetHoldsPreviousAdds
PROPERTIES PoolOnlyGrows
