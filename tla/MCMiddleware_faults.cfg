SPECIFICATION Spec
CONSTANTS
  r1 = r1
  r2 = r2
  r3 = r3
  r4 = r4
  h1 = h1
  h2 = h2
  a1 = a1
  a2 = a2
  None = None
  Requests = {r1, r2, r3}
  Hashes = {h1, h2}
  Resources = {a1, a2}
  MayCrash = TRUE
  MaxStoreFailures = 1
SYMMETRY Symmetry
INVARIANTS LedgerAgrees RecordMatchesAnswer FailureNotForgotten
PROPERTIES KeepsPromise
