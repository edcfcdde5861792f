SPECIFICATION Spec
CONSTANTS
  Job = {j1, j2, j3}
  NULL = NULL
  Number <- Numbers
  MaxId = 5
INVARIANTS
  IInv
  NumberFindsJob
