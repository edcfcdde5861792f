SPECIFICATION Spec
CONSTANTS
  Node = {n1, n2, n3, n4, n5}
  NULL = NULL
INVARIANTS
  IInv
PROPERTIES
  IsFifo
