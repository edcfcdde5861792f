SPECIFICATION Spec
CONSTANTS
  Process = {p1, p2, p3}
  None = None
SYMMETRY Symmetry
INVARIANTS
  IInv
  BoundedWait
PROPERTIES
  NoOvertaking
  Dispatches
