SPECIFICATION Spec
CONSTANTS
  MaxProc = 2
  Programs = {"cat"}
  Modes = {"fg", "bg"}
  Nices <- NoNices
  Signals = {}
  Keys = {}
  MaxKeys = 0
  SleepTicks <- NoTicks
  Windows = {"block"}
INVARIANTS
  WaitsForTheLiving
