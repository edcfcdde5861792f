SPECIFICATION Spec
CONSTANTS
  MaxProc = 4
  Programs = {"orphanify", "cat"}
  Modes = {"fg", "bg"}
  Nices <- NoNices
  Signals = {}
  Keys = {}
  MaxKeys = 0
  SleepTicks <- NoTicks
  Windows = {"link"}
INVARIANTS
  PidsAscending
