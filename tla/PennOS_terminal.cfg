SPECIFICATION Spec
CONSTANTS
  MaxProc = 3
  Programs = {"busy", "cat", "zombify", "orphanify"}
  Modes = {"fg", "bg"}
  Nices <- NoNices
  Signals = {}
  Keys = {"S_SIGSTOP", "S_SIGTERM"}
  MaxKeys = 3
  SleepTicks <- NoTicks
  Windows = {}
INVARIANTS
  WaitsForTheLiving
  WaitsForTheMoving
  ForegroundMatchesWait
  NoCrash
PROPERTIES
  NoSpuriousWakeup
  StaysDead
