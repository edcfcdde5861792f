SPECIFICATION Spec
CONSTANTS
  MaxProc = 4
  Programs = {"sleep", "zombify", "orphanify"}
  Modes = {"fg", "bg"}
  Nices <- NoNices
  Signals = {}
  Keys = {}
  MaxKeys = 0
  SleepTicks <- SomeTicks
  Windows = {}
INVARIANTS
  ScheduledIffAlive
  DeadIsReapable
  BlockedIsEnrolled
PROPERTIES
  ReapedIsDeadOrOrphan
