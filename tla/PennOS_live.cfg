SPECIFICATION FairSpec
CONSTANTS
  MaxProc = 3
  Programs = {"cat", "sleep"}
  Modes = {"fg", "bg"}
  Nices <- NoNices
  Signals = {}
  Keys = {}
  MaxKeys = 0
  SleepTicks <- SomeTicks
  Windows = {"link"}
PROPERTIES
  PromptReturns
  SleepersEnd
  ZombiesReaped
