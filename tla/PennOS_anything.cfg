SPECIFICATION Spec
CONSTANTS
  MaxProc = 3
  Programs = {"sleep", "zombify", "orphanify", "kill"}
  Modes = {"fg", "bg"}
  Nices <- LowNice
  Signals = {"S_SIGSTOP", "S_SIGCONT", "S_SIGTERM"}
  Keys = {"S_SIGTERM"}
  MaxKeys = 1
  SleepTicks <- AllTicks
  Windows = {"enrol", "block"}
INVARIANTS
  TypeOK
  PidsAscending
  QueuedInTable
  ChildrenInTable
  IInv
  DoneNeverRuns
PROPERTIES
  NeverRequeued
