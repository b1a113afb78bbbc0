SPECIFICATION Spec
CONSTANTS
  Main = main
  Installer = {i1}
  MaxRestarts = 2
  CoreLimit = 5
  None = None
INVARIANTS
  TypeOK
  OneKnownCore
  RestartsAreBounded
  ShutdownLeavesNoCore
PROPERTIES
  StopsReturn
  WatchedCrashIsAnswered
\* the system stops when the process has ended
CHECK_DEADLOCK FALSE
