SPECIFICATION Spec
CONSTANTS
  Main = main
  Installer = {i1}
  MaxRestarts = 1
  CoreLimit = 4
  None = None
INVARIANT StopPreventsRestart
\* the system stops when the process has ended
CHECK_DEADLOCK FALSE
