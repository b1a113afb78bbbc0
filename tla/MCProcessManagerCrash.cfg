SPECIFICATION Spec
CONSTANTS
  Main = main
  Installer = {}
  MaxRestarts = 1
  CoreLimit = 3
  None = None
PROPERTY CrashIsAnswered
\* the system stops when the process has ended
CHECK_DEADLOCK FALSE
