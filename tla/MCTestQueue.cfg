SPECIFICATION Spec
CONSTANTS
  Request = {r1, r2, r3, r4}
  Runner = {w1, w2}
  QueueLimit = 2
  None = None
INVARIANTS
  TypeOK
  SerialExecution
  NothingLost
  NoLostWakeup
  StartsInOrder
  CancelHitsItsTarget
PROPERTIES
  EventuallyServed
  ShutdownCompletes
  ImplementsExecutor
\* after a shutdown the system stops
CHECK_DEADLOCK FALSE
