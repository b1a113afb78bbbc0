SPECIFICATION Spec
CONSTANTS
  Request = {r1, r2}
  Throughput = {r1}
  Ping = {r2}
  Handler = {h1}
  QueueLimit = 1
  Retry = 1
  None = None
INVARIANTS
  TypeOK
  NoOrphanRows
  DeliveredOnce
  CancellableUntilDelivered
  CountedResultsAreChecked
  RecoveryConfirmed
  CancellationStopsAttempts
PROPERTIES
  RowsSettle
