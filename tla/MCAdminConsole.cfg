CONSTANTS
  None = None
  NoBytes = NoBytes
  MaxCalls = 3
  MaxSessions = 2
  MaxChanges = 0
  MaxFaults = 1
  Row = {a}
  Filter = {error}
  Totals <- MCTotals
  SampleLimit = 2
  Visited = {"subscriptions", "nodes", "groups", "reports", "settings"}
  MaxOrphans = 1
  MaxReads = 1
  MaxOrders = 2
SPECIFICATION Spec
INVARIANTS
  TypeOK
  ConsoleMatchesToken
  SpinnerIsHonest
  AnEmptyTableWasAnswered
  FlagsMatchCalls
  EditedRowIsShown
