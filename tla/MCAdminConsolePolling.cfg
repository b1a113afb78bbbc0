CONSTANTS
  None = None
  NoBytes = NoBytes
  MaxCalls = 3
  MaxSessions = 1
  MaxChanges = 1
  MaxFaults = 1
  Row = {a}
  Filter = {error}
  Totals <- MCTotals
  SampleLimit = 2
  Visited = {"runtime", "logs", "tests", "upstreams"}
  MaxOrphans = 1
  MaxReads = 2
  MaxOrders = 1
SPECIFICATION FairSpec
INVARIANTS
  ChartFollowsTotals
PROPERTIES
  PolledViewsConverge
  LostSessionIsNoticed
