SPECIFICATION FairSpec
CONSTANTS
  Upstream = {u1, u2}
  Enabled = {u1}
  Key = {k1, k2}
  ByHand = {k2}
  Listed = {{k1}, {k2}, {}}
  None = None
  MaxSpare = 6
  MaxRuns = 2
  MaxEvents = 3
PROPERTIES
  SuccessMirrorsSubscription
  ManagementIsKept
  SubscriptionsConverge
CHECK_DEADLOCK FALSE
