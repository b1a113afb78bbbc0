SPECIFICATION Spec
CONSTANTS
  Request = {r1}
  Throughput = {}
  Ping = {}
  Handler = {h1}
  QueueLimit = 1
  Retry = 0
  None = None
PROPERTY TerminalIsFinal
