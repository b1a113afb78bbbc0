SPECIFICATION Spec
CONSTANTS
  Node = {n1}
  FailureLimit = 2
  QueueLimit = 1
  None = None
PROPERTY ProbeIsAnswered
