SPECIFICATION Spec
CONSTANTS
  Node = {n1, n2}
  FailureLimit = 2
  QueueLimit = 1
  None = None
SYMMETRY NodeSymmetry
INVARIANTS
  TypeOK
  ProbeIsAccountedFor
  OpenCircuitHidesNodes
  RecoveryRestoresGroup
PROPERTIES
  InfrastructureIsNeutral
