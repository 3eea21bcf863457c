SPECIFICATION Spec
CONSTANTS
  Nodes = {n1, n2}
  WorkerNodes = {n1, n2}
  Tasks = {1, 2}
  Foreign = {}
  Callers = {c1}
  QueueSize = 1
  MaxInFlight = 1
  BatchSize = 2
  MaxFaults = 1
  AllowLate = FALSE
SYMMETRY NodeSymmetry
INVARIANTS TypeOK PermitConservation ExclusiveClaim StrandedOnlyByFault NothingLost
PROPERTY ImplementsLedger
