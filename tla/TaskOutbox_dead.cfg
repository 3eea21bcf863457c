SPECIFICATION Spec
CONSTANTS
  Nodes = {n1}
  WorkerNodes = {n1}
  Tasks = {1}
  Foreign = {}
  Callers = {c1}
  QueueSize = 1
  MaxInFlight = 2
  BatchSize = 2
  MaxFaults = 1
  AllowLate = TRUE
PROPERTY DeadStays
