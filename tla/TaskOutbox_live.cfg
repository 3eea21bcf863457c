SPECIFICATION FairSpec
CONSTANTS
  Nodes = {n1}
  WorkerNodes = {n1}
  Tasks = {1, 2, 3}
  Foreign = {1}
  Callers = {c1}
  QueueSize = 1
  MaxInFlight = 1
  BatchSize = 2
  MaxFaults = 2
  AllowLate = FALSE
PROPERTY EveryTaskSettles
