SPECIFICATION Spec
CONSTANTS
  Jobs = {j1, j2}
  Tokens = {1, 2}
  Volatile = {}
  Deletable = {j1}
  Masters = {m1, m2}
  Senders = {s1}
  JobQueueSize = 1
  TaskQueueSize = 1
  DLQQueueSize = 1
  BatchSize = 2
  OutcomeBatchSize = 2
  Faults = {"insert", "claim", "status", "finalizeCommit", "apply"}
  MaxFaults = 1
  MaxCrashes = 1
  Nothing = Nothing
SYMMETRY WorkerSymmetry
INVARIANTS TasksConserved CompletedMeansAccounted
PROPERTIES EmittedAtMostOnce
