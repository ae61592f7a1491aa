SPECIFICATION Spec
CONSTANTS
  Jobs = {j1, j2}
  Tokens = {1, 2, 3}
  Volatile = {1}
  Deletable = {j1}
  Masters = {m1}
  Senders = {s1}
  JobQueueSize = 1
  TaskQueueSize = 1
  DLQQueueSize = 1
  BatchSize = 2
  OutcomeBatchSize = 2
  Faults = {"commit", "apply", "finalize"}
  MaxFaults = 2
  MaxCrashes = 0
  Nothing = Nothing
SYMMETRY WorkerSymmetry
INVARIANTS FailuresHaveReceipts StableTokensReached
