SPECIFICATION FairSpec
CONSTANTS
  Jobs = {j1, j2}
  Tokens = {1, 2}
  Volatile = {}
  Deletable = {}
  Masters = {m1, m2}
  Senders = {s1}
  JobQueueSize = 1
  TaskQueueSize = 1
  DLQQueueSize = 1
  BatchSize = 1
  OutcomeBatchSize = 2
  Faults = {"status", "apply"}
  MaxFaults = 1
  MaxCrashes = 0
  Nothing = Nothing
INVARIANTS CompletionNotMissed
PROPERTIES AcceptedJobCompletes
