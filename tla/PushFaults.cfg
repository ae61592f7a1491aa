SPECIFICATION Spec
CONSTANTS
  Jobs = {j1, j2}
  Tokens = {1, 2}
  Volatile = {1}
  Deletable = {}
  Masters = {m1, m2}
  Senders = {s1, s2}
  JobQueueSize = 1
  TaskQueueSize = 1
  DLQQueueSize = 1
  BatchSize = 1
  OutcomeBatchSize = 2
  Faults = {"claim", "status", "fetch", "finalize", "recheck", "apply"}
  MaxFaults = 2
  MaxCrashes = 0
  Nothing = Nothing
SYMMETRY AllSymmetry
INVARIANTS TypeOK IInv RejectedNeverSent
PROPERTIES JobLife
