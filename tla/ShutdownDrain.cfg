SPECIFICATION FairSpec
CONSTANTS
  push = push
  j1 = j1
  j2 = j2
  m1 = m1
  m2 = m2
  s1 = s1
  o1 = o1
  Lanes = {push}
  Jobs = {j1, j2}
  Tokens = {1}
  Scheduled = {j2}
  Workers = {m1, m2, s1, o1}
  LaneOf <- PushLane
  StageOf <- Stage
  QueueSize = 1
  OutcomeBatchSize = 2
  TimeoutsOf = {"http", "drain"}
  MaxFaults = 1
INVARIANTS TypeOK DrainInv GracefulDrain NoWorkerRefused StoreClosedLast
PROPERTIES ShutdownCompletes
