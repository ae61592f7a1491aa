SPECIFICATION Spec
CONSTANTS
  Requests = {1, 2}
  Past = {}
  Menu <- RetryMenu
  Activities = {"a"}
  Tokens = {1}
  Kind <- OneToken
  Volatile = {}
  Perishable = {}
  Results = {"ok", "refused"}
  Masters = 1
  BatchSize = 1
  Failing = {"submit"}
  Unsure = {}
  MaxFaults = 1
  MaxCrashes = 0
CHECK_DEADLOCK FALSE
INVARIANTS AlreadyStartedMeansStarted
