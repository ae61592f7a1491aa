SPECIFICATION FairSpec
CONSTANTS
  Requests = {1, 2, 3}
  Past = {1}
  Menu <- LiveMenu
  Activities = {"a", "b", "c"}
  Tokens = {1, 2}
  Kind <- LiveKinds
  Volatile = {}
  Perishable = {}
  Results = {"ok", "invalidToken"}
  Masters = 2
  BatchSize = 1
  Failing = {"submit"}
  Unsure = {}
  MaxFaults = 1
  MaxCrashes = 0
CHECK_DEADLOCK FALSE
INVARIANTS TypeOK NewestUpdateReaches AlreadyStartedIsOwn
PROPERTIES DispatchSettles
