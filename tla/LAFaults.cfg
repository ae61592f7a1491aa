SPECIFICATION Spec
CONSTANTS
  Requests = {1, 2, 3}
  Past = {1}
  Menu <- LiveMenu
  Activities = {"a", "b", "c"}
  Tokens = {1}
  Kind <- OneToken
  Volatile = {1}
  Perishable = {1}
  Results = {"ok", "invalidToken"}
  Masters = 2
  BatchSize = 1
  Failing = {"start", "insert", "row", "rollback", "submit", "touch", "mark", "markFailed", "failJob", "supersede", "progress", "scope", "page", "complete", "finishEmpty", "failEnqueue", "apply"}
  Unsure = {"insert", "row", "complete", "finishEmpty", "supersede"}
  MaxFaults = 1
  MaxCrashes = 1
CHECK_DEADLOCK FALSE
INVARIANTS RejectedNotSent Accounted StartedStaysReachable
PROPERTIES SettledIsFinal
