SPECIFICATION FairSpec
CONSTANTS
  Users = {"u", "v"}
  Topics = {"all", "t"}
  Broadcast = "all"
  Devices = {"d"}
  LATokens = {"p", "q"}
  LAKind <- Kinds
  Requests = {1, 2}
  Menu <- TwoUsersMenu
  Deletable = {"u", "t"}
  JobLifetime = 1
  SweepBatch = 1
  SweepBatches = 1
  Failing = {"getUser", "createUser", "createToken", "getTopic", "joinLA", "upsert", "subscribe", "welcome", "sweep"}
  MaxFaults = 1
  MaxTime = 3
  Nobody = Nobody
  Never = Never
  NoTopic = NoTopic
INVARIANTS TypeOK NewUsersSubscribed CreatedHolds
PROPERTIES UpdateTokensEnd
