SPECIFICATION FairSpec
CONSTANTS
  Procs = {p1, p2, r1, r2}
  Receivers = {r1, r2}
  Items = {a, b}
  BufferSizes <- Sizes
  Cancelable = {p1, r1}
  MaxRetries = 1
  Nothing = Nothing
INVARIANTS TypeOK ClosedMeansDrained LateSubmitRefused
PROPERTIES ImplementsQueue CloseReleases AcceptedReachesReceiver
