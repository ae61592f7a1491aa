SPECIFICATION FairSpec
CONSTANTS
  Senders = {"s1", "s2"}
  MaxConcurrent = 1
  MaxRetries = 2
  Validity = 2
  Buffer = 1
  MaxSends = 2
  MaxTime = 3
CHECK_DEADLOCK FALSE
INVARIANTS TypeOK SignedOncePerPeriod JWTOutlastsBuffer ReportedAsAccepted
PROPERTIES SendReturns
