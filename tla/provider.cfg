SPECIFICATION FairProviderSpec
CONSTANTS
  judge1 = judge1
  polecat1 = polecat1
  Call = {judge1, polecat1}
  Eligible = {polecat1}
  FailureThreshold = 2
  MaxRetries = 2
INVARIANT OpenIffFailing
INVARIANT OutageIsAnnounced
PROPERTY CallsSettle
CHECK_DEADLOCK FALSE
