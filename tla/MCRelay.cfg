CONSTANTS
  Socks <- MCSocks
  Requests <- MCRequests
  Scenarios <- MCScenarios
SPECIFICATION FairSpec
CHECK_DEADLOCK FALSE
INVARIANTS NewestHolds OwnAnswer
PROPERTIES EndsAgree Relinked
