SPECIFICATION FairSpec
CONSTANTS
  None = None
  Sends <- TwoSends
  MaxRuns = 2
  Workers = 2
  Fallible <- OneSend
  MaxRedeliveries = 1
INVARIANTS
  AttemptsAreOwn
  OutcomeIsKept
PROPERTIES
  ImplementsOutbound
  QueuedIsSettled
CHECK_DEADLOCK FALSE
