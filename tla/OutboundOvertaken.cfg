SPECIFICATION Spec
CONSTANTS
  None = None
  Sends <- OneSend
  MaxRuns = 2
  Workers = 2
  Fallible <- NoSends
  MaxRedeliveries = 0
INVARIANT
  EndedAttemptsAreKept
CHECK_DEADLOCK FALSE
