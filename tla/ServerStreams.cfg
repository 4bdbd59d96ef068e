SPECIFICATION ServerFairSpec
CONSTANTS
  api = api
  page = page
  None = None
  Requests <- BothRequests
  Pages <- OnlyPage
  FaultySteps <- Nothing
  Stubborn <- Nothing
  MaxSignals = 1
  MaxMessages = 1
INVARIANTS
  ResolversEndFirst
CHECK_DEADLOCK FALSE
