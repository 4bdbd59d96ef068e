SPECIFICATION Spec
CONSTANTS
  api = api
  page = page
  None = None
  Requests <- BothRequests
  Pages <- OnlyPage
  FaultySteps <- SomeFaults
  Stubborn <- SomeStubborn
  MaxSignals = 2
  MaxMessages = 1
  Builds = {1, 2}
  ChannelOf <- MCChannelOf
  Packages = {1, 2}
  MaxBytes = 5
  MaxEvents = 2
  DocsBuilds = {1, 2, 3}
  MaxDeployments = 4
  Pulls = {1, 2}
  MaxCommits = 2
  MaxPreviews = 2
INVARIANTS
  ShutdownKeepsOrder
  BuildsAreWhole
PROPERTIES
  ReleasesNeverGoBack
  CleanupEnds
CHECK_DEADLOCK FALSE
