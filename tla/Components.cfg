SPECIFICATION Spec
CONSTANTS
  Writers = {1, 2, 3}
  Iris = {1, 2, 3}
  Hosts = {host1, host2}
  LocalActors = {alice, bob}
  host1 = host1
  host2 = host2
  alice = alice
  bob = bob
  Writes <- MCWrites
  Callers = {"k1", "k2", "k3"}
  Processes = {"p1", "p2"}
  Home <- MCHome
  Types = {"rsa", "ed25519"}
  MaxAttempts = 2
  None = none
  Logins = {"l1"}
  Completions = {"c1", "c2"}
  Bearers = {"b1"}
  Accounts = {"a1", "a2"}
  Known = {"a1"}
  Lifetime = 1
  MaxTime = 1
  NoRow = norow
  Preparers = {"old", "new", "fork"}
  Manifest <- MCManifest
  Policy <- MCPolicy
  Stores = {"postgres", "pglite"}
  Nobody = nobody
  Owners = {"o1", "o2", "o3"}
  NoOwner = noowner
  Givens <- MCGivens
  ContextNames = {"a", "b", "c"}
  Contexts <- MCContexts
  StandardTerms <- MCStandardTerms
  Sources <- MCSources
  PropertyOf <- MCPropertyOf
  Documents <- MCDocuments
  Ownership <- MCOwnership
  MaxDiagnostics = 3
  WriterAccounts = {"a1", "a2"}
  WriteRequests <- MCWriteRequests
  Targets <- MCTargets
  MaxTokens <- MCMaxTokens
  Databases <- MCDatabases
  Incoming <- MCIncoming
  Posts <- MCPosts
  LocalInstances = {"i1"}
  Memberships = {"i1"}
  PageSize = 1
  NullPosition = nullposition
  MaxResource = 9
  Requests = {"m1", "m2"}
  Asks <- MCAsks
  Slugs = {"s1", "s2"}
  Usable = {"s1", "s2"}
  Applicants = {"a1"}
  MaxInstances = 1
  MaxActors = 2
  Usernames = {"u1", "u2", "u3"}
  Worlds <- MCWorlds
  Deliveries = {"d1", "d2"}
  ReportsOf <- MCReportsOf
  NoReport = noreport
  Unsupported = {"odd"}
  NoIri = noiri
  StoredVersions <- MCStoredVersions
  LatestTime = 1
  Mails = {"x", "y"}
  MaxTries = 2
CHECK_DEADLOCK FALSE
INVARIANTS
  NoWaitCycle
  AnswersAreSaved
  OneSessionPerChallenge
  HistoryIsOneRelease
  DirectoryHasOneOwner
  MailIsSound
  ContextIsOrderFree
  PreviewIsFinal
  PreviewIsSaved
  SavedIsOwned
  WalksAreComplete
  HiddenTellsNothing
  ActorsWithinLimit
  RowsTellTheVerification
PROPERTIES
  EveryCallEnds
