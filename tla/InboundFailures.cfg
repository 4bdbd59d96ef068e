SPECIFICATION Spec
CONSTANTS
  d1 = d1
  d2 = d2
  embeds = embeds
  refers = refers
  odd = odd
  v1 = v1
  v2 = v2
  None = None
  Deliveries <- OneDelivery
  Payloads <- OddPayloads
  ObjectDocs <- TwoVersions
  Embedding <- OddDocuments
  Unstorable <- OddDocuments
  MaxRuns = 2
  Queued <- OneDelivery
  Fallible <- OneDelivery
  MaxDeletions = 1
INVARIANTS
  ReceiptsAreJustified
PROPERTY
  ImplementsLifecycle
CHECK_DEADLOCK FALSE
