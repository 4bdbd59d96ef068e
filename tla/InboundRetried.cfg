SPECIFICATION Spec
CONSTANTS
  d1 = d1
  d2 = d2
  embeds = embeds
  refers = refers
  odd = odd
  v1 = v1
  v2 = v2
  None = None
  Deliveries <- OneDelivery
  Payloads <- TwoPayloads
  ObjectDocs <- TwoVersions
  Embedding <- EmbeddingPayloads
  Unstorable <- Nothing
  MaxRuns = 2
  Queued <- OneDelivery
  Fallible <- Nothing
  MaxDeletions = 0
INVARIANT
  StorerCarriedBoth
CHECK_DEADLOCK FALSE
