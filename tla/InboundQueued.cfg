SPECIFICATION Spec
CONSTANTS
  d1 = d1
  d2 = d2
  embeds = embeds
  refers = refers
  odd = odd
  v1 = v1
  v2 = v2
  None = None
  Deliveries <- TwoDeliveries
  Payloads <- TwoPayloads
  ObjectDocs <- TwoVersions
  Embedding <- EmbeddingPayloads
  Unstorable <- Nothing
  MaxRuns = 1
  Queued <- TwoDeliveries
  Fallible <- Nothing
  MaxDeletions = 0
SYMMETRY DeliverySymmetry
INVARIANTS
  NothingIsLost
  StorerCarriedBoth
CHECK_DEADLOCK FALSE
