SPECIFICATION FairSpec
CONSTANTS
  d1 = d1
  d2 = d2
  embeds = embeds
  refers = refers
  odd = odd
  v1 = v1
  v2 = v2
  None = None
  Deliveries <- TwoDeliveries
  Payloads <- TwoPayloads
  ObjectDocs <- OneVersion
  Embedding <- EmbeddingPayloads
  Unstorable <- Nothing
  MaxRuns = 1
  Queued <- OneDelivery
  Fallible <- Nothing
  MaxDeletions = 0
PROPERTY
  HandledIsReceived
CHECK_DEADLOCK FALSE
