SPECIFICATION FairSpec
CONSTANTS
  r1 = r1
  w1 = w1
  w2 = w2
  w3 = w3
  Foreign = foreign
  None = None
  Resources <- OneResource
  Writers <- ThreeWriters
  MaxRewrites = 1
INVARIANTS
  NoLostUpdate
  HistoryWellFormed
  TypedInStep
  NoGuardFires
PROPERTIES
  ImplementsHistory
  WritersEnd
CHECK_DEADLOCK FALSE
