SPECIFICATION LocalSpec
CONSTANTS
  r1 = r1
  r2 = r2
  r3 = r3
  q1 = q1
  q2 = q2
  q3 = q3
  c1 = c1
  c2 = c2
  c3 = c3
  w1 = w1
  Foreign = foreign
  None = None
  Resources <- ThreeResources
  Writers <- ThreeCommits
  Requests <- ThreeRequests
  NewObject <- ThreeObjects
  CommitOf <- CommitEach
  MaxRewrites = 0
INVARIANTS
  UpdatedAdvances
  OutboxTellsHistory
CHECK_DEADLOCK FALSE
