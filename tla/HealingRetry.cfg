SPECIFICATION Spec
CONSTANTS
  m1 = m1
  m2 = m2
  w1 = w1
  w2 = w2
  w3 = w3
  w4 = w4
  Operators = {o1}
  Monitors = {m1, m2}
  Workloads = {w1}
  Review <- MCReview
  Block <- MCBlock
  SeedActions <- SeedThreshold
  Crashes = FALSE
  SavesFail = FALSE
  MaxActions = 2
  None = None
PROPERTY RefusedRollbackHarmless
