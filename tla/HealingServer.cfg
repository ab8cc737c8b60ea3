SPECIFICATION Spec
CONSTANTS
  m1 = m1
  m2 = m2
  w1 = w1
  w2 = w2
  w3 = w3
  w4 = w4
  Operators = {o1}
  Monitors = {m1, m2}
  Workloads = {w1, w2, w3, w4}
  Review <- MCReview
  Block <- MCBlock
  SeedActions <- SeedThreshold
  Crashes = TRUE
  SavesFail = TRUE
  MaxActions = 3
  None = None
INVARIANTS OverridesInForce PolicyWithinBounds
