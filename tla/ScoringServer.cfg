SPECIFICATION Spec
CONSTANTS
  c1 = c1
  c2 = c2
  p1 = p1
  p2 = p2
  w1 = w1
  Callers = {c1}
  Processes = {p1}
  ProcessOf <- OneCaller
  Txns = {t1, t2, t3}
  Bodies = {b1}
  Workloads = {w1, w2}
  Sent = {w1, w2}
  Models = {m1}
  Revisions = {0}
  Healed <- FirstHealing
  Imported = {w2}
  Backend = "sqlite"
  Threaded = FALSE
  MemoryCap = 2
  MaxDecisions = 3
  None = None
INVARIANTS ChainIntact DecidedByOwnPolicy DegradedMarksGap
PROPERTY ImplementsService
SYMMETRY Symmetry
