SPECIFICATION Spec
CONSTANTS
  c1 = c1
  c2 = c2
  p1 = p1
  p2 = p2
  w1 = w1
  Callers = {c1, c2}
  Processes = {p1, p2}
  ProcessOf <- TwoProcesses
  Txns = {t1}
  Bodies = {b1, b2}
  Workloads = {w1}
  Sent = {None}
  Models = {m1}
  Revisions = {0, 1}
  Healed = {}
  Imported = {}
  Backend = "sqlite"
  Threaded = TRUE
  MemoryCap = 1
  MaxDecisions = 3
  None = None
INVARIANTS TypeOK FingerprintConsistent AnswersRecorded CachedIsNewestRecorded DuplicatesNeedOverlap
PROPERTY FingerprintStable
