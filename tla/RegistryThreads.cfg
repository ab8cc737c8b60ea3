SPECIFICATION Spec
CONSTANTS
  v11 = v11
  v12 = v12
  new = new
  w1 = w1
  w2 = w2
  Operators = {o1, o2}
  Models = {v11, v12, new}
  SeedOrder <- MCSeedOrder
  SeedStage <- MCSeedStage
  FirstChampion = v12
  PreviousChampion = v11
  Artifacts = {new}
  Workloads = {w1, w2}
  Compatible <- MCCompatible
  Replays <- MCReplays
  MaxHistory = 4
  None = None
INVARIANTS TypeOK ActiveIsNewest OnlyActiveServes OneShadow ManifestChampionsGated
SYMMETRY Symmetry
