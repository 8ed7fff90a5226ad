SPECIFICATION MCSpec
CONSTANTS
  n1 = n1
  n2 = n2
  g1 = g1
  g2 = g2
  g3 = g3
  NoNode = NoNode
  NumJobs = 2
  Gpu = {g1, g2}
  Node = {n1}
  NodeOf <- OneNode
  Want <- AllWant1
  Fits <- AllFit
  Preemptible = {1, 2}
  MaxJobs = 1
  MaxGpus = 2
  MaxPerJob = 2
  Limited = {}
  Cools = TRUE
  AutoRollback = FALSE
  MaxRollbacks = 0
  Seen = {"AVAILABLE", "RESEARCHER"}
  RunDirs <- Remote
  MaxQueue = 2
  MaxDisturbances = 0
  Kinds = {}
INVARIANTS
  CapsHold
