SPECIFICATION MCFairSpec
CONSTANTS
  n1 = n1
  g1 = g1
  NoNode = NoNode
  NumJobs = 2
  Gpu = {g1}
  Node = {n1}
  NodeOf <- OneNode
  Want <- AllWant1
  Fits <- AllFit
  Preemptible = {1}
  MaxJobs = 2
  MaxGpus = 2
  MaxPerJob = 2
  Limited = {}
  Cools = TRUE
  AutoRollback = FALSE
  MaxRollbacks = 0
  Seen = {"AVAILABLE", "TROIANI", "RESEARCHER"}
  RunDirs <- Remote
  MaxQueue = 6
  MaxDisturbances = 2
INVARIANTS
  OneTrainerUndisturbed
  QuietAgrees
PROPERTIES
  Heals
