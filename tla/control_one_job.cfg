SPECIFICATION MCSpec
CONSTANTS
  n1 = n1
  n2 = n2
  g1 = g1
  g2 = g2
  g3 = g3
  NoNode = NoNode
  NumJobs = 1
  Gpu = {g1, g2}
  Node = {n1}
  NodeOf <- OneNode
  Want <- FirstWants2
  Fits <- AllFit
  Preemptible = {1}
  MaxJobs = 2
  MaxGpus = 2
  MaxPerJob = 2
  Limited = {1}
  Cools = FALSE
  AutoRollback = TRUE
  MaxRollbacks = 1
  Seen = {"AVAILABLE", "RESEARCHER"}
  RunDirs <- Shared
  MaxQueue = 2
  MaxDisturbances = 4
  Kinds = {"operators", "reports", "clock"}
INVARIANTS
  TypeOK
  HandlersNeverRaise
  PlacedWhole
PROPERTIES
  NoResurrection
  FailuresStay
