SPECIFICATION MCSpec
CONSTANTS
  n1 = n1
  n2 = n2
  g1 = g1
  g2 = g2
  NoNode = NoNode
  NumJobs = 1
  Gpu = {g1}
  Node = {n1}
  NodeOf <- OneNode
  Want <- AllWant1
  Fits <- AllFit
  Preemptible = {1}
  MaxJobs = 2
  MaxGpus = 2
  MaxPerJob = 2
  Limited = {}
  Cools = TRUE
  AutoRollback = FALSE
  MaxRollbacks = 0
  Seen = {"AVAILABLE", "TROIANI", "RESEARCHER"}
  RunDirs <- Remote
  MaxQueue = 3
  MaxDisturbances = 1
  Kinds = {"anomalies"}
PROPERTIES
  AnomaliesPause
