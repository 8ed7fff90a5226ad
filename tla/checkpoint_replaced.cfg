SPECIFICATION MCSpec
CONSTANTS
  MaxStep = 3
  Every = 2
  LastRegular = 1
  BestN = 1
  Metric <- Dip
  MaxFaults = 1
INVARIANTS
  MarkerBacked
