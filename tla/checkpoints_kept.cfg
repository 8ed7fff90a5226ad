SPECIFICATION MCFairSpec
CONSTANTS
  MaxStep = 3
  Every = 1
  LastRegular = 1
  BestN = 1
  Metric <- Dip
  MaxFaults = 2
PROPERTIES
  NewestKept
  LeavesWhenAsked
