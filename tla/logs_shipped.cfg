SPECIFICATION MCFairSpec
CONSTANTS
  Node = {n1, n2}
  Local = {n2}
  ChunkBytes = 2
  TailBytes = 4
  LogCap = 6
  MaxBytes = 5
  MaxMishaps = 2
INVARIANTS
  LogTypeOK
  EachByteOnce
  GaplessIfHeard
PROPERTIES
  ShownInTheEnd
