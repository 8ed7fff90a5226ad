SPECIFICATION MCSpec
CONSTANTS
  DayTicks = 5
  Malformed = Malformed
  Filed <- File
  Presets <- PresetRows
  Patches <- Sent
  MaxRequests = 4
INVARIANTS
  PolicyTypeOK
  GateMatchesCalendar
  AnswersOutliveRestarts
  AnsweredStopHolds
PROPERTIES
  GateMovesAtEdges
