CONSTANTS
  MaxScans = 2
  MaxSubmit = 1
  MaxQuestions = 0
  Connected = TRUE
  Patient = TRUE
SPECIFICATION Spec
INVARIANT AbortReachesInstruments
CHECK_DEADLOCK FALSE
