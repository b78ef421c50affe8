CONSTANTS
  MaxScans = 3
  MaxSubmit = 2
  MaxQuestions = 1
  Connected = FALSE
  Patient = TRUE
SPECIFICATION Spec
INVARIANT NeitherTwiceNorSkipped
INVARIANT AcceptedScansRun
INVARIANT AbortHitsItsScan
INVARIANT DataSavedAtExit
INVARIANT QuestionCanBeAnswered
PROPERTY StopsAreFinal
PROPERTY KeepsTheLine
CHECK_DEADLOCK FALSE
