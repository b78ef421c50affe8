CONSTANTS
  MaxScans = 2
  MaxSubmit = 1
  MaxQuestions = 1
  Connected = TRUE
  Patient = TRUE
SPECIFICATION FairSpec
PROPERTY AbortTakesEffect
PROPERTY StopsEnd
CHECK_DEADLOCK FALSE
