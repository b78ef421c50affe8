CONSTANTS
  Top = 2
  Targets = {0, 2}
  DisableOnShutdown = TRUE
  MaxCommands = 2
  MaxSurprises = 1
SPECIFICATION Spec
INVARIANT SweepIsOver
INVARIANT TakenOver
INVARIANT SetpointShown
INVARIANT OffAtTheEnd
PROPERTY ReachedIsThisOne
PROPERTY NothingAfterClose
CHECK_DEADLOCK FALSE
