CONSTANTS
  Top = 2
  Targets = {0, 2}
  DisableOnShutdown = TRUE
  MaxCommands = 2
  MaxSurprises = 1
SPECIFICATION Spec
INVARIANT ShutdownSwitchesOff
CHECK_DEADLOCK FALSE
