CONSTANTS
  Scans <- MCBreaking
  MaxFaults = 1
  MaxErrors = 1
  MaxPauses = 0
  FaultsLast = TRUE
  Away = Away
  None = None
SPECIFICATION Spec
INVARIANT StartsAtRunIn
