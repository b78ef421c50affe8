CONSTANTS
  Scans <- MCScans
  MaxFaults = 1
  MaxErrors = 2
  MaxPauses = 1
  FaultsLast = TRUE
  Away = Away
  None = None
SPECIFICATION FairSpec
INVARIANT TypeOK
INVARIANT RowsComplete
INVARIANT StartsAtRunIn
INVARIANT SpeedPutBack
INVARIANT NothingGoesOn
PROPERTY AbortEnds
