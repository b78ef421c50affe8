CONSTANTS
  Recipes <- MCRecipes
  ReaimAt = {"hold"}
  MaxFaults = 1
  MaxErrors = 1
  MaxPauses = 1
  Away = Away
  None = None
  Earlier = Earlier
SPECIFICATION FairSpec
INVARIANT TypeOK
INVARIANT ReadingsBelong
INVARIANT EveryPointVisited
INVARIANT AxisRoutinesPaired
INVARIANT SweepRoutinesRun
INVARIANT EndsProperly
INVARIANT NeighboursInOrder
PROPERTY AbortEnds
