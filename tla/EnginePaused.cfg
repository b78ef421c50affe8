CONSTANTS
  Recipes <- MCRecipes
  ReaimAt = {"hold", "paused"}
  MaxFaults = 1
  MaxErrors = 1
  MaxPauses = 1
  Away = Away
  None = None
  Earlier = Earlier
SPECIFICATION Spec
INVARIANT ReadingsBelong
