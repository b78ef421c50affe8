CONSTANTS
  labScan = labScan
  officeScan = officeScan
  lab = lab
  office = office
  NoPC = NoPC
  Anonymous = Anonymous
  Nobody = Nobody
  None = None
  Engines = {labScan, officeScan}
  Uses <- MCBoth
  PC <- MCPC
  Lease = 1
  Forget = 1
  Driving = 0
  MaxScans <- MCTwice
  Slow = {2}
  MaxBlocks = 1
SPECIFICATION Spec
INVARIANT TypeOK
INVARIANT ClaimKept
INVARIANT SomeScanRuns
INVARIANT TimeoutsLockNothing
