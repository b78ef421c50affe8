CONSTANTS
  labScan = labScan
  officeScan = officeScan
  lab = lab
  office = office
  NoPC = NoPC
  Anonymous = Anonymous
  Nobody = Nobody
  None = None
  Engines = {labScan, officeScan}
  Uses <- MCOne
  PC <- MCPC
  Lease = 1
  Forget = 1
  Driving = 0
  MaxScans <- MCTwice
  Slow = {1}
  MaxBlocks = 1
SPECIFICATION Spec
INVARIANT ClaimedUntilReleased
