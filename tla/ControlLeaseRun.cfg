CONSTANTS
  labGui = labGui
  labScan = labScan
  officeGui = officeGui
  officeScan = officeScan
  camera = camera
  hostless = hostless
  lab = lab
  office = office
  NoPC = NoPC
  Anonymous = Anonymous
  Nobody = Nobody
  Clients = {labGui, labScan, officeGui, officeScan}
  Machines = {labScan, officeScan}
  ScanEngines = {labScan, officeScan}
  Mortal = {labGui, labScan}
  PC <- MCPC
  Lease = 1
  Forget = 1
  Driving = 1
SPECIFICATION FairSpec
INVARIANT LeaseMeasuresSilence
INVARIANT ByScanOnlyDuringScan
INVARIANT MovesAreShown
PROPERTY ControlMovesDeliberately
PROPERTY OneScanAtATime
PROPERTY DeadLockNothing
