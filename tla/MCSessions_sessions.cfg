SPECIFICATION FairSpec
CONSTANTS
  c1 = c1
  c2 = c2
  v1 = v1
  v2 = v2
  None = None
  Clients <- TwoClients
  VMs     <- TwoVMs
  MaxQueue = 2
INVARIANTS
  TypeOK
  OneDispatcher
  FaultsExplained
PROPERTIES
  ExitsForLauncher
  StopReturns
