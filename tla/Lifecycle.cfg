SPECIFICATION LifecycleSpec
CONSTANTS
  g1 = g1
  g2 = g2
  d1 = d1
  d2 = d2
  Gates = {g1, g2}
  Docks = {d1, d2}
  LastPort = 2
  MaxLives = 2
  MaxStarts = 2
  MaxFaults = 2
  None = None
INVARIANT OneGateway
INVARIANT EndLeavesNone
 
INVARIANT OneAgent
INVARIANT StopReachesAll
PROPERTY SetupIsServed
PROPERTY ButtonsReturn
CHECK_DEADLOCK FALSE
