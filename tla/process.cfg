SPECIFICATION FairSpec
CONSTANTS
  p1 = p1
  p2 = p2
  Probes <- MCProbes
  MaxEnabled = 2
CHECK_DEADLOCK FALSE
INVARIANTS ProcessInv CleanExit ProbeTellsConnection
PROPERTIES ShutdownEnds
