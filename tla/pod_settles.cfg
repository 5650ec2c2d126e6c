SPECIFICATION FairSpec
CONSTANTS
  p1 = p1
  p2 = p2
  none = none
  Pods <- MCOnePod
  NoPod <- none
  MaxUids = 3
  MaxCommands = 3
  MaxRestarts = 1
CHECK_DEADLOCK FALSE
PROPERTIES DeletedPodsLeave LivePodsStay
