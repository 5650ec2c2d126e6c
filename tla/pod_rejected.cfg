SPECIFICATION FairSpec
CONSTANTS
  p1 = p1
  p2 = p2
  none = none
  Pods <- MCOnePod
  NoPod <- none
  MaxUids = 1
  MaxCommands = 1
  MaxRestarts = 0
CHECK_DEADLOCK FALSE
PROPERTIES RejectedPodEndsFailed
