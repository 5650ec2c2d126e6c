SPECIFICATION AccountsSpec
CONSTANTS
  p1 = p1
  p2 = p2
  none = none
  Pods <- MCTwoPods
  NoPod <- none
  MaxUids = 2
  MaxCommands = 0
  MaxRestarts = 0
CHECK_DEADLOCK FALSE
INVARIANTS ScheduledPodsAnnounced
