SPECIFICATION AccountsSpec
CONSTANTS
  p1 = p1
  p2 = p2
  none = none
  Pods <- MCTwoPods
  NoPod <- none
  MaxUids = 3
  MaxCommands = 2
  MaxRestarts = 1
CHECK_DEADLOCK FALSE
INVARIANTS PodInv AnswersAreTrue InstancesAccounted PodsAnnounced NoOlderPodHeld
PROPERTIES RejectionSticks ImplementsContract
