SPECIFICATION FairSpec
CONSTANTS
  own = own
  sent = sent
  none = none
  Accounts <- MCAccounts
  NoKey <- none
  MaxInstances = 2
  MaxCommands = 2
  MaxMoves = 2
  MaxRestarts = 1
CHECK_DEADLOCK FALSE
INVARIANTS CommandInv OneInstancePerDeploy TerminatedStaysGone StatusAnswerWasTrue RefusedLeavesNothing
PROPERTIES AccountsAreKept CommandsAreAnswered
