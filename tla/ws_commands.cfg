SPECIFICATION FairSpec
CONSTANTS
  a1 = a1
  heart = heart
  Apps <- NoApps
  Heart <- heart
  MaxConns = 2
  OnConnect = FALSE
  OutboundCap = 1
  CommandCap = 1
  MaxSends = 1
  MaxBeats = 0
  MaxCommands = 3
  FarEndMay = {"refused", "refusedNoText", "down"}
  ReconnectInterval = 1
  MaxReconnectDelay = 1
CHECK_DEADLOCK FALSE
PROPERTIES CommandsAreRead CommandsRunOnce StopTerminates
