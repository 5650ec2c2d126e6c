CONSTANTS
  a1 = a1
  heart = heart
  Apps <- NoApps
  Heart <- heart
  MaxConns = 2
  OnConnect = FALSE
  OutboundCap = 1
  CommandCap = 1
  MaxSends = 1
  MaxBeats = 1
  MaxCommands = 0
  FarEndMay = {"refused", "refusedNoText", "down"}
  ReconnectInterval = 1
  MaxReconnectDelay = 1
CHECK_DEADLOCK FALSE
SPECIFICATION Spec
PROPERTIES RefusalBacksOff
