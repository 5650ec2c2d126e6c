SPECIFICATION Spec
CONSTANTS
  a1 = a1
  heart = heart
  Apps <- MCApps
  Heart <- heart
  MaxConns = 2
  OnConnect = TRUE
  OutboundCap = 2
  CommandCap = 1
  MaxSends = 1
  MaxBeats = 0
  MaxCommands = 0
  FarEndMay = {}
  ReconnectInterval = 1
  MaxReconnectDelay = 3
CHECK_DEADLOCK FALSE
INVARIANTS ClientInv WrittenInOrder AtMostOneLostPerConnection NoLeakedConnection StopClosesEverything RegistersInOrder
PROPERTIES BackoffGrows ImplementsLossyFifo
