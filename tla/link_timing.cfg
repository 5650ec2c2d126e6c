SPECIFICATION Spec
CONSTANTS
  HeartbeatInterval = 1
  ReadTimeout = 5
  WriteTimeout = 1
  ReconnectInterval = 1
  MaxReconnectDelay = 3
  HandshakeTimeout = 2
  WriteDelay = 1
  RoundTrip = 1
  MaxGap = 2
  MaxLate = 2
  MaxTime = 15
CHECK_DEADLOCK FALSE
INVARIANTS TimingInv HealthyLinkSurvives DeadLinkEndsInTime BackInTime WaitsAreExponential
