SPECIFICATION FairSpec
CONSTANTS
  Data <- ServerData
  Halves = {"C"}
  Retries = 0
  SynackRetries = 0
  MaxReq = 1
  MaxBacklog = 1
  MaxNet = 2
  Handlers = 1
PROPERTIES
  ClosingReleased
CHECK_DEADLOCK FALSE
