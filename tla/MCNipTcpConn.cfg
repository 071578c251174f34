SPECIFICATION FairSpec
CONSTANTS
  Data <- ServerData
  Halves = {"C"}
  Retries = 0
  SynackRetries = 0
  MaxReq = 2
  MaxBacklog = 1
  MaxNet = 1
  Handlers = 2
CHECK_DEADLOCK FALSE
INVARIANTS
  PeersAgree
  DestroyedOnce
PROPERTIES
  OneChild
  OrphanReleased
