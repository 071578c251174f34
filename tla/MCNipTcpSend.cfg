SPECIFICATION FairSpec
CONSTANTS
  M = 32
  MSS = 2
  Isn = {29}
  Bytes = 4
  Sizes = {4}
  InitWnd = {1}
  PeerBuf = 4
  Low = 1
  High = 2
  DupNum = 1
  Retries = 0
  MaxProbes = 1
  MaxFails = 1
  MaxSegs = 1
  MaxAcks = 1
INVARIANTS
  QueueCoversStream
  PacketsOutExact
  TimerCoversQueue
PROPERTIES
  DrainsOrGivesUp
CHECK_DEADLOCK FALSE
