SPECIFICATION Spec
CONSTANTS
  Addrs <- MCAddrs
  Payloads = {2}
  MaxPad = 1
  MaxExt = 1
  Garbage = {0, 254}
CHECK_DEADLOCK FALSE
INVARIANTS
  HdrFits
  DeliveredIsSent
  WholeIsDelivered
  CutHeaderDropped
  CanonicalAddr
