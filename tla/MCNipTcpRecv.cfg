SPECIFICATION Spec
CONSTANTS
  N = 5
  Segment <- Split
  Mss = 1
  RcvBuf = 8
  Overhead = 2
  Ssthresh = 4
  Wscale = 1
  AckNum = 2
  DupAckSndMax = 2
INVARIANTS
  TypeOK
  
  
  OfoOrdered
PROPERTIES
  WindowNeverShrinks
  AllDelivered
