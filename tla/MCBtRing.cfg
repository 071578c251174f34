SPECIFICATION FairSpec
CONSTANTS
  Size <- MCSize
  p1 = p1
  p2 = p2
  p3 = p3
  p4 = p4
  r1 = r1
  Packet <- MCPacket
  Reader <- MCReader
  None = None
  StoresInOrder = TRUE
  CopyFaults = TRUE
CHECK_DEADLOCK FALSE
INVARIANT
  TypeOK
PROPERTIES
  FifoSpec
  RingDrains
