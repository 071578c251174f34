SPECIFICATION Spec
CONSTANTS
  A = A
  B = B
  C = C
  a = a
  x = x
  Node = {A, B, C}
  Addr = {a, x}
  Start <- StartAB
  Flows <- AToX
  Mobile = {x}
  NONE = NONE
  Probes = 2
  MaxMoves = 1
  MaxNet = 3
INVARIANT
  MacWasOwner
PROPERTY
  StaleHealed
