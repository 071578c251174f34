SPECIFICATION FairSpec
CONSTANTS
  Addr = {any, a}
  AnyAddr = any
  Dev = {d1, d2}
  Cpu = {c1, c2}
  Reader = {r1}
  SoftReader = {r1}
  o1 = o1
  o2 = o2
  o3 = o3
  o4 = o4
  Obj = {null, bcast, o1, o2}
  NullEntry = null
  BcastEntry = bcast
  NONE = NONE
INVARIANT
  UniqueRoute
PROPERTY
  Reclaimed
