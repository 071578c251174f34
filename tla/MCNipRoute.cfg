SPECIFICATION Spec
CONSTANTS
  Addr = {any, a}
  AnyAddr = any
  Dev = {d}
  Cpu = {c1}
  Reader = {r1, r2}
  SoftReader = {r1}
  o1 = o1
  o2 = o2
  o3 = o3
  o4 = o4
  Obj = {null, bcast, o1, o2, o3}
  NullEntry = null
  BcastEntry = bcast
  NONE = NONE
SYMMETRY ObjSymmetry
INVARIANTS
  TypeOK
  RefExact
  RcuProtectsLookup
  StaleDetected
  LocalRouteHasAddress
  LocalWins
