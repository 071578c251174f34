SPECIFICATION Spec
CONSTANTS
  MaxNum = 1
  Vnet = {v1, v2}
  File = {f1, f2, f3}
  Thread = {t1, t2}
  None = None
SYMMETRY Interchangeable
INVARIANTS
  SingleOpen
  BitmapMatchesTable
  IdInRange
