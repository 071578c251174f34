SPECIFICATION FairSpec
CONSTANTS
  Dev = {lo, d}
  Lo = lo
  Managed = {d}
  Addr = {a}
  Idev = {i0, i1}
  Ifa = {f1}
  Dst = {o1, o2}
  Proc = {p}
  Soft = {s}
  Sat = Sat
  NONE = NONE
INVARIANTS
  IdevCounted
  ReadersSafe
PROPERTY
  DeviceReleased
