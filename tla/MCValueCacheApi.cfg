\* Every exported method, called at any time.
CONSTANTS
  Key = {k1}
  Caller = {c1, c2, c3}
  Lock = {l1, l2, l3, l4}
  Value = {v1}
  NoItem = NoItem
SPECIFICATION ApiSpec
INVARIANTS
  NeverReturnsALock
