\* The discipline of the Helm builder: GetOrLock, and SetUnlock after a miss.
CONSTANTS
  Key = {k1, k2}
  Caller = {c1, c2, c3}
  Lock = {l1, l2, l3, l4, l5}
  Value = {v1, v2}
  NoItem = NoItem
SPECIFICATION Spec
INVARIANTS
  TypeOK
  SingleBuilder
  NoLostWakeup
PROPERTIES
  WaitersGetTheValue
  EveryWaitEnds
  ImplementsSingleFlight
