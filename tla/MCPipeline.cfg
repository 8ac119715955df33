\* Any build, push or write may fail; any build and the collector may panic.
CONSTANTS
  p1 = p1
  p2 = p2
  r1 = r1
  r2 = r2
  Path <- MCPath
  Release <- MCRelease
  Declares <- MCDeclares
  Workers = 1
  MayPanic <- Builders
SPECIFICATION Spec
INVARIANTS
  TypeOK
  NoSendOnClosed
  NoIndexRace
  NothingLost
  StatusHidesAtMostOneError
PROPERTIES
  ImplementsBatch
  Terminates
