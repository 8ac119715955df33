\* Nothing panics: the error the reader has yet to record.
CONSTANTS
  p1 = p1
  p2 = p2
  r1 = r1
  r2 = r2
  Path <- MCPath
  Release <- MCRelease
  Declares <- MCDeclares
  Workers = 1
  MayPanic = {}
SPECIFICATION Spec
INVARIANTS
  ErrorsFailTheRun
