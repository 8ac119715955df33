\* Two paths that are equal, nested or beside one another; a run may be killed once.
CONSTANTS
  t1 = t1
  t2 = t2
  root = root
  left = left
  leaf = leaf
  right = right
  tmp = tmp
  NoDir = NoDir
  NoFile = NoFile
  Dir = {root, left, leaf, right, tmp}
  Parent <- MCParent
  Task = {t1, t2}
  Paths <- AnyPaths
  Temp = {tmp}
  Trees <- SomeTrees
  MaxCrashes = 1
SPECIFICATION Spec
INVARIANTS
  TypeOK
  UserFilesKept
  TreeRestored
  BuildIsComplete
  OneBuildAtATime
  DisjointPathsBuild
PROPERTIES
  EveryPathEnds
