\* Two nested paths without kustomizations, nothing is killed.
CONSTANTS
  t1 = t1
  t2 = t2
  root = root
  left = left
  leaf = leaf
  right = right
  tmp = tmp
  NoDir = NoDir
  NoFile = NoFile
  Dir = {root, left, leaf, right, tmp}
  Parent <- MCParent
  Task = {t1, t2}
  Paths <- Nestings
  Temp = {tmp}
  Trees <- Bare
  MaxCrashes = 0
SPECIFICATION Spec
INVARIANTS
  ChainedPathsBuild
