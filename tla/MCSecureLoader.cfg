\* A chart with links out of it, back into it, into one another and nowhere,
\* under seven ignore files.  Two links of a path are followed, not a third.
CONSTANTS
  Place <- MCPlace
  Parent <- MCParent
  NameOf <- MCNameOf
  Root = 1
  ChartPlace = 2
  Trees <- MCTrees
  IgnoreFiles <- MCIgnoreFiles
  DotFile = {".hidden"}
  MaxLinks = 2
SPECIFICATION Spec
INVARIANTS
  TypeOK
  LoadsTheChart
  FailsForAReason
PROPERTIES
  WalkEnds
