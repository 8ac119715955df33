\* Two processes share the cache directory and may die once; perhaps one release names other values files.
CONSTANTS
  a = a
  b = b
  r1 = r1
  r2 = r2
  r3 = r3
  r4 = r4
  r5 = r5
  redis = redis
  nginx = nginx
  v1 = v1
  v2 = v2
  Plain = Plain
  Proc = {a, b}
  Release = {r1, r2, r4}
  Chart = {redis}
  Repo = {"repo"}
  Values = {Plain, v1, v2}
  ProcOf <- MCProcOf
  ChartOf <- OneChartOf
  RepoOf <- MCRepoOf
  Wishes <- SameOrOne
  Caches = {"fs"}
  MaxRestarts = 2
SPECIFICATION Spec
INVARIANTS
  TypeOK
  LoadsWholeChart
  NoNeedlessDownload
  OneWriterPerPath
  BuildDescribesThePath
