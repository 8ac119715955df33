\* The fs cache, two releases of a chart name different values files.
CONSTANTS
  a = a
  b = b
  r1 = r1
  r2 = r2
  r3 = r3
  r4 = r4
  r5 = r5
  redis = redis
  nginx = nginx
  v1 = v1
  v2 = v2
  Plain = Plain
  Proc = {a}
  Release = {r1, r2}
  Chart = {redis}
  Repo = {"repo"}
  Values = {Plain, v1, v2}
  ProcOf <- MCProcOf
  ChartOf <- OneChartOf
  RepoOf <- MCRepoOf
  Wishes <- Different
  Caches = {"fs"}
  MaxRestarts = 0
SPECIFICATION Spec
INVARIANTS
  BuildDescribesThePath
