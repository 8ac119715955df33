\* The in-memory cache, one of three releases of a chart names values files.
CONSTANTS
  a = a
  b = b
  r1 = r1
  r2 = r2
  r3 = r3
  r4 = r4
  r5 = r5
  redis = redis
  nginx = nginx
  v1 = v1
  v2 = v2
  Plain = Plain
  Proc = {a}
  Release = {r1, r2, r3}
  Chart = {redis}
  Repo = {"repo"}
  Values = {Plain, v1, v2}
  ProcOf <- MCProcOf
  ChartOf <- OneChartOf
  RepoOf <- MCRepoOf
  Wishes <- One
  Caches = {"inmemory"}
  MaxRestarts = 0
SPECIFICATION Spec
INVARIANTS
  RendersOwnValues
