\* One process, every cache; the releases of a chart name the same values files.
CONSTANTS
  a = a
  b = b
  r1 = r1
  r2 = r2
  r3 = r3
  r4 = r4
  r5 = r5
  redis = redis
  nginx = nginx
  v1 = v1
  v2 = v2
  Plain = Plain
  Proc = {a}
  Release = {r1, r2, r3, r5}
  Chart = {redis, nginx}
  Repo = {"repo"}
  Values = {Plain, v1, v2}
  ProcOf <- MCProcOf
  ChartOf <- MCChartOf
  RepoOf <- MCRepoOf
  Wishes <- Same
  Caches = {"none", "inmemory", "fs"}
  MaxRestarts = 1
SPECIFICATION Spec
INVARIANTS
  AgreedValuesAreRendered
PROPERTIES
  EveryReleaseEnds
