\* One or two slots for up to three dependencies; an HTTP client may be cleared
\* at any time.
CONSTANTS
  d1 = d1
  d2 = d2
  d3 = d3
  d4 = d4
  neighbour = neighbour
  http = http
  oci = oci
  f1 = f1
  f2 = f2
  f3 = f3
  all = all
  some = some
  bad = bad
  NoRepo = NoRepo
  NoFile = NoFile
  NoIndex = NoIndex
  NoVersion = NoVersion
  NoTransport = NoTransport
  NoArchive = NoArchive
  Torn = Torn
  Repo = {http, oci}
  OciRepo = {oci}
  Thread <- MCThread
  RepoOf <- MCRepoOf
  RequestOf <- MCRequestOf
  Transport = {u1, u2}
  File = {f1, f2, f3}
  Revision = {all, some, bad}
  Offers <- MCOffers
  KeyOf <- MCKeyOf
  Charts <- MCCharts
  Situations <- MCSituations
SPECIFICATION Spec
INVARIANTS
  TypeOK
  IndexOfTheFile
  DigestOfTheFile
  CompleteOrFails
  LatestVersion
  TransportsApart
  ReportsWhatIsThere
PROPERTIES
  BuildEnds
