------------------------- MODULE LocalBuilderProofs -------------------------
(***************************************************************************)
(* A proof that the archive a local build reports can be used, and that a  *)
(* build that has nothing to report has left alone what it could:          *)
(* ReportsWhatIsThere, for any charts and any situation.                   *)
(*                                                                         *)
(* The invariant, LInv, says what a build that has come so far may rely    *)
(* on: one that copies has nothing to package, and one that packages a     *)
(* directory has its dependencies, which is where DInv comes in.  With     *)
(* that, RInv and VInv, the types of the whole state are an invariant too, *)
(* and with these that downloads keep apart where they can: Alone says     *)
(* that the one slot there may be has one worker, LeftLast that the place  *)
(* a client's downloads share has the transport of the one that runs.      *)
(***************************************************************************)
EXTENDS DependenciesProofs, RepositoryProofs

\* What is reported is whole, and is what was asked for.
Reported ==
  step = "ok" =>
    LET reported == IF path = "cached" THEN given.cachedChart ELSE out IN
    /\ reported \notin {NoArchive, Torn}
    /\ reported.version = ResolvedVersion
    /\ path = "out" =>
         /\ reported.values = "merged" <=> given.valuesFiles # "none"
         /\ given.dir /\ Cardinality(chart.vendored) # Len(chart.required) =>
              {KeyOf[t] : t \in Required(chart)} \subseteq reported.charts

\* What was at the path is there still, or has been replaced by what is
\* reported, but for the two that write in place.
Kept == path = "out" \/ out = given.before \/ ~RequiresPackaging \/ given.far

\* What a build relies on where it is.
Ready ==
  /\ step \in {"copy", "copying"} => ~RequiresPackaging
  /\ step \in {"package", "writing"} /\ given.dir => built = "ok"
  /\ step = "writing" => given.far
  /\ step # "ok" => path = "none"

LInv == given \in Situations /\ Reported /\ Kept /\ Ready

-----------------------------------------------------------------------------
LEMMA LInitially == Init => LInv
  BY DEF Init, DepInit, LInv, Reported, Kept, Ready

\* What is packaged, or copied, is an archive.
LEMMA PackedAreArchives ==
  ASSUME DInv PROVE Packaged \in Archive /\ Source \in Archive
<1>1. \A t \in Range(added) : t \in Thread
  BY DEF DInv, AddedOnce, Range
<1>2. \A t \in Range(added) : KeyOf[t] \in Range(KeyOf)
  BY <1>1, DependenciesAssumption DEF Range
<1>3. {KeyOf[t] : t \in Range(added)} \subseteq Range(KeyOf)
  BY <1>2
<1>4. chart.vendored \subseteq UNION {c.vendored : c \in Charts}
  BY DEF DInv
<1>5. Packaged \in Archive
  BY <1>3, <1>4 DEF Packaged, Archive, ResolvedVersion
<1>6. Source \in Archive
  BY <1>4 DEF Source, Archive
<1> QED BY <1>5, <1>6

\* So neither is torn.
LEMMA PackedAreWhole ==
  ASSUME DInv PROVE {Packaged, Source} \cap {NoArchive, Torn} = {}
BY PackedAreArchives, LocalAssumption

\* Of a directory all that is required has been packaged.
LEMMA PackagedIsComplete ==
  ASSUME DInv, built = "ok", Cardinality(chart.vendored) # Len(chart.required)
  PROVE  {KeyOf[t] : t \in Required(chart)} \subseteq Packaged.charts
<1>1. CompleteOrFails
  BY AllAddedIsComplete
<1> QED BY <1>1 DEF CompleteOrFails, Packaged

-----------------------------------------------------------------------------
\* A step of the build that only moves on, or fails.
LEMMA BuildMoves ==
  ASSUME LInv, UNCHANGED <<given, chart, built, out, path>>, step # "ok", step' # "ok",
         Ready'
  PROVE  LInv'
  BY DEF LInv, Reported, Kept, RequiresPackaging

\* A step that ends the build with an archive at its path.
LEMMA BuildWrites ==
  ASSUME LInv, DInv, UNCHANGED <<given, chart, built, added>>, step' = "ok", path' = "out",
         \/ out' = Source /\ step = "copying"
         \/ out' = Packaged /\ step \in {"package", "writing"}
  PROVE  LInv'
<1>1. CASE out' = Source /\ step = "copying"
  <2>1. ~RequiresPackaging
    BY <1>1 DEF LInv, Ready
  <2>2. Source.version = "plain" /\ Source.values = "own"
    BY DEF Source
  <2>3. Reported'
    BY <1>1, <2>1, <2>2, PackedAreWhole DEF Reported, RequiresPackaging, ResolvedVersion
  <2> QED BY <2>3 DEF LInv, Kept, Ready
<1>2. CASE out' = Packaged /\ step \in {"package", "writing"}
  <2>1. given.dir => built = "ok"
    BY <1>2 DEF LInv, Ready
  <2>2. /\ Packaged.version = ResolvedVersion
        /\ Packaged.values = "merged" <=> given.valuesFiles # "none"
    BY DEF Packaged
  <2>3. Packaged \notin {NoArchive, Torn}
    BY PackedAreWhole
  <2>4. given.dir /\ Cardinality(chart.vendored) # Len(chart.required) =>
          {KeyOf[t] : t \in Required(chart)} \subseteq Packaged.charts
    BY <2>1, PackagedIsComplete
  <2>5. ResolvedVersion' = ResolvedVersion /\ Required(chart)' = Required(chart)
    BY DEF ResolvedVersion, Required
  <2> HIDE DEF Packaged
  <2>6. Reported'
    BY <1>2, <2>2, <2>3, <2>4, <2>5 DEF Reported
  <2> QED BY <2>6 DEF LInv, Kept, Ready
<1> QED BY <1>1, <1>2

LEMMA BuildKeepsLInv ==
  ASSUME LInv, DInv, ~Over, Build PROVE LInv'
<1> USE DEF Fail, Proceed, Done
<1>1. UNCHANGED <<given, chart, built, added>> /\ step # "ok" /\ path = "none"
  BY DEF Build, CheckReference, CreateCopy, Copy, LoadChart, EndDependencies, PackageChart,
         CopyPackage, Parts, depVars, Over, LInv, Ready
<1>2. ASSUME UNCHANGED <<out, path>>, step' \in {"error", "load", "dependencies"} PROVE LInv'
  BY <1>1, <1>2, BuildMoves DEF Ready
<1>3. CASE CheckReference
  <2>1. CASE step' = "ok"
    BY <1>1, <1>3, <2>1 DEF CheckReference, UsesCached, LInv, Reported, Kept, Ready,
                            ResolvedVersion, RequiresPackaging
  <2>2. CASE step' = "copy"
    BY <1>1, <1>3, <2>2, BuildMoves DEF CheckReference, LInv, Ready, RequiresPackaging
  <2> QED BY <1>2, <1>3, <2>1, <2>2 DEF CheckReference
<1>4. CASE CreateCopy
  <2>1. CASE step' = "copying"
    BY <1>1, <1>4, <2>1 DEF CreateCopy, LInv, Reported, Kept, Ready, RequiresPackaging
  <2> QED BY <1>2, <1>4, <2>1 DEF CreateCopy
<1>5. CASE Copy
  BY <1>1, <1>2, <1>5, BuildWrites DEF Copy
<1>6. CASE LoadChart
  <2>1. CASE step' = "package"
    BY <1>1, <1>6, <2>1, BuildMoves DEF LoadChart, LInv, Ready
  <2> QED BY <1>2, <1>6, <2>1 DEF LoadChart
<1>7. CASE EndDependencies
  <2>1. CASE step' = "package"
    BY <1>1, <1>7, <2>1, BuildMoves DEF EndDependencies, LInv, Ready
  <2> QED BY <1>2, <1>7, <2>1 DEF EndDependencies
<1>8. CASE PackageChart
  <2>1. CASE step' = "writing"
    BY <1>1, <1>8, <2>1 DEF PackageChart, LInv, Reported, Kept, Ready, RequiresPackaging
  <2> QED BY <1>1, <1>2, <1>8, <2>1, BuildWrites DEF PackageChart
<1>9. CASE CopyPackage
  <2>1. ASSUME step' = "error", UNCHANGED path, given.far PROVE LInv'
    BY <1>1, <2>1 DEF LInv, Reported, Kept, Ready
  <2>2. step = "writing" => given.far
    BY DEF LInv, Ready
  <2> QED BY <1>1, <1>2, <1>9, <2>1, <2>2, BuildWrites DEF CopyPackage
<1> QED BY <1>3, <1>4, <1>5, <1>6, <1>7, <1>8, <1>9 DEF Build

\* While the dependencies are added nothing of this moves; once they are, the
\* loop that adds them is over.
LEMMA OthersKeepLInv ==
  ASSUME LInv, UNCHANGED local, chart' = chart, built = "ok" => built' = "ok"
  PROVE  LInv'
<1>1. UNCHANGED <<given, step, out, path>>
  BY DEF local
<1> QED BY <1>1 DEF LInv, Reported, Kept, Ready, ResolvedVersion, RequiresPackaging, Required

LEMMA LInvStep == LInv /\ DInv /\ [Next]_vars => LInv'
<1> SUFFICES ASSUME LInv, DInv, [Next]_vars PROVE LInv'
  OBVIOUS
<1>1. CASE UNCHANGED vars
  BY <1>1, OthersKeepLInv DEF vars, depVars
<1>2. ASSUME Loop, UNCHANGED local PROVE LInv'
  <2>1. built = "ok" => loop = "over"
    BY DEF DInv, Returned
  <2>2. chart' = chart /\ (built = "ok" => built' = "ok")
    BY <1>2, <2>1 DEF Loop, Collect, Acquire, StartWorker, StopStarting, Wait
  <2> QED BY <1>2, <2>2, OthersKeepLInv
<1>3. ASSUME NEW t \in Thread, Worker(t), UNCHANGED local PROVE LInv'
  <2>1. UNCHANGED <<chart, built>>
    BY <1>3 DEF Worker, Resolve, CallClient, LoadArchive, LoadLocal, Add, Release, Report, depVars
  <2> QED BY <1>3, <2>1, OthersKeepLInv
<1>4. ASSUME Cancel \/ CallMethod, UNCHANGED local PROVE LInv'
  BY <1>4, OthersKeepLInv DEF Cancel, CallMethod, depVars
<1>5. CASE ~Over /\ Build
  BY <1>5, BuildKeepsLInv
<1> QED BY <1>1, <1>2, <1>3, <1>4, <1>5 DEF Next, Finished

LEMMA LInvImplies == LInv => ReportsWhatIsThere
<1> SUFFICES ASSUME LInv PROVE ReportsWhatIsThere
  OBVIOUS
<1> QED BY DEF LInv, Reported, Kept, ReportsWhatIsThere

\* The archive that a build reports is whole and has the version, the values
\* and, of a directory, the charts that were asked for, whatever its workers
\* did; a build that fails has left alone what was at its path, unless it
\* writes in place.
THEOREM ReportsAreTrue == Spec => []ReportsWhatIsThere
<1>1. Init => DInv /\ LInv
  BY DInitially, LInitially
<1>2. (DInv /\ LInv) /\ [Next]_vars => (DInv /\ LInv)'
  BY DInvStep, LInvStep
<1>3. Spec => [](DInv /\ LInv)
  BY <1>1, <1>2, PTL DEF Spec
<1> QED BY <1>3, LInvImplies, PTL

-----------------------------------------------------------------------------
(***************************************************************************)
(* Types.                                                                  *)
(***************************************************************************)
\* What the other invariants do not say of the clients, of the dependency
\* manager, and of the build.
ClientTypes ==
  /\ shared \subseteq Repo
  /\ lastOpt \in [Repo -> Transport \cup {NoTransport}]
  /\ cached \in [Repo -> BOOLEAN]
  /\ asking \in Repo \cup {NoRepo}
  /\ \A t \in Thread : picked[t] \in Version \cup {NoVersion, Requested(t)}

ManagerTypes ==
  /\ slots \in Nat \ {0}
  /\ downloaders \in [Repo -> {"absent", "client", "nil"}]
  /\ loop \in {"idle", "collect", "start", "go", "wait", "over"}
  /\ todo \subseteq Required(chart)
  /\ added \in Seq(Required(chart))
  /\ cancelled \in BOOLEAN /\ err \in BOOLEAN /\ crashed \in BOOLEAN
  /\ built \in {"none", "ok", "error"}

BuildTypes ==
  /\ step \in {"check", "copy", "copying", "load", "dependencies", "package", "writing", "ok", "error"}
  /\ out \in Archive \cup {NoArchive, Torn}
  /\ path \in {"none", "cached", "out"}

TInv == ClientTypes /\ ManagerTypes /\ BuildTypes

LEMMA TInitially == Init => TInv
<1> SUFFICES ASSUME Init PROVE TInv
  OBVIOUS
<1> USE DEF Init, DepInit, RepoInit, PoolInit
<1>1. Situation(given)
  BY LocalAssumption
<1>2. /\ given.shared \subseteq Repo /\ given.downloaders \in [Repo -> {"absent", "client"}]
      /\ given.before \in Archive \cup {NoArchive, Torn} /\ given.slots \in Nat \ {0}
  BY <1>1 DEF Situation
<1>3. ClientTypes
  BY <1>2 DEF ClientTypes
<1>4. ManagerTypes
  <2>1. <<>> \in Seq(Required(chart))
    OBVIOUS
  <2>2. downloaders \in [Repo -> {"absent", "client", "nil"}] /\ slots \in Nat \ {0}
    BY <1>2
  <2> QED BY <2>1, <2>2 DEF ManagerTypes
<1>5. BuildTypes
  BY <1>2 DEF BuildTypes
<1> QED BY <1>3, <1>4, <1>5 DEF TInv

\* What is missing is required.
LEMMA MissingIsRequired == ASSUME NEW c PROVE Missing(c) \subseteq Required(c)
BY DEF Missing, Required

LEMMA LendsTyped ==
  ASSUME ClientTypes, NEW t \in Thread, NewOrIdle(t) \/ ReleaseTransport(t) \/ UNCHANGED pool
  PROVE  lastOpt' \in [Repo -> Transport \cup {NoTransport}]
BY DEF ClientTypes, NewOrIdle, ReleaseTransport, Idle, pool

\* A thread that has picked nothing, just what it asked for, or a version that
\* is offered.
LEMMA ClientsTyped ==
  ASSUME ClientTypes, VInv, NEW t \in Thread,
         GetChartVersion(t) \/ AskForChart(t) \/ DownloadChart(t)
  PROVE  ClientTypes'
<1> USE RepositoryAssumption
<1>1. UNCHANGED <<shared, asking>> /\ lastOpt' \in [Repo -> Transport \cup {NoTransport}]
  <2>1. NewOrIdle(t) \/ ReleaseTransport(t) \/ UNCHANGED pool
    BY DEF GetChartVersion, HasIndex, HasFile, AskForIndex, DownloadIndex, CacheIndex, LoadFromPath,
           Lookup, OciVersion, PickVersion, AskForChart, DownloadChart, repoVars
  <2>2. UNCHANGED <<shared, asking>>
    BY DEF GetChartVersion, HasIndex, HasFile, AskForIndex, DownloadIndex, CacheIndex, LoadFromPath,
           Lookup, OciVersion, PickVersion, AskForChart, DownloadChart, repoVars
  <2> QED BY <2>1, <2>2, LendsTyped
<1>2. cached' \in [Repo -> BOOLEAN]
  <2>1. UNCHANGED cached \/ cached' = [cached EXCEPT ![RepoOf[t]] = TRUE]
    BY DEF GetChartVersion, HasIndex, HasFile, AskForIndex, DownloadIndex, CacheIndex, LoadFromPath,
           Lookup, OciVersion, PickVersion, AskForChart, DownloadChart, repoVars, client
  <2> QED BY <2>1 DEF ClientTypes
<1>3. \A u \in Thread : Requested(u)' = Requested(u)
  BY DEF Requested
<1>4. \A u \in Thread : picked'[u] \in Version \cup {NoVersion, Requested(u)}
  <2>1. ASSUME NEW v \in Version \cup {NoVersion, Requested(t)}, PickVersion(t, v)
        PROVE  \A u \in Thread : picked'[u] \in Version \cup {NoVersion, Requested(u)}
    <3>1. picked' = [picked EXCEPT ![t] = v] /\ picked \in [Thread -> AVersion \cup {NoVersion}]
      BY <2>1 DEF PickVersion, VInv
    <3> QED BY <3>1 DEF ClientTypes
  <2>2. CASE Lookup(t)
    <3> DEFINE found == index[RepoOf[t]]
               v == IF found = NoIndex THEN NoVersion ELSE FromIndex[found][t]
    <3>1. PickVersion(t, v) /\ RepoOf[t] \in Repo
      BY <2>2 DEF Lookup, VInv, Known, IndexSteps
    <3>2. found \in DOMAIN Offers \cup {NoIndex}
      BY <3>1 DEF VInv
    <3>3. found \in DOMAIN Offers =>
            FromIndex[found][t] = Pick("index", Offers[found][t], RequestOf[t])
      BY DEF FromIndex, PickOfIndex
    <3>4. v \in Version \cup {NoVersion}
      <4> HIDE DEF found
      <4>1. v = NoVersion \/ (found \in DOMAIN Offers /\ v = Pick("index", Offers[found][t], RequestOf[t]))
        BY <3>2, <3>3
      <4> HIDE DEF v
      <4> QED BY <4>1, OffersVersions
    <3> HIDE DEF v
    <3> QED BY <2>1, <3>1, <3>4
  <2>3. CASE OciVersion(t)
    <3>1. ASSUME NEW rev \in DOMAIN Offers PROVE FromTags[rev][t] \in Version \cup {NoVersion}
      <4>1. FromTags[rev][t] = Pick("tags", Offers[rev][t], RequestOf[t])
        BY DEF FromTags, PickOfTags
      <4> QED BY <4>1, OffersVersions
    <3> QED BY <2>1, <2>3, <3>1 DEF OciVersion
  <2>4. CASE ~Lookup(t) /\ ~OciVersion(t)
    <3>1. UNCHANGED picked
      BY <2>4 DEF GetChartVersion, HasIndex, HasFile, AskForIndex, DownloadIndex, CacheIndex,
                  LoadFromPath, AskForChart, DownloadChart, repoVars
    <3> QED BY <3>1 DEF ClientTypes
  <2> QED BY <2>2, <2>3, <2>4
<1> QED BY <1>1, <1>2, <1>3, <1>4 DEF ClientTypes

LEMMA ManagerTyped ==
  ASSUME TInv, DInv, VInv, Loop \/ (\E t \in Thread : Worker(t)) \/ Cancel \/ CallMethod, UNCHANGED local
  PROVE  TInv'
<1> USE DEF TInv
<1>b. BuildTypes'
  BY DEF BuildTypes, local
<1>u. ASSUME UNCHANGED repoVars PROVE ClientTypes'
  BY <1>u DEF ClientTypes, repoVars, client, pool, Requested
<1>1. CASE Loop \/ Cancel
  <2>1. UNCHANGED <<repoVars, chart, slots, downloaders, added, crashed>>
    BY <1>1 DEF Loop, Collect, Acquire, StartWorker, StopStarting, Wait, Cancel
  <2>2. todo' \subseteq Required(chart)
    BY <1>1, MissingIsRequired DEF Loop, Collect, Acquire, StartWorker, StopStarting, Wait, Cancel, ManagerTypes
  <2>3. /\ loop' \in {"idle", "collect", "start", "go", "wait", "over"}
        /\ cancelled' \in BOOLEAN /\ err' \in BOOLEAN /\ built' \in {"none", "ok", "error"}
    BY <1>1 DEF Loop, Collect, Acquire, StartWorker, StopStarting, Wait, Cancel, ManagerTypes
  <2>4. ManagerTypes'
    BY <2>1, <2>2, <2>3 DEF ManagerTypes, Required
  <2> QED BY <1>b, <1>u, <2>1, <2>4
<1>2. ASSUME NEW t \in Thread, Worker(t) PROVE TInv'
  <2>1. CASE CallClient(t)
    <3>1. ClientTypes'
      BY <2>1, ClientsTyped DEF CallClient
    <3>2. ManagerTypes'
      BY <2>1 DEF CallClient, depVars, group, ManagerTypes, Required
    <3> QED BY <1>b, <3>1, <3>2
  <2>2. CASE Resolve(t)
    <3>1. UNCHANGED <<repoVars, chart, slots, group, added, built>>
      BY <2>2 DEF Resolve
    <3>2. /\ downloaders' \in [Repo -> {"absent", "client", "nil"}]
          /\ crashed' \in BOOLEAN
      BY <2>2 DEF Resolve, ManagerTypes
    <3> QED BY <1>b, <1>u, <3>1, <3>2 DEF ManagerTypes, group, Required
  <2>3. CASE LoadArchive(t) \/ LoadLocal(t) \/ Release(t)
    <3>1. UNCHANGED <<repoVars, depVars>>
      BY <2>3 DEF LoadArchive, LoadLocal, Release
    <3> QED BY <1>b, <1>u, <3>1 DEF ManagerTypes, depVars, group, Required
  <2>4. CASE Report(t)
    <3>1. UNCHANGED <<repoVars, chart, slots, downloaders, loop, todo, added, crashed, built>>
          /\ err' = TRUE /\ cancelled' = TRUE
      BY <2>4 DEF Report
    <3> QED BY <1>b, <1>u, <3>1 DEF ManagerTypes, Required
  <2>5. CASE Add(t)
    <3>1. /\ UNCHANGED <<repoVars, chart, slots, downloaders, group, crashed, built>>
          /\ added' = Append(added, t) /\ at[t] = "add"
      BY <2>5 DEF Add
    <3>2. loop \in {"start", "go", "wait"}
      BY <3>1 DEF DInv, Started, ManagerTypes
    <3>3. t \in Required(chart)
      BY <3>1, <3>2, MissingIsRequired DEF DInv, Started
    <3>4. added' \in Seq(Required(chart))
      <4>1. added \in Seq(Required(chart))
        BY DEF ManagerTypes
      <4> QED BY <3>1, <3>3, <4>1
    <3> QED BY <1>b, <1>u, <3>1, <3>4 DEF ManagerTypes, group, Required
  <2> QED BY <1>2, <2>1, <2>2, <2>3, <2>4, <2>5 DEF Worker
<1>3. CASE CallMethod
  <2>1. PICK r \in Repo : Method(r)
    BY <1>3 DEF CallMethod
  <2>2. /\ UNCHANGED <<shared, picked, pool>>
        /\ cached' \in {cached, [cached EXCEPT ![r] = FALSE]}
        /\ asking' \in {asking, r, NoRepo}
    BY <2>1 DEF Method, DigestBegins, DigestEnds, Invalidate, Clear, client
  <2>3. ClientTypes'
    BY <2>2 DEF ClientTypes, pool, Requested
  <2>4. ManagerTypes'
    BY <1>3 DEF CallMethod, depVars, group, ManagerTypes, Required
  <2> QED BY <1>b, <2>3, <2>4
<1> QED BY <1>1, <1>2, <1>3

LEMMA BuildTyped ==
  ASSUME TInv, DInv, Build PROVE TInv'
<1> USE DEF TInv
<1>1. UNCHANGED <<repoVars, at, chart, slots, downloaders, todo, cancelled, err, added, crashed, built>>
      /\ loop' \in {loop, "collect"}
  BY DEF Build, CheckReference, CreateCopy, Copy, LoadChart, EndDependencies, PackageChart,
         CopyPackage, Fail, Proceed, Done, Parts, depVars, group
<1>2. ClientTypes'
  BY <1>1 DEF ClientTypes, repoVars, client, pool, Requested
<1>3. ManagerTypes'
  BY <1>1 DEF ManagerTypes, Required
<1>4. out' \in {out, Torn, Source, Packaged} /\ path' \in {path, "cached", "out"}
      /\ step' \in {"check", "copy", "copying", "load", "dependencies", "package", "writing", "ok", "error"}
  BY DEF Build, CheckReference, CreateCopy, Copy, LoadChart, EndDependencies, PackageChart,
         CopyPackage, Fail, Proceed, Done
<1>5. BuildTypes'
  BY <1>4, PackedAreArchives DEF BuildTypes
<1> QED BY <1>2, <1>3, <1>5

LEMMA TInvStep == TInv /\ DInv /\ VInv /\ [Next]_vars => TInv'
<1> SUFFICES ASSUME TInv, DInv, VInv, [Next]_vars PROVE TInv'
  OBVIOUS
<1>1. CASE UNCHANGED vars
  BY <1>1 DEF vars, repoVars, client, pool, depVars, group, local, TInv, ClientTypes, ManagerTypes,
              BuildTypes, Required, Requested
<1>2. CASE Next
  BY <1>1, <1>2, ManagerTyped, BuildTyped DEF Next, Finished
<1> QED BY <1>1, <1>2

\* The state of a build keeps its types: the dependencies added are required
\* ones, a version picked is one that was offered or asked for, and no client
\* in the map is anything but a client or the nil of a callback that failed.
THEOREM BuildTypeCorrect == Spec => []TypeOK
<1>1. Init => RInv /\ VInv /\ DInv /\ LInv /\ TInv
  BY Initially, VInitially, DInitially, LInitially, TInitially
<1>2. (RInv /\ VInv /\ DInv /\ LInv /\ TInv) /\ [Next]_vars => (RInv /\ VInv /\ DInv /\ LInv /\ TInv)'
  BY RInvStep, VInvStep, DInvStep, LInvStep, TInvStep
<1>3. RInv /\ VInv /\ DInv /\ LInv /\ TInv => TypeOK
  <2> SUFFICES ASSUME RInv, VInv, DInv, LInv, TInv PROVE TypeOK
    OBVIOUS
  <2>1. Situation(given)
    BY LocalAssumption DEF LInv
  <2>2. RepoTypeOK
    BY DEF RInv, FileInv, RepoTypes, PoolInv, TInv, ClientTypes, RepoTypeOK, PoolTypeOK
  <2>3. DepTypeOK
    BY <2>2 DEF DInv, RInv, StartInv, TInv, ManagerTypes, DepTypeOK
  <2> QED BY <2>1, <2>2, <2>3 DEF TInv, BuildTypes, TypeOK
<1> QED BY <1>1, <1>2, <1>3, PTL DEF Spec

-----------------------------------------------------------------------------
(***************************************************************************)
(* Downloads that find their transport in one place.                       *)
(***************************************************************************)
\* One slot has one worker, and none when it is given away.
Alone ==
  slots = 1 => (\A s, t \in Busy : s = t) /\ (loop = "go" => Busy = {})

\* The transport found in a shared place is that of the download that runs.
LeftLast ==
  ~MayOverlap =>
    \A t \in Thread : lent[t] # NoTransport /\ RepoOf[t] \in shared => lastOpt[RepoOf[t]] = lent[t]

OInv == Alone /\ LeftLast

\* Whoever has a slot is the worker of a dependency of the chart.
LEMMA BusyIsRequired ==
  ASSUME TInv, DInv, NEW t \in Busy PROVE t \in Required(chart)
<1>1. t \in Thread /\ at[t] \in Holding /\ at[t] \notin {"none", "done", "error"}
  BY DEF Busy, Holding, RepoSteps
<1>2. loop \in {"start", "go", "wait"}
  BY <1>1 DEF DInv, Started, TInv, ManagerTypes
<1>3. t \in Missing(chart)
  BY <1>1, <1>2 DEF DInv, Started
<1> QED BY <1>3, MissingIsRequired

LEMMA BusyIsFinite == ASSUME TInv, DInv PROVE IsFiniteSet(Busy)
<1> DEFINE n == Len(chart.required)
<1>1. chart.required \in Seq(Thread) /\ n \in Nat /\ DOMAIN chart.required = 1..n
  BY DependenciesAssumption DEF DInv
<1>2. chart.required \in [1..n -> Required(chart)]
      /\ \A t \in Required(chart) : \E i \in 1..n : chart.required[i] = t
  BY <1>1 DEF Required
<1>3. IsFiniteSet(1..n)
  BY <1>1, FS_Interval
<1>4. chart.required \in Surjection(1..n, Required(chart))
  BY <1>2 DEF Surjection
<1>5. IsFiniteSet(Required(chart))
  BY <1>3, <1>4, FS_Surjection
<1>6. Busy \subseteq Required(chart)
  BY BusyIsRequired
<1> QED BY <1>5, <1>6, FS_Subset

LEMMA OInitially == Init => OInv
<1> SUFFICES ASSUME Init PROVE OInv
  OBVIOUS
<1>1. Busy = {} /\ loop = "idle"
  BY DEF Init, DepInit, Busy, Holding, RepoSteps
<1>2. \A t \in Thread : lent[t] = NoTransport
  BY DEF Init, DepInit, RepoInit, PoolInit
<1> QED BY <1>1, <1>2 DEF OInv, Alone, LeftLast

\* A worker that moves has its slot already; only StartWorker gives one.
LEMMA AloneStep ==
  ASSUME TInv, DInv, Alone, [Next]_vars PROVE Alone'
<1>u. ASSUME UNCHANGED slots, \A t \in Thread : at'[t] \in Holding => at[t] \in Holding,
             loop' = "go" => loop = "go"
      PROVE  Alone'
  BY <1>u DEF Alone, Busy
<1>1. CASE UNCHANGED vars \/ Build \/ Cancel \/ CallMethod \/ Collect \/ StopStarting \/ Wait
  <2>1. UNCHANGED <<slots, at>> /\ loop' \in {loop, "collect", "over", "start", "wait"}
    BY <1>1 DEF vars, depVars, group, Build, CheckReference, CreateCopy, Copy, LoadChart,
         EndDependencies, PackageChart, CopyPackage, Fail, Proceed, Done, Parts, Cancel,
         CallMethod, Method, DigestBegins, DigestEnds, Invalidate, Clear, Collect, StopStarting, Wait
  <2> QED BY <1>u, <2>1
<1>2. CASE Acquire
  <2>1. UNCHANGED <<slots, at>> /\ Cardinality(Busy) < slots
    BY <1>2 DEF Acquire
  <2>2. slots = 1 => Busy = {}
    <3>1. IsFiniteSet(Busy) /\ Cardinality(Busy) \in Nat
      BY BusyIsFinite, FS_CardinalityType
    <3>2. slots = 1 => Cardinality(Busy) = 0
      BY <2>1, <3>1
    <3> QED BY <3>1, <3>2, FS_EmptySet
  <2>3. Busy' = Busy
    BY <2>1 DEF Busy
  <2> QED BY <2>1, <2>2, <2>3 DEF Alone
<1>3. ASSUME NEW t \in Thread, StartWorker(t) PROVE Alone'
  <2>1. UNCHANGED slots /\ loop = "go" /\ loop' # "go"
        /\ \A s \in Thread \ {t} : at'[s] = at[s]
    BY <1>3 DEF StartWorker, DInv
  <2>2. slots = 1 => \A s \in Busy' : s = t
    BY <2>1 DEF Alone, Busy
  <2> QED BY <2>1, <2>2 DEF Alone
<1>4. ASSUME NEW t \in Thread, Worker(t) PROVE Alone'
  <2>1. UNCHANGED <<slots, loop>>
    BY <1>4 DEF Worker, Resolve, CallClient, LoadArchive, LoadLocal, Add, Release, Report, depVars, group
  <2>2. at[t] \in Holding \/ (at[t] = "report" /\ at'[t] = "error")
    BY <1>4 DEF Worker, Resolve, CallClient, GetChartVersion, HasIndex, HasFile, AskForIndex,
         DownloadIndex, CacheIndex, LoadFromPath, Lookup, OciVersion, AskForChart, DownloadChart,
         LoadArchive, LoadLocal, Add, Release, Report, Holding, RepoSteps, Goto, DInv
  <2>3. \A s \in Thread \ {t} : at'[s] = at[s]
    <3>1. UNCHANGED at \/ \E there : Goto(t, there)
      BY <1>4 DEF Worker, Resolve, Ask, CallClient, GetChartVersion, HasIndex, HasFile, AskForIndex,
           DownloadIndex, CacheIndex, LoadFromPath, Lookup, OciVersion, PickVersion, AskForChart,
           DownloadChart, LoadArchive, LoadLocal, Add, Release, Report
    <3> QED BY <3>1 DEF Goto, DInv
  <2>4. "error" \notin Holding
    BY DEF Holding, RepoSteps
  <2> QED BY <1>u, <2>1, <2>2, <2>3, <2>4
<1> QED BY <1>1, <1>2, <1>3, <1>4 DEF Next, Finished, Loop

\* A step that lends nothing leaves what the shared places have.  Which downloads
\* may overlap never changes.
LEMMA LeftAlone ==
  ASSUME LeftLast, UNCHANGED <<chart, slots, shared, lastOpt>>,
         \A t \in Thread : lent'[t] \in {lent[t], NoTransport}
  PROVE  LeftLast'
BY DEF LeftLast, MayOverlap, Required

LEMMA LeftByLender ==
  ASSUME RInv, TInv, DInv, Alone, LeftLast, NEW t \in Busy, NewOrIdle(t),
         UNCHANGED <<chart, slots, shared>>
  PROVE  LeftLast'
<1> USE TransportAssumption
<1>1. PICK u \in Idle :
        /\ lent' = [lent EXCEPT ![t] = u]
        /\ lastOpt' = IF RepoOf[t] \in shared THEN [lastOpt EXCEPT ![RepoOf[t]] = u] ELSE lastOpt
  BY DEF NewOrIdle
<1>2. t \in Thread /\ lent \in [Thread -> Transport \cup {NoTransport}] /\ shared \subseteq Repo
      /\ lastOpt \in [Repo -> Transport \cup {NoTransport}]
  BY DEF Busy, RInv, PoolInv, TInv, ClientTypes
<1>3. MayOverlap' = MayOverlap
  BY DEF MayOverlap, Required
<1>4. ASSUME ~MayOverlap, NEW s \in Thread \ {t}, lent[s] # NoTransport, RepoOf[s] \in shared
      PROVE  RepoOf[s] # RepoOf[t]
  <2>1. s \in Busy
    BY <1>4 DEF RInv, PoolInv, HasTransport, Busy, Holding, RepoSteps
  <2>2. CASE slots = 1
    BY <1>4, <2>1, <2>2 DEF Alone
  <2>3. CASE slots > 1
    BY <1>4, <2>1, <2>3, BusyIsRequired DEF MayOverlap
  <2> QED BY <2>2, <2>3 DEF TInv, ManagerTypes
<1>5. ASSUME ~MayOverlap, NEW s \in Thread, lent'[s] # NoTransport, RepoOf[s] \in shared
      PROVE  lastOpt'[RepoOf[s]] = lent'[s]
  <2>1. CASE s = t
    BY <1>1, <1>2, <1>5, <2>1
  <2>2. CASE s # t
    <3>1. lent'[s] = lent[s] /\ lent[s] # NoTransport
      BY <1>1, <1>2, <1>5, <2>2
    <3>2. RepoOf[s] # RepoOf[t] /\ lastOpt[RepoOf[s]] = lent[s]
      BY <1>4, <1>5, <2>2, <3>1 DEF LeftLast
    <3> QED BY <1>1, <1>2, <1>5, <3>1, <3>2
  <2> QED BY <2>1, <2>2
<1> QED BY <1>3, <1>5 DEF LeftLast

LEMMA LeftStep ==
  ASSUME RInv, TInv, DInv, Alone, LeftLast, [Next]_vars PROVE LeftLast'
<1>1. CASE UNCHANGED vars \/ Build \/ Cancel \/ CallMethod \/ Loop
  <2>1. UNCHANGED <<chart, slots, shared, lastOpt, lent>>
    BY <1>1 DEF vars, depVars, group, repoVars, pool, Build, CheckReference, CreateCopy, Copy,
         LoadChart, EndDependencies, PackageChart, CopyPackage, Fail, Proceed, Done, Parts, Cancel,
         CallMethod, Method, DigestBegins, DigestEnds, Invalidate, Clear, Loop, Collect, Acquire,
         StartWorker, StopStarting, Wait
  <2> QED BY <2>1, LeftAlone
<1>2. ASSUME NEW t \in Thread, Worker(t) PROVE LeftLast'
  <2>1. UNCHANGED <<chart, slots, shared>>
    BY <1>2 DEF Worker, Resolve, CallClient, GetChartVersion, HasIndex, HasFile, AskForIndex,
         DownloadIndex, CacheIndex, LoadFromPath, Lookup, OciVersion, PickVersion, AskForChart,
         DownloadChart, LoadArchive, LoadLocal, Add, Release, Report, depVars, repoVars
  <2>2. UNCHANGED pool \/ ReleaseTransport(t) \/ (NewOrIdle(t) /\ at[t] \in {"download", "found"})
    BY <1>2 DEF Worker, Resolve, CallClient, GetChartVersion, HasIndex, HasFile, AskForIndex,
         DownloadIndex, CacheIndex, LoadFromPath, Lookup, OciVersion, PickVersion, AskForChart,
         DownloadChart, LoadArchive, LoadLocal, Add, Release, Report, depVars, repoVars
  <2>3. CASE UNCHANGED pool
    BY <2>1, <2>3, LeftAlone DEF pool
  <2>4. CASE ReleaseTransport(t)
    <3>1. UNCHANGED lastOpt /\ \A s \in Thread : lent'[s] \in {lent[s], NoTransport}
      BY <2>4 DEF ReleaseTransport, RInv, PoolInv
    <3> QED BY <2>1, <3>1, LeftAlone
  <2>5. CASE NewOrIdle(t) /\ at[t] \in {"download", "found"}
    <3>1. t \in Busy
      BY <2>5 DEF Busy, Holding, RepoSteps
    <3> QED BY <2>1, <2>5, <3>1, LeftByLender
  <2> QED BY <2>2, <2>3, <2>4, <2>5
<1> QED BY <1>1, <1>2 DEF Next, Finished

\* So a download finds the transport it has borrowed, which is its own.
LEMMA OInvImplies == ASSUME RInv, LeftLast PROVE TransportsApart
<1> SUFFICES ASSUME ~MayOverlap PROVE OwnTransport
  BY DEF TransportsApart
<1>1. \A t \in Thread : lent[t] # NoTransport => Uses(t) = lent[t]
  BY DEF LeftLast, Uses
<1> QED BY <1>1 DEF OwnTransport, RInv, PoolInv

\* Where no two downloads of a client that shares the place of its transport
\* can overlap (there is one slot, or the chart has one dependency of each
\* such client), a download goes through a transport no other goes through,
\* with the TLS configuration of its client; and none is left in the pool.
THEOREM TransportsAreLent == Spec => []TransportsApart
<1>1. Init => RInv /\ VInv /\ DInv /\ TInv /\ OInv
  BY Initially, VInitially, DInitially, TInitially, OInitially
<1>2. (RInv /\ VInv /\ DInv /\ TInv /\ OInv) /\ [Next]_vars => (RInv /\ VInv /\ DInv /\ TInv /\ OInv)'
  BY RInvStep, VInvStep, DInvStep, TInvStep, AloneStep, LeftStep DEF OInv
<1>3. RInv /\ VInv /\ DInv /\ TInv /\ OInv => TransportsApart
  BY OInvImplies DEF OInv
<1> QED BY <1>1, <1>2, <1>3, PTL DEF Spec
=============================================================================
