----------------------------- MODULE ChartBuild -----------------------------
(***************************************************************************)
(* How the chart of a HelmRelease gets from a repository to the renderer:  *)
(* Helm.Build and buildFromHelmRepository of internal/build/helm.go, the   *)
(* three chart caches of internal/helm/chart/cache, and the remote builder *)
(* of internal/helm/chart/builder_remote.go.                               *)
(*                                                                         *)
(* A release asks the chart cache for a path, and with it for the lock of  *)
(* its chart; asks the repository cache for a client of its repository;    *)
(* resolves the version; takes the chart at the path if name and version   *)
(* match, or downloads and packages it to the path; gives both locks back; *)
(* and then loads the path again to render it.  The locks of the in-memory *)
(* caches belong to a process and behave as SingleFlight (ValueCache       *)
(* implements it); those of the fs cache are file locks, shared with other *)
(* processes that use the same directory.  A process may die and be run    *)
(* again at any time.                                                      *)
(*                                                                         *)
(* A chart archive is abstracted to the values files it was packaged with. *)
(***************************************************************************)
EXTENDS Naturals, FiniteSets

CONSTANTS
  Proc,         \* processes of flux-build
  Release,      \* the HelmReleases they build
  Chart,        \* repository, name and version of a chart: the cache key
  Repo,         \* chart repositories
  Values,       \* the lists of values files a release may name
  Plain,        \* the empty list
  ProcOf,       \* the process that builds a release
  ChartOf,      \* the chart a release uses
  RepoOf,       \* the repository of a chart
  Wishes,       \* what the releases may ask for: functions to their values files
  Caches,       \* the cache types to consider
  MaxRestarts   \* bound on how often processes die

NoFile == "no file"      \* nothing is there
Torn == "torn"           \* the first part of an archive
NoOne == "no one"

ASSUME ChartBuildAssumption ==
  /\ ProcOf \in [Release -> Proc]
  /\ ChartOf \in [Release -> Chart]
  /\ RepoOf \in [Chart -> Repo]
  /\ Plain \in Values
  /\ Wishes \subseteq [Release -> Values]
  /\ Caches \subseteq {"none", "inmemory", "fs"}
  /\ MaxRestarts \in Nat
  /\ NoOne \notin Release /\ {NoFile, Torn} \cap Values = {} /\ {"own", "fs"} \cap Proc = {}

VARIABLES
  cache,       \* --cache
  wants,       \* the values files each release names
  crossDevice, \* whether the cache directory and $TMPDIR are on two devices
  file,        \* what each path holds
  flock,       \* fs: the release that holds the lock file of a chart
  memo,        \* inmemory: the entry of a chart in each process
  repos,       \* the entry of a repository in each process's repoCache
  pc,          \* where each release is
  path,        \* the path it was given
  key,         \* whether the key it was given is not nil
  uncached,    \* uncachedChart
  rendered,    \* the values files of the chart it rendered
  restarts

setup == <<cache, wants, crossDevice>>
locks == <<flock, memo, repos>>
result == <<path, key, uncached, rendered>>
vars == <<setup, file, locks, pc, result, restarts>>

Entry == {"absent", "locked", "stored"}

\* A path that carries random bytes belongs to who asked for it; the others
\* are found by everyone who asks for the chart.
Own(r) == <<"own", r>>
Shared(r) == IF cache = "fs" THEN <<"fs", ChartOf[r]>> ELSE <<ProcOf[r], ChartOf[r]>>
Path == ({"own"} \X Release) \cup (({"fs"} \cup Proc) \X Chart)

MemoOf(r) == <<ProcOf[r], ChartOf[r]>>
RepoKey(r) == <<ProcOf[r], RepoOf[ChartOf[r]]>>

Whole(content) == content \in Values

\* Mutant of VersionMetadata: no metadata is ever set.
NoMetadata(v) == ""

\* VersionMetadata is obj.Generation, 0 for the HelmChart made up by
\* buildChart, and set only when there are values files.
VersionMetadata(v) == IF v = Plain THEN "" ELSE "0"

TypeOK ==
  /\ cache \in Caches /\ wants \in Wishes /\ crossDevice \in BOOLEAN
  /\ file \in [Path -> Values \cup {NoFile, Torn}]
  /\ flock \in [Chart -> Release \cup {NoOne}]
  /\ memo \in [Proc \X Chart -> Entry]
  /\ repos \in [Proc \X Repo -> Entry]
  /\ pc \in [Release -> {"start", "lock", "stat", "client", "setup", "resolve", "download", "copy",
                         "unlockRepo", "unlockChart", "failRepo", "failChart", "compose", "load",
                         "done", "failed"}]
  /\ path \in [Release -> Path]
  /\ key \in [Release -> BOOLEAN] /\ uncached \in [Release -> BOOLEAN]
  /\ rendered \in [Release -> Values \cup {NoFile}]
  /\ restarts \in 0..MaxRestarts

\* A cache directory may hold what earlier runs left; the temporary
\* directories are new.
Init ==
  /\ cache \in Caches
  /\ wants \in Wishes
  /\ crossDevice \in IF cache = "fs" THEN BOOLEAN ELSE {FALSE}
  /\ file = [p \in Path |-> NoFile]
  /\ flock = [c \in Chart |-> NoOne]
  /\ memo = [m \in Proc \X Chart |-> "absent"]
  /\ repos = [m \in Proc \X Repo |-> "absent"]
  /\ pc = [r \in Release |-> "start"]
  /\ path = [r \in Release |-> Own(r)]
  /\ key = [r \in Release |-> FALSE] /\ uncached = [r \in Release |-> FALSE]
  /\ rendered = [r \in Release |-> NoFile]
  /\ restarts = 0

-----------------------------------------------------------------------------
From(r, here) == pc[r] = here
Goto(r, there) == pc' = [pc EXCEPT ![r] = there]

\* What every step of a release but the locking ones leaves alone.
Private == UNCHANGED <<setup, locks, restarts>>

(***************************************************************************)
(* Build, before it comes to the caches: the HelmRelease and the           *)
(* HelmRepository it names are looked up and decoded.                      *)
(***************************************************************************)
LookUpSource(r) ==
  /\ From(r, "start")
  /\ Goto(r, "lock") \/ Goto(r, "failed")
  /\ UNCHANGED <<file, result>> /\ Private

(***************************************************************************)
(* h.cache.GetOrLock.                                                      *)
(***************************************************************************)
GivePath(r, p, hasKey) ==
  /\ path' = [path EXCEPT ![r] = p]
  /\ key' = [key EXCEPT ![r] = hasKey]
  /\ Goto(r, "stat")
  /\ UNCHANGED <<setup, file, repos, uncached, rendered, restarts>>

\* Null: a path of its own, no lock.
GetNull(r) ==
  /\ From(r, "lock") /\ cache = "none"
  /\ GivePath(r, Own(r), FALSE)
  /\ UNCHANGED <<flock, memo>>

\* Mutant of GetFS: the lock file is not locked.
GetFSNoLock(r) ==
  /\ From(r, "lock") /\ cache = "fs"
  /\ GivePath(r, Shared(r), TRUE)
  /\ UNCHANGED <<flock, memo>>

\* FS: the path of the chart, once the lock file beside it is locked.
GetFS(r) ==
  /\ From(r, "lock") /\ cache = "fs"
  /\ flock[ChartOf[r]] = NoOne
  /\ flock' = [flock EXCEPT ![ChartOf[r]] = r]
  /\ GivePath(r, Shared(r), TRUE)
  /\ UNCHANGED memo

\* FS: the lock file cannot be opened.
GetFSFails(r) ==
  /\ From(r, "lock") /\ cache = "fs"
  /\ Goto(r, "failed")
  /\ UNCHANGED <<file, result>> /\ Private

\* InMemory, the chart is new: a fresh path and the lock.
GetMemoryMiss(r) ==
  /\ From(r, "lock") /\ cache = "inmemory"
  /\ memo[MemoOf(r)] = "absent"
  /\ memo' = [memo EXCEPT ![MemoOf(r)] = "locked"]
  /\ GivePath(r, Own(r), TRUE)
  /\ UNCHANGED flock

\* InMemory, SetUnlock has stored a path: that path and a nil key.  While
\* the chart is locked the caller waits.
GetMemoryHit(r) ==
  /\ From(r, "lock") /\ cache = "inmemory"
  /\ memo[MemoOf(r)] = "stored"
  /\ GivePath(r, Shared(r), FALSE)
  /\ UNCHANGED <<flock, memo>>

GetOrLock(r) ==
  GetNull(r) \/ GetFS(r) \/ GetFSFails(r) \/ GetMemoryMiss(r) \/ GetMemoryHit(r)

(***************************************************************************)
(* buildFromHelmRepository, between the two locks and their release.       *)
(***************************************************************************)
\* uncachedChart: there is no file at the path.
Stat(r) ==
  /\ From(r, "stat")
  /\ uncached' = [uncached EXCEPT ![r] = file[path[r]] = NoFile]
  /\ Goto(r, "client")
  /\ UNCHANGED <<file, path, key, rendered>> /\ Private

\* repoCache.GetOrLock.  The deferred SetUnlock has its arguments evaluated
\* here, before there is a client, so what it will store is nil; a caller
\* that finds nil sets up a client of its own without the lock.
GetRepo(r) ==
  /\ From(r, "client")
  /\ repos[RepoKey(r)] # "locked"
  /\ repos' = [repos EXCEPT ![RepoKey(r)] = IF @ = "absent" THEN "locked" ELSE @]
  /\ Goto(r, "setup")
  /\ UNCHANGED <<setup, file, flock, memo, result, restarts>>

\* Secret, credentials, login, NewChartRepository: any of it may fail.
SetUpClient(r) ==
  /\ From(r, "setup")
  /\ Goto(r, "resolve") \/ Goto(r, "failRepo")
  /\ UNCHANGED <<file, result>> /\ Private

\* Mutants of Accepts: the metadata of the file is not read; Force is set.
AcceptsAnyFile(r) == ~uncached[r]

AcceptsNothing(r) == FALSE

\* GetChartVersion and generateBuildResult: the chart at the path will do
\* when its metadata can be read and carries the wanted name and version.
Accepts(r) ==
  /\ ~uncached[r]
  /\ Whole(file[path[r]])
  /\ VersionMetadata(file[path[r]]) = VersionMetadata(wants[r])

\* What is not accepted is downloaded; any error ends with both locks released.
Resolve(r) ==
  /\ From(r, "resolve")
  /\ \/ Goto(r, IF Accepts(r) THEN "unlockRepo" ELSE "download")
     \/ Goto(r, "failRepo")
  /\ UNCHANGED <<file, result>> /\ Private

\* The archive mergeChartValues and packageToPath make, or the one downloaded.
Packaged(r) == wants[r]

\* Mutant of Download: the literal chart is written, values files or not.
DownloadLiteral(r) ==
  /\ From(r, "download")
  /\ ~crossDevice
  /\ file' = [file EXCEPT ![path[r]] = Plain]
  /\ Goto(r, "unlockRepo")
  /\ UNCHANGED result /\ Private

\* DownloadChart, mergeChartValues, and the packaged chart moved to the path
\* by a rename, or copied there when the rename would cross devices.
Download(r) ==
  /\ From(r, "download")
  /\ \/ /\ ~crossDevice
        /\ file' = [file EXCEPT ![path[r]] = Packaged(r)]
        /\ Goto(r, "unlockRepo")
     \/ /\ crossDevice
        /\ file' = [file EXCEPT ![path[r]] = Torn]
        /\ Goto(r, "copy")
     \/ Goto(r, "failRepo") /\ UNCHANGED file
  /\ UNCHANGED result /\ Private

\* copyFile reaches the end of the archive, after which the mode or the
\* removal of the original may still fail; or it fails on the way.
Copy(r) ==
  /\ From(r, "copy")
  /\ \/ /\ file' = [file EXCEPT ![path[r]] = Packaged(r)]
        /\ Goto(r, "unlockRepo") \/ Goto(r, "failRepo")
     \/ Goto(r, "failRepo") /\ UNCHANGED file
  /\ UNCHANGED result /\ Private

(***************************************************************************)
(* The deferred calls, last one first, after a success or a failure.       *)
(***************************************************************************)
\* Mutant of UnlockRepo: the entry becomes the client of the caller.
UnlockRepoStoresClient(r) ==
  /\ From(r, "unlockRepo") /\ Goto(r, "unlockChart")
  /\ repos' = [repos EXCEPT ![RepoKey(r)] = r]
  /\ UNCHANGED <<setup, file, flock, memo, result, restarts>>

UnlockRepo(r) ==
  /\ \/ From(r, "unlockRepo") /\ Goto(r, "unlockChart")
     \/ From(r, "failRepo") /\ Goto(r, "failChart")
  /\ repos' = [repos EXCEPT ![RepoKey(r)] = "stored"]
  /\ UNCHANGED <<setup, file, flock, memo, result, restarts>>

\* Mutant of UnlockChart: SetUnlock is not deferred, a failure skips it.
UnlockChartNotDeferred(r) ==
  /\ \/ From(r, "unlockChart") /\ Goto(r, "compose")
     \/ From(r, "failChart") /\ Goto(r, "failed")
  /\ LET unlock == key[r] /\ From(r, "unlockChart") IN
     /\ flock' = IF unlock /\ cache = "fs" THEN [flock EXCEPT ![ChartOf[r]] = NoOne] ELSE flock
     /\ memo' = IF unlock /\ cache = "inmemory"
                THEN [memo EXCEPT ![MemoOf(r)] = "stored"] ELSE memo
  /\ UNCHANGED <<setup, file, repos, result, restarts>>

\* h.cache.SetUnlock: FS unlocks the lock file; InMemory stores a path it
\* makes up anew; a nil key unlocks nothing.
UnlockChart(r) ==
  /\ \/ From(r, "unlockChart") /\ Goto(r, "compose")
     \/ From(r, "failChart") /\ Goto(r, "failed")
  /\ flock' = IF key[r] /\ cache = "fs" THEN [flock EXCEPT ![ChartOf[r]] = NoOne] ELSE flock
  /\ memo' = IF key[r] /\ cache = "inmemory"
             THEN [memo EXCEPT ![MemoOf(r)] = "stored"] ELSE memo
  /\ UNCHANGED <<setup, file, repos, result, restarts>>

(***************************************************************************)
(* The rest of Build, without the locks: composeValues, and renderRelease, *)
(* which reads the path again.                                             *)
(***************************************************************************)
Compose(r) ==
  /\ From(r, "compose")
  /\ Goto(r, "load") \/ Goto(r, "failed")
  /\ UNCHANGED <<file, result>> /\ Private

Render(r) ==
  /\ From(r, "load")
  /\ \/ /\ Whole(file[path[r]])
        /\ rendered' = [rendered EXCEPT ![r] = file[path[r]]]
        /\ Goto(r, "done")
     \/ Goto(r, "failed") /\ UNCHANGED rendered
  /\ UNCHANGED <<file, path, key, uncached>> /\ Private

Step(r) ==
  \/ LookUpSource(r) \/ GetOrLock(r) \/ Stat(r) \/ GetRepo(r) \/ SetUpClient(r) \/ Resolve(r)
  \/ Download(r) \/ Copy(r) \/ UnlockRepo(r) \/ UnlockChart(r)
  \/ Compose(r) \/ Render(r)

(***************************************************************************)
(* Process p ends, killed or not, and is run again: its memory, its locks  *)
(* and its temporary directories are gone, the cache directory stays.      *)
(***************************************************************************)
Restart(p) ==
  LET mine == {r \in Release : ProcOf[r] = p} IN
  /\ restarts < MaxRestarts
  /\ restarts' = restarts + 1
  /\ file' = [q \in Path |-> IF q \in {Own(r) : r \in mine} \cup ({p} \X Chart)
                             THEN NoFile ELSE file[q]]
  /\ flock' = [c \in Chart |-> IF flock[c] \in mine THEN NoOne ELSE flock[c]]
  /\ memo' = [m \in Proc \X Chart |-> IF m[1] = p THEN "absent" ELSE memo[m]]
  /\ repos' = [m \in Proc \X Repo |-> IF m[1] = p THEN "absent" ELSE repos[m]]
  /\ pc' = [r \in Release |-> IF r \in mine THEN "start" ELSE pc[r]]
  /\ path' = [r \in Release |-> IF r \in mine THEN Own(r) ELSE path[r]]
  /\ key' = [r \in Release |-> r \notin mine /\ key[r]]
  /\ uncached' = [r \in Release |-> r \notin mine /\ uncached[r]]
  /\ rendered' = [r \in Release |-> IF r \in mine THEN NoFile ELSE rendered[r]]
  /\ UNCHANGED setup

Over == \A r \in Release : pc[r] \in {"done", "failed"}

Finished == Over /\ UNCHANGED vars

Next ==
  \/ \E r \in Release : Step(r)
  \/ \E p \in Proc : Restart(p)
  \/ Finished

\* A release that can take its next step takes it: goroutines are scheduled
\* fairly, and a free lock is given to somebody who waits for it.
Fairness == \A r \in Release : WF_vars(Step(r))

Spec == Init /\ [][Next]_vars /\ Fairness

-----------------------------------------------------------------------------
(***************************************************************************)
(* Properties.                                                             *)
(***************************************************************************)
\* The releases of a chart all name the same values files.
Agreed == \A r, s \in Release : ChartOf[r] = ChartOf[s] => wants[r] = wants[s]

\* A release that comes to render its chart finds an archive it can load,
\* whatever other releases, processes and killed runs have done to the path
\* since it gave up the lock.  (Across devices archives are replaced in
\* place, so there the releases of a chart must agree on its values.)
LoadsWholeChart ==
  \A r \in Release :
    pc[r] \in {"compose", "load"} /\ (Agreed \/ ~crossDevice) => Whole(file[path[r]])

\* A release renders the chart packaged with its own values files.
RendersOwnValues == \A r \in Release : From(r, "done") => rendered[r] = wants[r]

\* It does if the releases of its chart agree on them, whichever of them
\* downloaded the chart, in this run or an earlier one.
AgreedValuesAreRendered == Agreed => RendersOwnValues

\* A release that has built or accepted a chart, and still holds its lock,
\* has the chart with its own values files at its path: "changes can be
\* noticed" by the version of the archive.
BuildDescribesThePath ==
  \A r \in Release : From(r, "unlockRepo") => file[path[r]] = wants[r]

\* With the fs cache no chart is downloaded that the cache already holds:
\* not by another release, another process or a later run.
NoNeedlessDownload ==
  \A r \in Release : From(r, "download") /\ cache = "fs" => file[path[r]] # wants[r]

\* At most one release at a time downloads to, or copies over, a path of the
\* cache directory.
OneWriterPerPath ==
  \A r, s \in Release :
    /\ cache = "fs" /\ r # s /\ path[r] = path[s]
    /\ pc[r] \in {"download", "copy"}
    => pc[s] \notin {"download", "copy"}

\* Every release ends: no early return keeps a lock others wait for, and the
\* chart and repository locks are never waited for in a circle.
EveryReleaseEnds == <>[]Over
=============================================================================
