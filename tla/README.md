# flux-build in TLA+

flux-build builds kustomize paths, finds the HelmReleases in what it built,
downloads their charts, renders them, and writes all manifests to one output.
It is a short program with a lot going on at the same time: a task per path, a
task per release, a collector and a writer that hand things to one another over
channels; two in-memory caches with locks in them; a cache directory that other
processes use too; repository clients and HTTP transports that downloads share;
temporary files in the user's own directories; links to follow in a chart. These
modules model that, TLC checks it on small instances, and TLAPS proves for
instances of any size every invariant and every safety property that the
passing runs check: of the value cache, the pipeline, the charts, kustomize, the
repositories, the local builder and the loader. Liveness is model-checked only.

All line numbers are those of the repository at the modelled commit, relative
to its root.

## The system

| Component | Code | State | Operations |
|---|---|---|---|
| Command line | `main.go` | none | flags and environment to an `Action` |
| Run pipeline | `internal/action/action.go` | three channels, the index, `lastErr`, the context, five kinds of goroutines | `Run`, `submit` |
| Resource index | `internal/build/index.go` | a map from reference to resource | `Push` |
| Kustomize builder | `internal/build/kustomize.go` | `kustomizeBuildMutex`, a `kustomization.yaml` in the user's directory | `Kustomize`, `createKustomization`, `detectResources` |
| Helm release builder | `internal/build/helm.go` | `repoCache`, the chart cache | `Build`, `buildFromHelmRepository`, `renderRelease`, `composeValues` |
| Value cache | `internal/cache/cache.go` | map of items and locks, a mutex | `GetOrLock`, `SetUnlock`, `Get`, `Set`, `Add`, `Delete`, `Clear` |
| Chart caches | `internal/helm/chart/cache` | a value cache; or lock files and archives in a directory; or nothing | `GetOrLock`, `SetUnlock` |
| Remote chart builder | `internal/helm/chart/builder_remote.go` | the archive at the path | `Build` |
| Chart repository client | `internal/helm/repository/chart_repository.go` | `Index`, `Path`, `cached`, `digests`, an RWMutex | `GetChartVersion`, `DownloadChart`, `CacheIndex`, `LoadFromPath`, `Digest`, `Clear` |
| OCI chart repository client | `internal/helm/repository/oci_chart_repository.go` | a credentials file | `GetChartVersion`, `DownloadChart`, `Login`, `Logout`, `Clear` |
| Dependency manager, local builder | `internal/helm/chart/dependency_manager.go`, `builder_local.go` | `downloaders`, the chart | `Build`, `Clear` |
| Transport pool | `internal/transport` | a `sync.Pool` | `NewOrIdle`, `Release` |
| Secure loader | `internal/helm/chart/secureloader` | none | loading of directories and archives, ignore rules, a walk that follows links |
| File system helpers | `internal/fs` | none | `RenameWithFallback`, `CopyDir` |
| Post renderers, registry, getter, verifier | `internal/helm/postrenderer`, `registry`, `getter`, `internal/oci` | none | conversions and configuration |

How they interact. `Run` calls `Kustomize` in one task per path and gives the
result to the writer (`manifests`) and to the collector (`resources`), which
pushes it into the index. When all paths are done and collected `Run` ranges
over the index and starts a `Helm.Build` task per HelmRelease. `Helm.Build`
looks up the repository, secrets and values in the index, takes the chart's
lock from the chart cache and the client's lock from `repoCache`, has the
remote builder resolve, download and package the chart to the path the cache
named, gives both locks back, reads the path again and renders. Errors of all
tasks go over the unbuffered `errs` to one reader, which may cancel the context.

What is hard, and what makes each component correct:

* **Run pipeline**: the order in which `Run` stops pools and closes channels
  against tasks and panic forwarders that still send; everything built is
  written once; a failure of one path or release does not cost another; the run
  ends; the exit status tells of errors.
* **Kustomize builder**: tasks of nested or equal paths meet in the same
  directories, outside the mutex; the user's files survive; no made file stays;
  a build that succeeds is complete.
* **Value cache**: between finding a lock and waking up, anything may happen to
  the key; one builder per key, no waiter lost, no lock handed out as a value.
* **Chart caches and remote builder**: which archive is at a path between the
  release of its lock and its use; processes that share a directory and die in
  the middle of a copy; errors with locks held.
* **Chart repository client**: one operation is several critical sections, and
  the state between them belongs to everyone.
  A borrowed transport carries the TLS configuration of whoever borrowed it.
* **Dependency manager**: first error cancels the rest; results of a failed
  callback must not be remembered.
* **Local builder**: what it reports exists and is what was asked for, whichever
  of its many combinations of options it was called with and wherever it failed.
* **Secure loader**: rules, links and the check against root are applied name by
  name, in an order; links may lead back up.

## Modules

| Module | Models | Kind |
|---|---|---|
| `ValueCache` | `cache.go`: every method; `GetOrLock` in the two halves between which it has given up the mutex | detailed |
| `SingleFlight` | what callers rely on: a value per key, at most one builder, waiting as not being enabled | abstract |
| `ValueCacheProofs` | theorems on both | proofs |
| `ChartBuild` | `helm.go` from the chart lock to the rendering, the three chart caches, the remote builder; several processes; restarts | detailed |
| `Pipeline` | `Run` with all its goroutines | detailed |
| `Batch` | what `Run` promises of a batch of paths, without goroutines, pools or channels | abstract |
| `Kustomize` | `kustomize.go` | detailed |
| `TransportPool` | `transport.go`, and where its clients' downloads find what they borrowed | part |
| `ChartVersions` | the choice of a version, from an index and from tags | part |
| `ChartRepository` | the clients, `chart_repository.go` and `oci_chart_repository.go`; extends the two | part |
| `Dependencies` | `dependency_manager.go`; extends `ChartRepository` with the workers that call it | part |
| `LocalBuilder` | `builder_local.go`; extends `Dependencies` with the build of a chart | detailed, the composition of the five |
| `SecureLoader` | `secureloader/` : the loader, its walk, the ignore rules | detailed |
| `PipelineProofs`, `ChartBuildProofs`, `KustomizeProofs`, `SecureLoaderProofs` | theorems on the module of that name | proofs |
| `RepositoryProofs`, `DependenciesProofs`, `LocalBuilderProofs` | theorems on `LocalBuilder`, from its parts up | proofs |
| `MC*` | instances for TLC | |

A part has variables, actions and properties and no specification: it says what
a step of it does, and the module that extends it says who takes the step.

`ValueCache` implements `SingleFlight` through the mapping at its end
(`Stored`, `Flights`, `Answer`): checked as a property and proved as `Refinement`
(both are safety: `SingleFlight` states no fairness). `Pipeline` implements `Batch`
likewise (`BatchStage`, `Result`; proved as `RunIsABatch`). `ChartBuild` uses
the two value caches of the Helm builder in that abstract form: an entry is
absent, locked or stored, and a caller whose key is locked cannot take its
step. `Pipeline` leaves out what a build does (it succeeds, fails or panics,
once), `Kustomize` and `ChartBuild` are what is inside; no variable is shared
between them, a build neither knows nor waits for the pipeline. In `LocalBuilder`
the build starts the loop of `Dependencies`, its workers are the threads of
`ChartRepository`, and what these borrow is in `TransportPool`, so that the
properties of the parts are checked, and proved, of the whole. `ChartBuild` has
the client only as steps that succeed or fail, because every release makes its
own (`repoCache` never holds one, see the findings). `SecureLoader` is what the
step `LoadChart` of `LocalBuilder` does, on a tree nobody else changes.

### ValueCache

`items` is `c.items`, with a channel as a member of `Lock`, `chan[c]` the
channel a blocked caller receives from. Each method holds the mutex from its
first statement to its return, so it is one action; `GetOrLock` is
`GetMiss`, `GetBlock` or `GetHit`, and after a wait `Relock`. Closing a channel
moves the callers that receive from it to `woken`. `Spec` is how this program
uses the cache (`GetOrLock`, then `SetUnlock` after a miss); `ApiSpec` lets
every exported method be called at any time, as the tests do.

### Pipeline

`main` is where `Run` is, `todo` what is left of its loop, `task[t]` where a
task is: queued in its pool, building, blocked on a channel, ended. `resources`
and `manifests` are sequences with the capacities of lines 78 to 80, `errs` is a
rendezvous of `SendErr` or `ForwardPanic` with the reader. The reader's loop
body is three steps (receive, record, cancel) because `Run` may read `lastErr`
between any two. The pools are pond's, modelled from their use: dropped when
the context is cancelled, started when a worker is free, `StopAndWait` as a
guard, a panic as a result that the forwarder of `submit` sends on. When `Run`
has returned nothing else moves: the process is gone.

`Batch` is what remains of this when nothing happens at the same time: each path
is built once, an index is made of what the built ones declare, and only then,
and only of what is in it, each release is built once; each manifest is written
once, in any order, or its writing fails. `GiveUp` (a cancelled context, or a
resource that could not be indexed) is what lets something not be built; what
has been built is written all the same. Of `Pipeline` a build that succeeds or
fails is one step of `Batch`, so is `Push`, `Write`, `StopCollector` and `Exit`; all
sends, receives, starts and closes are none.

### ChartBuild

A path is one of: a path of the release's own (random bytes), the path the
in-memory cache stored, the path of the cache directory. `file[p]` is the list
of values files the archive there was packaged with, or that there is none, or
a torn one. The version an archive carries is its chart's version and
`VersionMetadata`, which is 0 for any list of values files that is not empty:
`obj` is made up at helm.go:228 and its generation is never set. What happens before
the caches (`LookUpSource`) and the composition of the values (`Compose`) is in
the model as steps that succeed or fail: others move in the meantime. Deferred calls
run in reverse order on success and failure alike. `Restart` ends a process at
any step: its memory and its locks are gone, the cache directory is not. What a
version resolves to is fixed, so a release accepts what another with the same
cache key has packaged: a range that resolves to a newer version in another
process, which would then replace the archive, across devices by a copy in
place, is not in the model, and `LoadsWholeChart` and `NoNeedlessDownload` say
nothing of it.

### Kustomize

`kfile[d]` is the `kustomization.yaml` of a directory, as the set of things it
lists. `os.WriteFile` is two steps, truncation and write, and the walk visits
one directory a step. krusty is external and modelled from its contract: it
loads directory after directory and fails on one without a kustomization file,
with more than one, or with an empty one. That a kustomization file met as a
plain file in a walk is passed over (it has no name, so it is no resource) is
such an assumption too. A directory without manifests has no entry. At most two tasks share a path.

### TransportPool

`lent[t]` is the transport a goroutine has between `NewOrIdle` and the deferred
`Release`, `tls[u]` whose TLS configuration it carries. `sync.Pool` is external:
it gives what nobody has, old or new. `append(r.Options, ...)` writes into the
array that all downloads of a client share when their slice has room, as one has
that helm.go:532 makes and appends to; and all of them call one getter, an
interface of Helm's, which may keep the options of a call in fields of its own.
Either way the downloads of such a client (`shared`) find their transport in one
place (`lastOpt`), where the last to begin has put its own: `Uses(t)` is what a
download finds, which another may have, or may have given back, and which the
pool may then have lent to a third. `OwnTransport`, which is what "All methods
are thread safe" asks, is false as soon as two downloads of one such client
overlap (see below); `TransportsApart` says that it holds where they cannot
(`MayOverlap` in `Dependencies`), and is checked and proved.

### ChartVersions

A version is its text, its place in the order of versions and when it was
created; a request is its text and the places its constraint admits. The less
function given to `sort.SliceStable` is the negation of "lower or older", by
which of two equal elements each is less than the other; `Insert` is a step of the
insertion sort the library uses for up to 20 versions of an index and 12 tags, so
that what such a function does is modelled and not assumed; what the library
does with longer lists is not modelled. `Sort` is a fold of `Insert` over the
versions that are `Admitted`. An index breaks ties by age, tags do not.

### ChartRepository

`rpath`, `index`, `cached` and `digests` are the fields of a client, `disk` the
files. `GetChartVersion` is one action per acquisition of the RWMutex; `at[t]`
says which one comes next. `DownloadIndex` waits for its answer with the lock
held for reading, and `Unread` is what a writer waits for. `Clear`, `Invalidate`
and the two halves of `Digest` (it looks for the file before it takes the lock)
may come between any two. An index is a revision and what this offers; a
revision outside `DOMAIN Offers` is a file that cannot be parsed. An OCI client
keeps nothing: a request for one exact version is answered without asking, any
other from a list of tags. Only one digest algorithm and one call of `Digest` at
a time are modelled. Nobody but the clients changes index files: that somebody
replaces a file given to the constructor is not modelled, and `IndexOfTheFile`
and `DigestOfTheFile` would not hold of it.

### Dependencies

`loop` is the goroutine that hands out the slots, of which there are `slots`
(`dm.concurrent`, or 1 if that is not positive; a part of the situation), `at[t]`
the worker of a dependency, `Busy` those that hold a slot. The group is modelled from its use:
the first error is kept and cancels the context, `Wait` waits for all.
`semaphore.Acquire` looks at the context, `group.Go` after it does not, so they
are two actions; the deferred release comes before the group is told of the
error. `downloaders` tells a nil from an absent entry, which is what
`resolveRepository` does not; the call on nil ends the process (`crashed`).
Others call methods of a client (`CallMethod`) only while the manager works:
before and after nobody would see the difference.

### LocalBuilder

A situation is what a build finds: a directory or an archive, version metadata
and values files and whether they are fit, the cached chart, a manager or none,
what is at the path, and whether that is on another device (`far`). `out` is the
path to write to; an archive is `Torn` while it is being written, by `os.Create`
and a copy, or by the copy that a rename becomes across devices. Every call that
may fail is an alternative that does. Of the cached chart only name and version
are looked at, so `ReportsWhatIsThere` says no more of it than that.

### SecureLoader

A tree has numbered places, a directory before its entries and these in the
order of their names, with a directory, a file, a link or something else at each;
nobody changes it. `todo`
is what the recursion of the walk has yet to visit, as names and the place each
resolves to. A name is held against the rules, then its place against root, then
it is read, in that order, and `FollowLink` comes before all three. A pattern
is given by what it matches, for glob matching is the library's; what a line
means with a slash, a trailing slash or a `!` is modelled (`base`, `mustDir`,
`negate`). The `.helmignore` is not among the places. `MaxLinks` is how many
links of one path the kernel follows, 40 in Linux; `Hops` counts them, and it is
what ends a walk through a link that leads back up. With `aliased` root has been
named by a path with a link in it.

## Runs

| Run | Instance | Shows |
|---|---|---|
| `value_cache` | 3 callers, 2 keys, 2 values | the properties of the discipline, and the refinement |
| `value_cache_api` | 3 callers, 1 key, all methods | no lock is ever returned as a value |
| `pipeline` | 2 paths that share a release, 2 releases, 1 worker; all failures, panics of builds and collector, all flags | the run is a batch (`ImplementsBatch`), sound up to one unrecorded error, and ends |
| `pipeline_status` | the same without panics | **finding**: exit status 0 after an error |
| `chart_caches` | 1 process, 3 releases of a chart and 1 of another, 1 repository, each cache, 1 restart | with the same values files for a chart, everything is what was asked for, and every release ends |
| `chart_shared_directory` | 2 processes, 3 releases of a chart, fs cache, 2 restarts, one device or two | the cache directory is used by one writer at a time, and again |
| `chart_overwritten` | 3 releases, one with other values files | **finding**: the path is read after its lock was given back |
| `chart_values_files` | 2 releases with different values files | **finding**: one accepts the archive of the other |
| `kustomize` | 2 tasks on a tree of four directories and a file, equal, nested, beside one another; trees with and without the user's kustomizations; 1 kill | the user's files stay, made ones go, builds are complete, disjoint paths do not disturb each other |
| `kustomize_chained` | the same, no kustomization anywhere | **finding**: nested paths make each other fail |
| `local_build` | 5 dependencies of an HTTP client, an OCI client and none, up to 3 in a chart, 1 or 2 slots, 3 files, 3 revisions, 2 transports; clients cleared, invalidated, asked for digests meanwhile; and every combination of options with nothing missing | index and digests are those of the file at the path; the latest fitting version; a transport each where downloads of a shared client cannot overlap; a build adds all that is missing or fails, reports only what is there, and ends |
| `secure_loader` | 11 places, up to 3 of them links, one of which leads to any of 8 places, unreadable and irregular files, 7 ignore files, root aliased or not | nothing outside root is read, all else is, a failure has a reason, walks end |

### Why the bounds are enough

Two callers race for a lock and a third finds what they left: three callers,
and a second key that shows that keys do not touch. One worker makes both
`manifests` (one place) and `helmPool` full at once, which is when producers
block and releases queue; two paths are what makes two producers and a collector
that still has something to push when `resources` is closed, and one release in
both paths is what the index is for. For a chart: the one that downloads, the
one that waits for it, and one that comes after both (with the in-memory cache
the last two use one path without a lock, and what either has seen there may be
stale when it comes to use it); a second chart for the repository's lock across
charts. A restart per process, for an archive torn by
one and found by the other, and torn again. In a tree: a directory in a
directory in a directory is the least where a walk passes one kustomization and
meets another below it. Two dependencies of one client race for its index, with
two slots a third is refused one or takes the one a failure frees, and it is of
the other kinds of client; three files are the one given, the one a caller has
cached and the one another is downloading; two transports are one that can be
mistaken for the other. Clients that share their transport's place come with one
slot and every chart, and with two slots and a dependency each. An index of five versions has two that are equal but for
their age, one that is excluded and one that is none. The options of a local
build are exhausted where nothing is missing, and one plain situation per chart
goes through the dependencies, since no option is looked at between the two. Of
the links one may lead to another, both to each other, or one back to the chart,
and with `MaxLinks = 2` the walk goes through the last more than once before it
is refused.

`MaxRestarts` and `MaxCrashes` are the only counters. Everything else is finite
because tasks, releases and paths are.

### Fairness

Weak fairness per goroutine (`Fairness` in each module): the Go scheduler runs
every goroutine that can run. A caller of `GetOrLock` that has to build calls
`SetUnlock`, since helm.go defers it; that a *build* ends is so because steps
of `ChartBuild` are the bounded calls of the code (a network call that never
returns is not considered). A released lock is taken by someone; no release is
promised to be next, and `EveryReleaseEnds` holds without that since releases
are finite in number. In `LocalBuilder` the build, the loop and each worker are fair
by themselves, so that none lives on what another does. No fairness is assumed
of restarts, kills, cancellation or callers.

## Findings

Each has a run whose property quotes the statement it contradicts
(`PROJECT.json`, `findings`):

* `action.go:71` the reader may not have recorded the last error when `Run`
  reads `lastErr`. `StatusHidesAtMostOneError`, which holds, bounds the damage.
* `helm.go:252` renders whatever is at the path by then.
* `helm.go:660` the version metadata does not depend on the values files.
* `kustomize.go:82` nested or equal paths remove and truncate each other's files.

Seen while modelling and without a run:

* `chart/cache/inmemory.go:48` stores a path nobody wrote to, so later releases of a
  chart download it again, unlocked (their key is nil), all to that one path
  (`GetMemoryHit`);
* a panic of the writer task stops the run for ever (nobody receives from
  `manifests`; `MayPanic` of the runs leaves the writer out);
* `helm.go:526` evaluates `chartRepo` when `SetUnlock` is deferred, so
  `repoCache` stores nil and no client is ever shared;
* `Set`, `Delete`, `Clear` drop a lock without closing it and `Get` hands it out
  (called by tests only);
* across devices the "atomic" write of `builder_remote.go:251` is a copy in
  place: `ChartBuild` has it (`Torn`), and `LoadsWholeChart` is what is still true;
* `composeValues` changes the kind of a shared resource (helm.go:371) while
  others encode it;
* `dependency_manager.go:287` keeps the nil a failed callback returned, and the
  next worker of that URL calls a method on it (`crashed` in `Dependencies`, which
  no property forbids: to `BuildEnds` it is an end);
* `collectMissing` takes as many charts as requirements for all of them, whatever
  they are (line 315), which the comment at line 310 does not say;
* `GetChartVersion` may fail with `ErrNoChartIndex` after its own load, when another
  caller has cached or cleared in between (`chart_repository.go:113` calls the
  methods thread safe); a cached index file that is superseded is never removed;
* two downloads of one client may find the same transport, by then perhaps
  another client's (`chart_repository.go:283` and 377, `oci_chart_repository.go:230`,
  `shared` in `TransportPool`), although "All methods are thread safe unless defined
  otherwise" (line 113). TLC refutes `OwnTransport` within seconds in the situation
  `[Plain(Same) EXCEPT !.shared = {http}]`, which `MCSituations` leaves out. Only the
  dependency manager, which only tests construct, has two at a time;
* `builder_local.go:217` says that the copy "returns an error if out already
  exists"; `os.Create` truncates it (`CreateCopy`);
* `ignore/rules.go:89` says that a negative rule stops the evaluation, which goes on
  (`continue`) with the next one (`Decides`);
* `secureloader/directory.go` resolves a link before it asks the rules, so an
  ignored link to nowhere fails the load, where `loader.go:76` says that files
  matching a rule are skipped (`FollowLink`; `FailsForAReason` exempts it);
* a link inside root is refused when root itself is named through a link (`Secure`),
  and an error about the chart's own directory is not looked at (`ReadDir`);
* the matcher made of a pattern with a leading slash strips a slash from its own
  pattern at every call (`rules.go:176`);
* a path with a `kustomization.yml` gets a second file and is refused;
* the environment is processed into variables that already hold the flags'
  defaults (main.go:71), and the environment library leaves a variable that is
  not zero alone, so `WORKERS`, `CACHE` and `CACHE_DIR` have no effect;
* the output is opened with `O_APPEND` and never truncated; a path `-` must exist
  for `os.Stat` to let it through; temporary index and credentials files are not
  removed.

## Proofs

All are of the specification the runs check, for any values of the constants
that meet the named assumptions, which TLC evaluates on every instance. Each
module has one inductive invariant, some have more that lean on it, and the
theorems follow from these at once.

Some of what is proved is about functions that are computed by recursion: where
links lead, which names a chart has, what a list of versions is sorted to. The
library's induction theorems take an operator as a parameter, which the provers
cannot instantiate; the lemma `Induction` (of `RepositoryProofs` and
`SecureLoaderProofs`) says the same of a set of numbers, from `WFMin`. A recursive
function is a CHOOSE in TLA+, so it is shown first that there is one
(`SortIsDefined`, `PathIsDefined`, `LevelsAreDefined`) and then what it computes.

`ValueCacheProofs`, for any sets of callers, keys, values and locks (finite or
not), from the assumption `Distinct` alone:

* `TypeCorrect`: `ApiSpec => []TypeOK`.
* `NoLockEscapes`: `ApiSpec => []NeverReturnsALock`. The second look at the map
  asks whether what it finds is a lock, so the invariant is inductive with
  the types, whichever methods ran in between.
* `OneBuilder`, `Wakeups`: `Spec => []SingleBuilder`, `Spec => []NoLostWakeup`.
  Neither is inductive: two callers could come to build a key if a caller woke
  up after its value was gone, and a waiter could be lost if its channel were
  not the one in the map. `IInv` says who holds what: a key has a lock in the map
  exactly while it has a builder, locks of different keys differ, a waiting
  caller's channel is its key's lock, and a woken caller's key holds a value, and
  values never leave the map under `Spec`.
* `WaitersServed`: `Spec => WaitersGetTheValue`, an action property that is the
  last conjunct of `IInv` at work.
* `Refinement`: `Spec => ImplementsSingleFlight`: initial states map to initial
  states, `GetMiss` to `Start`, `GetHit` and `Relock` to `Hit`, `SetUnlock` to
  `Finish`, `GetBlock` to a stutter.

`PipelineProofs`, for any paths, releases and number of workers
(`TaskAssumption`, `WorkersAssumption`). `PInv` says what can run at each stage of
`Run` (`Stages`), where a task of each kind can be (`Roles`), and that the reader
records an error before it receives the next (`Recorded`).

* `TypeCorrect`, `ClosedWhenQuiet` (`NoSendOnClosed`), `IndexIsQuiet`
  (`NoIndexRace`), `StatusIsAlmostRight` (`StatusHidesAtMostOneError`): from `PInv`.
* `AllIsWritten`: `NothingLost`, if the writer does not panic (it is false if it
  does). `Delivery` counts: a producer that has handed over is once in the
  channel, in the writer's hand, in the output, or among the failed writes.
* `AllAreBuilt`: `EveryReleaseBuilt`, which no run checks by itself because
  `ImplementsBatch` says more. `Indexing` follows a release from the path
  that declares it through the channel, the collector's hand and the index to
  its own task.
* `RunIsABatch`: `ImplementsBatch`, if the writer does not panic. `Order` adds to the
  invariants above that the collector is handed what has been built, that no path
  is passed over, and that only releases of the index are started (`FromBuilt`,
  `PathsStarted`, `FromIndex`); then every step of `Pipeline` is the step of `Batch`
  named above (`SettlesIt`, `PushCollects`, `WriteWrites`, `CollectedAll`, `ExitEnds`,
  `GivesUp`) or none (`Stutters`).

`ChartBuildProofs`, for any processes, releases, charts, lists of values files
and restarts (`ChartBuildAssumption`). `CInv` says that with the fs cache whoever is
between lock and unlock holds the lock file, which path a release may have, that
an archive at a path was packaged for a release that may have that path, and that
what a release has seen of its path is so until it gives up the lock.

* `TypeCorrect`, `OneWriter` (`OneWriterPerPath`), `CacheIsUsed`
  (`NoNeedlessDownload`), `ChartsStayWhole` (`LoadsWholeChart`).
* `AgreementIsEnough`: `AgreedValuesAreRendered`; `AgreementDescribes`:
  `Agreed => BuildDescribesThePath`. Without agreement both are findings.

`KustomizeProofs`, for any tree, paths and number of kills
(`KustomizeAssumption`). `KInv` says that a task that writes a `kustomization.yaml`
has found none of the user's there and has deferred its removal, and that until
a kill every such file has a task still to remove it.

* `TypeCorrect`, `KrustyAlone` (`OneBuildAtATime`), `UserFilesStay`
  (`UserFilesKept`), `MadeFilesGo` (`TreeRestored`).
* `BuildsAreComplete`: `BuildIsComplete`. `BInv` adds three invariants that speak of
  what is below a directory (`Covered`): a `kustomization.yaml` that can be loaded,
  whoever made it, lists all of its directory (`FilesList`); what a walk has found
  and what it has yet to walk are together all there is (`Walks`); so are what
  krusty has loaded and has yet to load (`Loads`). Nested paths may thus make a
  build fail, but never make it incomplete.
* `PathsApartBuild`: `DisjointPathsBuild`. `Undisturbed` adds that where no paths
  are nested and nothing is killed, the file of a path is as its task wrote it, and
  what krusty comes to is that path or a directory with a file of the user's. The
  property is of paths that a build alone would get through (`Buildable`); for nested
  paths it is false, which is a finding (`ChainedPathsBuild`).

The lemmas under both say of `Above` that it is reflexive and transitive and that
in a tree (`KustomizeAssumption`) of two directories above one, one is above the other.

`RepositoryProofs`, for any clients, threads, files, revisions, lists of versions
and transports (`TransportAssumption`, `RepositoryAssumption`, `LocalAssumption`).
`RInv` says that a temporary file belongs to one thread or is at one `Path`, and a
borrowed transport to one thread; it is proved of every step of `LocalBuilder`,
whoever calls what in between.

* `FreshIndex` and `FreshDigest`: `IndexOfTheFile` and `DigestOfTheFile`.
* `VersionsAreLatest`: `LatestVersion`, for lists of any length and order, and with
  equal elements. Insertion with a less function that calls each of two equal
  versions the lower one still keeps all versions and a latest one in front
  (`InsertKeeps`), hence the sort does (`SortKeeps`), hence what is picked is the
  exact version asked for or a latest that will do (`PickAnswers`). `VInv` adds that
  a thread asks a client of the kind its step is for and that an index was parsed.

`DependenciesProofs`, for any charts, workers and slots
(`DependenciesAssumption`). `DInv` says that a dependency is in the chart once, from
when its worker has added it, that every missing one is to be started or has
been, and that a failed worker has told the group. That what is missing has
as many names as entries, and every name that is not vendored, are lemmas on
lists and cardinalities.

* `BuildsAllOrFails`: `CompleteOrFails`.

`LocalBuilderProofs`, for any charts and situations (`LocalAssumption`, which also
tells an archive from a torn one). `LInv` says that a build that copies has
nothing to package, and one that packages a directory has its dependencies; it
is inductive together with `DInv`.

* `ReportsAreTrue`: `ReportsWhatIsThere`.
* `BuildTypeCorrect`: the `TypeOK` of the whole composition, by `TInv`, which adds the
  types of the clients, the manager and the build to those the others imply: an added
  dependency is a required one, a picked version is offered or was asked for.
* `TransportsAreLent`: `TransportsApart`, with clients that share the place of their
  transport, but of `OwnTransport` only where no two downloads of one of them can
  overlap; where they can it is false. `RInv` says that no transport is lent twice
  and whose configuration it has. That a download finds the one it was lent takes
  two more invariants: with one slot there is one worker, and none when the slot
  is given away (`Alone`, from the semaphore's count of `Busy`); and the place has
  the transport of the download that runs (`LeftLast`), because another that runs
  would be a worker of the same chart for the same client, which by `Alone` or by
  `MayOverlap` there is not.

`SecureLoaderProofs`, for any tree, ignore file and number of links
(`LoaderAssumption`). `LoaderInv` has the types, the stages of a load, and of the
walk that every name to be visited is one of the chart's (`Named`), that every file
read is wanted, and that some set of names has the chart and, of each of its
members but the ones to be visited, the file or all names below (`Covers`). When
nothing is left to visit, that set has every name.

* `LoaderTypeCorrect`: `TypeOK`. `LoadIsComplete`: `LoadsTheChart`.
  `FailuresHaveAReason`: `FailsForAReason`.
* `Named` is computed in `Bound` rounds. That this is all of it, although links lead back
  up (`NamedIsClosed`), is because below a name there are only names that
  are deeper in the tree or pass more links (`BelowIsDeeper`), and the kernel follows
  `MaxLinks` of them.
* The lemmas under these: a path of links leads to a place or nowhere, and what it
  resolves to resolves to itself (`LeadsAlongLinks`, `ResolvesToItself`); reading a
  directory leaves each entry to be visited (`EntriesInOrder`, `EntriesArePending`).

Only model-checked: liveness under fairness, which is beyond the prover
(`EveryWaitEnds`, `Terminates`, `EveryReleaseEnds`, `EveryPathEnds`, `BuildEnds`,
`WalkEnds`). `BuildDescribesThePath` is proved where the releases agree on the values
files of a chart (`AgreementDescribes`); where a single release names values files
it is model-checked. The properties of the four findings are false. No module uses a
RECURSIVE operator.

## Plan

Done: all modules of the table above. Left, for whoever goes on:

1. `ComposeValues`: the sources of a release's values in their order, optional ones
   among them, over an index in which the last of two equal references wins.
2. An abstract specification for `ChartRepository` (an atomic map from a client to
   an index), with a proof that the module implements it.
3. What liveness rests on and can be proved without fairness: that a walk of
   `SecureLoader` or `Kustomize` has only so many steps, and that whoever waits in
   `ChartBuild` waits for somebody who can move.

## Not modelled

Values and the rendering of a release (`composeValues`, `mergeChartValues`,
templates): sequences of merges by the rules of libraries, on data of one task;
`ChartBuild` and `LocalBuilder` have them as steps that succeed or fail. That
`composeValues` writes to a resource others encode is a data race whose outcomes
no source line gives; it is among the hazards. Post renderers, registry and
getter options, credentials with `Login` and `Logout`: single calls of libraries.
Signatures: the caller is commented out. Flags and logging. `CopyDir`, which
nothing reaches with a file, and path conversion for Windows. The names of
cached files are abstracted to the key they are made from; two keys with one
name are not considered. `PROJECT.json` lists every component with its status.
