---------------------------- MODULE Dependencies ----------------------------
(***************************************************************************)
(* How the missing dependencies of a chart are added to it: Build of       *)
(* internal/helm/chart/dependency_manager.go, with the repository clients  *)
(* its workers share (ChartRepository).                                    *)
(*                                                                         *)
(* A goroutine of an error group goes over the missing dependencies; it    *)
(* acquires a slot of a semaphore and starts a worker for each.  A worker  *)
(* gets the client of its repository from the map downloaders, or from a   *)
(* callback; asks it for the version; downloads the chart; and appends it  *)
(* under a lock.  The first error cancels the context of the group, which  *)
(* the semaphore heeds; workers that run already run on.                   *)
(*                                                                         *)
(* The module is a part: LocalBuilder composes it with the build of a      *)
(* chart from a directory.                                                 *)
(***************************************************************************)
EXTENDS ChartRepository

CONSTANTS
  KeyOf,        \* the alias, or else the name, of each dependency
  Charts        \* charts to build: [vendored, required], the names of the
                \* charts one holds and the sequence of its dependencies

\* A dependency is known by the thread of its worker; one whose RepoOf is
\* NoRepo is a local chart.
Required(chart) == {chart.required[i] : i \in DOMAIN chart.required}

ASSUME DependenciesAssumption ==
  /\ DOMAIN KeyOf = Thread
  /\ \A c \in Charts : c.required \in Seq(Thread)

VARIABLES
  chart,        \* the chart, before anything is added
  slots,        \* how many workers may run at a time: dm.concurrent, or else 1
  downloaders,  \* the entry of each client in dm.downloaders
  loop,         \* where the goroutine that starts the workers is;
                \* "idle" before there is one
  todo,         \* the dependencies it has yet to start
  added,        \* the charts added, in order
  cancelled,    \* whether the group's context is cancelled
  err,          \* whether the group has an error
  crashed,      \* whether a method of nil has been called
  built         \* what Build returned

group == <<loop, todo, cancelled, err>>
depVars == <<chart, slots, downloaders, group, added, crashed, built>>

\* A worker holds its slot while it is at one of these.
Holding == RepoSteps \cup {"resolve", "local", "add", "release", "failRelease"}

DepTypeOK ==
  /\ RepoTypeOK
  /\ chart \in Charts /\ slots \in Nat \ {0}
  /\ downloaders \in [Repo -> {"absent", "client", "nil"}]
  /\ at \in [Thread -> Holding \cup {"none", "report", "done", "error"}]
  /\ loop \in {"idle", "collect", "start", "go", "wait", "over"}
  /\ todo \subseteq Required(chart)
  /\ added \in Seq(Required(chart))
  /\ cancelled \in BOOLEAN /\ err \in BOOLEAN /\ crashed \in BOOLEAN
  /\ built \in {"none", "ok", "error"}

DepInit(given) ==
  /\ RepoInit(given)
  /\ chart = given.chart /\ slots = given.slots
  /\ downloaders = given.downloaders
  /\ at = [t \in Thread |-> "none"]
  /\ loop = "idle" /\ todo = {} /\ added = <<>>
  /\ cancelled = FALSE /\ err = FALSE /\ crashed = FALSE
  /\ built = "none"

-----------------------------------------------------------------------------
(***************************************************************************)
(* Build, and the goroutine that starts the workers.                       *)
(***************************************************************************)
\* collectMissing: the required dependencies whose key is not vendored, the
\* last one of each key; none at all when the counts agree.
Missing(c) ==
  IF Cardinality(c.vendored) = Len(c.required) THEN {}
  ELSE {c.required[i] : i \in
         {j \in DOMAIN c.required :
            /\ KeyOf[c.required[j]] \notin c.vendored
            /\ \A k \in DOMAIN c.required : k > j => KeyOf[c.required[k]] # KeyOf[c.required[j]]}}

Collect ==
  /\ loop = "collect"
  /\ todo' = Missing(chart)
  /\ loop' = IF Missing(chart) = {} THEN "over" ELSE "start"
  /\ built' = IF Missing(chart) = {} THEN "ok" ELSE "none"
  /\ UNCHANGED <<repoVars, at, chart, slots, downloaders, added, cancelled, err, crashed>>

Busy == {t \in Thread : at[t] \in Holding}

\* Mutant of Acquire: one worker more than there are slots.
AcquireOneMore ==
  /\ loop = "start" /\ todo # {}
  /\ ~cancelled /\ Cardinality(Busy) <= slots
  /\ loop' = "go"
  /\ UNCHANGED <<repoVars, at, chart, slots, downloaders, todo, added, cancelled, err, crashed, built>>

\* sem.Acquire gives a slot while the context is not cancelled.
Acquire ==
  /\ loop = "start" /\ todo # {}
  /\ ~cancelled /\ Cardinality(Busy) < slots
  /\ loop' = "go"
  /\ UNCHANGED <<repoVars, at, chart, slots, downloaders, todo, added, cancelled, err, crashed, built>>

\* group.Go, which does not look at the context again.
StartWorker(t) ==
  /\ loop = "go" /\ t \in todo
  /\ at' = [at EXCEPT ![t] = IF RepoOf[t] = NoRepo THEN "local" ELSE "resolve"]
  /\ todo' = todo \ {t}
  /\ loop' = IF todo = {t} THEN "wait" ELSE "start"
  /\ UNCHANGED <<repoVars, chart, slots, downloaders, added, cancelled, err, crashed, built>>

StopStarting ==
  /\ loop = "start" /\ cancelled
  /\ loop' = "wait"
  /\ err' = TRUE
  /\ UNCHANGED <<repoVars, at, chart, slots, downloaders, todo, added, cancelled, crashed, built>>

\* group.Wait
Wait ==
  /\ loop = "wait"
  /\ \A t \in Thread : at[t] \in {"none", "done", "error"}
  /\ loop' = "over"
  /\ built' = IF err THEN "error" ELSE "ok"
  /\ UNCHANGED <<repoVars, at, chart, slots, downloaders, todo, added, cancelled, err, crashed>>

\* The caller's context is cancelled.
Cancel ==
  /\ loop \in {"start", "go", "wait"} /\ ~cancelled
  /\ cancelled' = TRUE
  /\ UNCHANGED <<repoVars, at, chart, slots, downloaders, loop, todo, added, err, crashed, built>>

Loop == Collect \/ Acquire \/ (\E t \in Thread : StartWorker(t)) \/ StopStarting \/ Wait

-----------------------------------------------------------------------------
(***************************************************************************)
(* The workers.                                                            *)
(***************************************************************************)
\* The first step of the client's GetChartVersion.
Ask(t) == Goto(t, IF RepoOf[t] \in OciRepo THEN "tags" ELSE "hasIndex")

\* Mutant of Resolve: the error is put into the map.
ResolveStoresError(t) ==
  /\ at[t] = "resolve"
  /\ downloaders' = [downloaders EXCEPT ![RepoOf[t]] = "error"]
  /\ Goto(t, "failRelease")
  /\ UNCHANGED <<repoVars, chart, slots, group, added, crashed, built>>

\* resolveRepository, under dm.mu: an invalid URL fails; the map answers; or
\* the callback, whose result is put into the map, the nil that comes with
\* an error too.  A worker given nil calls GetChartVersion on it.
Resolve(t) ==
  LET r == RepoOf[t] IN
  /\ at[t] = "resolve"
  /\ \/ /\ Goto(t, "failRelease")
        /\ UNCHANGED <<downloaders, crashed>>
     \/ /\ downloaders[r] = "client"
        /\ Ask(t)
        /\ UNCHANGED <<downloaders, crashed>>
     \/ /\ downloaders[r] = "nil"
        /\ crashed' = TRUE
        /\ UNCHANGED <<at, downloaders>>
     \/ /\ downloaders[r] = "absent"
        /\ downloaders' = [downloaders EXCEPT ![r] = "client"]
        /\ Ask(t)
        /\ UNCHANGED crashed
     \/ /\ downloaders[r] = "absent"
        /\ downloaders' = [downloaders EXCEPT ![r] = "nil"]
        /\ Goto(t, "failRelease")
        /\ UNCHANGED crashed
  /\ UNCHANGED <<repoVars, chart, slots, group, added, built>>

\* addRemoteDependency, from GetChartVersion to LoadArchive.
CallClient(t) ==
  /\ GetChartVersion(t) \/ AskForChart(t) \/ DownloadChart(t)
  /\ UNCHANGED depVars

LoadArchive(t) ==
  /\ \/ at[t] = "fetched" /\ Goto(t, "add")
     \/ at[t] \in {"fetched", "failed"} /\ Goto(t, "failRelease")
  /\ UNCHANGED <<repoVars, depVars>>

\* addLocalDependency up to its last step.
LoadLocal(t) ==
  /\ at[t] = "local"
  /\ Goto(t, "add") \/ Goto(t, "failRelease")
  /\ UNCHANGED <<repoVars, depVars>>

\* Mutant of Add: without the lock, of two appends one may get lost.
AddUnlocked(t) ==
  /\ at[t] = "add"
  /\ \/ added' = Append(added, t)
     \/ /\ \E u \in Thread \ {t} : at[u] = "release"
        /\ UNCHANGED added
  /\ Goto(t, "release")
  /\ UNCHANGED <<repoVars, chart, slots, downloaders, group, crashed, built>>

\* chart.AddDependency, under the lock of chartWithLock.
Add(t) ==
  /\ at[t] = "add"
  /\ added' = Append(added, t)
  /\ Goto(t, "release")
  /\ UNCHANGED <<repoVars, chart, slots, downloaders, group, crashed, built>>

\* Mutant of Release: the slot is given back after a failure only.
ReleaseOnFailure(t) ==
  /\ at[t] = "failRelease" /\ Goto(t, "report")
  /\ UNCHANGED <<repoVars, depVars>>

\* The deferred sem.Release, before the group learns of an error.
Release(t) ==
  /\ \/ at[t] = "release" /\ Goto(t, "done")
     \/ at[t] = "failRelease" /\ Goto(t, "report")
  /\ UNCHANGED <<repoVars, depVars>>

\* The group keeps the first error and cancels its context.
Report(t) ==
  /\ at[t] = "report"
  /\ err' = TRUE /\ cancelled' = TRUE
  /\ Goto(t, "error")
  /\ UNCHANGED <<repoVars, chart, slots, downloaders, loop, todo, added, crashed, built>>

Worker(t) ==
  \/ Resolve(t) \/ CallClient(t) \/ LoadArchive(t) \/ LoadLocal(t) \/ Add(t) \/ Release(t)
  \/ Report(t)

(***************************************************************************)
(* Whoever else has a client of this manager, while the manager works.     *)
(***************************************************************************)
CallMethod ==
  /\ loop \in {"start", "go", "wait"}
  /\ \E r \in Repo \ OciRepo : downloaders[r] = "client" /\ Method(r)
  /\ UNCHANGED depVars

-----------------------------------------------------------------------------
\* Two dependencies of the chart, of one client whose downloads find their
\* transport in one place, can be downloaded at the same time.
MayOverlap ==
  /\ slots > 1
  /\ \E s, t \in Required(chart) : s # t /\ RepoOf[s] = RepoOf[t] /\ RepoOf[s] \in shared

\* Where that cannot be, every download goes through a transport of its own,
\* although clients share theirs: with one slot the semaphore comes free after
\* the transport has been given back, and with more the clients differ.  (Where
\* it can be, not even the downloads of other clients are safe: the transport
\* that the first of the two finds may meanwhile be lent to one of them.)
TransportsApart == ~MayOverlap => OwnTransport

\* A build that returns without an error has added as many charts as it says,
\* each of them required, under its own name and not there before; and then
\* every required name is there, in whatever order the workers got there, but
\* for a chart that held as many charts as it requires to begin with.
CompleteOrFails ==
  built = "ok" =>
    LET names == {KeyOf[t] : t \in Range(added)} IN
    /\ Len(added) = Cardinality(Missing(chart)) /\ Cardinality(names) = Len(added)
    /\ names \cap chart.vendored = {}
    /\ Cardinality(chart.vendored) # Len(chart.required) =>
         {KeyOf[t] : t \in Required(chart)} \subseteq chart.vendored \cup names
=============================================================================
