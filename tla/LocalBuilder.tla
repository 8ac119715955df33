---------------------------- MODULE LocalBuilder ----------------------------
(***************************************************************************)
(* The build of a chart that is in a local directory or archive: Build of  *)
(* internal/helm/chart/builder_local.go, with the dependency manager it    *)
(* has the missing dependencies of a directory added by (Dependencies),    *)
(* and what it writes the archive with (builder.go, internal/fs).          *)
(*                                                                         *)
(* A build ends with the path of an archive: that of the cached chart, if  *)
(* its name and version are those the build would give its own, or else    *)
(* the one it was told to write.  An archive that is being written is Torn *)
(* until all of it is there, and cannot be read.                           *)
(***************************************************************************)
EXTENDS Dependencies

CONSTANTS
  Situations,  \* what a build may find, see Situation
  NoArchive,   \* no file, or no path
  Torn         \* part of an archive

\* An archive: whether its version is that of the source, that of the source
\* with the metadata asked for, or another (or has another name); whose
\* values it has; and the charts in it.
Archive ==
  [version : {"plain", "meta", "other"}, values : {"own", "merged"},
   charts : SUBSET (Range(KeyOf) \cup UNION {c.vendored : c \in Charts})]

\* A situation: is the source a directory; is version metadata asked for, and
\* is it fit; are values files, and are they fit; what the cached chart is, and
\* whether it may not be used; is there a dependency manager, and with how many
\* slots; is the path to write to on another device, and what is there; and
\* what of the repository clients is known beforehand.
Situation(s) ==
  /\ s.dir \in BOOLEAN /\ s.force \in BOOLEAN /\ s.manager \in BOOLEAN /\ s.far \in BOOLEAN
  /\ s.metadata \in {"none", "fit", "unfit"} /\ s.valuesFiles \in {"none", "fit", "unfit"}
  /\ s.cachedChart \in Archive \cup {NoArchive, Torn}
  /\ s.before \in Archive \cup {NoArchive, Torn}
  /\ s.chart \in Charts /\ s.slots \in Nat \ {0}
  /\ s.downloaders \in [Repo -> {"absent", "client"}] /\ s.shared \subseteq Repo
  /\ s.rpath \in [Repo -> File \cup {NoFile}] /\ s.disk \in [File -> Revision \cup {NoFile}]
  /\ \A r, q \in Repo : s.rpath[r] = s.rpath[q] /\ s.rpath[r] # NoFile => r = q

ASSUME LocalAssumption ==
  /\ \A s \in Situations : Situation(s)
  /\ \A a \in Archive : a \notin {NoArchive, Torn}

VARIABLES
  given,  \* the situation
  step,   \* where the build is
  out,    \* what is at the path to write to
  path    \* the path the build reports: "cached", "out", or "none"

local == <<given, step, out, path>>
vars == <<repoVars, at, depVars, local>>

TypeOK ==
  /\ RepoTypeOK /\ DepTypeOK
  /\ Situation(given)
  /\ step \in {"check", "copy", "copying", "load", "dependencies", "package", "writing", "ok", "error"}
  /\ out \in Archive \cup {NoArchive, Torn}
  /\ path \in {"none", "cached", "out"}

Init ==
  /\ given \in Situations
  /\ DepInit(given)
  /\ step = "check" /\ path = "none"
  /\ out = given.before

-----------------------------------------------------------------------------
ResolvedVersion == IF given.metadata = "none" THEN "plain" ELSE "meta"

RequiresPackaging == given.dir \/ given.metadata # "none" \/ given.valuesFiles # "none"

Source == [version |-> "plain", values |-> "own", charts |-> chart.vendored]

Packaged ==
  [version |-> ResolvedVersion,
   values |-> IF given.valuesFiles = "none" THEN "own" ELSE "merged",
   charts |-> chart.vendored \cup {KeyOf[t] : t \in Range(added)}]

Over == crashed \/ step \in {"ok", "error"}

\* What a step of the build leaves alone unless it says otherwise.
Parts == <<repoVars, at, depVars, given>>

Fail == step' = "error" /\ UNCHANGED <<Parts, out, path>>

Proceed(there) == step' = there /\ UNCHANGED <<Parts, out, path>>

Done(where) == step' = "ok" /\ path' = where /\ UNCHANGED Parts

\* Mutant of UsesCached: the version is not compared.
UsesCachedOfAnyVersion == given.cachedChart \notin {NoArchive, Torn} /\ ~given.force

\* Of the cached chart only the name and the version are looked at.
UsesCached ==
  /\ given.cachedChart \notin {NoArchive, Torn} /\ ~given.force
  /\ given.cachedChart.version = ResolvedVersion

\* The reference, the metadata of the source, the version, and the cached
\* chart; any of the first three may fail the build.
CheckReference ==
  /\ step = "check"
  /\ \/ Fail
     \/ given.metadata # "unfit" /\ UsesCached /\ Done("cached") /\ UNCHANGED out
     \/ /\ given.metadata # "unfit" /\ ~UsesCached
        /\ Proceed(IF RequiresPackaging THEN "load" ELSE "copy")

\* copyFileToPath truncates what is there before it opens the source.
CreateCopy ==
  /\ step = "copy"
  /\ \/ Fail
     \/ /\ step' = "copying" /\ out' = Torn
        /\ UNCHANGED <<Parts, path>>

Copy ==
  /\ step = "copying"
  /\ \/ Fail
     \/ Done("out") /\ out' = Source

\* mergeFileValues, secureloader.Load, and OverwriteChartDefaultValues; a
\* directory then needs a dependency manager.
LoadChart ==
  /\ step = "load"
  /\ \/ Fail
     \/ given.valuesFiles # "unfit" /\ ~given.dir /\ Proceed("package")
     \/ /\ given.valuesFiles # "unfit" /\ given.dir /\ given.manager
        /\ step' = "dependencies" /\ loop' = "collect"
        /\ UNCHANGED <<repoVars, at, chart, slots, downloaders, todo, cancelled, err, added, crashed, built,
                       given, out, path>>

EndDependencies ==
  /\ step = "dependencies"
  /\ \/ built = "ok" /\ Proceed("package")
     \/ built = "error" /\ Fail

\* packageToPath: the archive is made elsewhere and then renamed; on another
\* device it is copied, and the original removed, which may fail as well.
PackageChart ==
  /\ step = "package"
  /\ \/ Fail
     \/ ~given.far /\ Done("out") /\ out' = Packaged
     \/ /\ given.far /\ step' = "writing" /\ out' = Torn
        /\ UNCHANGED <<Parts, path>>

CopyPackage ==
  /\ step = "writing"
  /\ \/ Fail
     \/ Done("out") /\ out' = Packaged
     \/ /\ step' = "error" /\ out' = Packaged
        /\ UNCHANGED <<Parts, path>>

Build ==
  \/ CheckReference \/ CreateCopy \/ Copy \/ LoadChart \/ EndDependencies \/ PackageChart
  \/ CopyPackage

Finished == Over /\ UNCHANGED vars

Next ==
  \/ ~Over /\ Build
  \/ ~Over /\ Loop /\ UNCHANGED local
  \/ ~Over /\ (\E t \in Thread : Worker(t)) /\ UNCHANGED local
  \/ ~Over /\ Cancel /\ UNCHANGED local
  \/ ~Over /\ CallMethod /\ UNCHANGED local
  \/ Finished

\* The process runs on, and every call it waits for returns; nobody need
\* cancel, nor call another method.
Fairness ==
  /\ WF_vars(~Over /\ Build)
  /\ WF_vars(~Over /\ Loop /\ UNCHANGED local)
  /\ \A t \in Thread : WF_vars(~Over /\ Worker(t) /\ UNCHANGED local)

Spec == Init /\ [][Next]_vars /\ Fairness

-----------------------------------------------------------------------------
(***************************************************************************)
(* Properties.                                                             *)
(***************************************************************************)
\* What a build reports can be used: a whole archive at the path it names, of
\* the version it names; one it has written has the values asked for and, of
\* a directory, every required chart (but see CompleteOrFails).  One that
\* fails, or takes the cached chart, has left what was there alone, but for a
\* copy: an archive taken as it is, or one that is brought from another device.
ReportsWhatIsThere ==
  LET reported == IF path = "cached" THEN given.cachedChart ELSE out
      counted == Cardinality(chart.vendored) = Len(chart.required)
  IN  /\ step = "ok" =>
           /\ reported \notin {NoArchive, Torn}
           /\ reported.version = ResolvedVersion
           /\ path = "out" =>
                /\ reported.values = "merged" <=> given.valuesFiles # "none"
                /\ given.dir /\ ~counted => {KeyOf[t] : t \in Required(chart)} \subseteq reported.charts
      /\ Over /\ path # "out" /\ out # given.before =>
           ~RequiresPackaging \/ given.far

\* Every build ends, unless a nil client has been called: the group and its
\* semaphore leave nobody waiting.
BuildEnds == <>Over
=============================================================================
