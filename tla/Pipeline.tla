------------------------------ MODULE Pipeline ------------------------------
(***************************************************************************)
(* One run of flux-build: Action.Run of internal/action/action.go.         *)
(*                                                                         *)
(* Run starts a writer task (helmResultPool), a task per kustomize path    *)
(* (kustomizePool) and a task that collects the built resources into an    *)
(* index (resourcePool); when the index is complete it starts a task per   *)
(* HelmRelease found in it (helmPool, at most Workers at a time).  Tasks   *)
(* hand what they build to the writer over the channel manifests, and      *)
(* their errors to a reader goroutine over the channel errs, which cancels *)
(* the context when --fail-fast is set.  Run ends by stopping the pools    *)
(* and closing the channels one after the other, and exits with status 1   *)
(* when the reader has recorded an error.                                  *)
(*                                                                         *)
(* What a build does inside is left out: it succeeds, fails or panics.     *)
(* The pools are those of the pond library (not part of the repository):   *)
(* a submitted task starts at once while a worker is free and queues       *)
(* otherwise; a cancelled context drops queued and new tasks and lets      *)
(* running ones finish; StopAndWait waits for the running ones; a panic is *)
(* recovered and is the result of the task's future.                       *)
(***************************************************************************)
EXTENDS Naturals, Sequences, FiniteSets

CONSTANTS
  Path,       \* the kustomize paths, one per argument
  Release,    \* the HelmReleases that may turn up in the index
  Declares,   \* the HelmReleases each path builds
  Workers,    \* --workers: size of helmPool and of the buffer of manifests
  MayPanic    \* the tasks that may panic

Producer == Path \cup Release

Task == Producer \cup {"writer", "collector"}

None == "none"

ASSUME WorkersAssumption == Workers \in Nat \ {0}
ASSUME TaskAssumption ==
  /\ Path \cap Release = {}
  /\ {"writer", "collector", None} \cap Producer = {}
  /\ Declares \in [Path -> SUBSET Release]
  /\ MayPanic \subseteq Task
  /\ IsFiniteSet(Path) /\ IsFiniteSet(Release)

VARIABLES
  flags,       \* --fail-fast and --allow-failure
  main,        \* where Run is
  todo,        \* what is left of the loop Run is in
  task,        \* where each task is
  writing,     \* the manifest in the writer's hands
  pushing,     \* the path whose resources the collector pushes
  manifests,   \* the channel of built manifests, named by the task that built them
  resources,   \* the channel of built kustomizations, named by their path
  closed,      \* the channels that have been closed
  index,       \* the HelmReleases in the resource index
  reader,      \* where the goroutine that ranges over errs is
  lastErr,     \* whether an error has been recorded
  cancelled,   \* whether the context is cancelled
  forward,     \* the panicked tasks whose forwarder has yet to send
  output,      \* what the writer has written, in order
  unwritten,   \* the manifests that could not be encoded or written
  pushFailed,  \* whether a kustomization could not be indexed
  reported,    \* errors received from errs, counted up to two
  status       \* the exit status, 2 until there is one

mainVars == <<main, todo, status>>
errVars == <<reader, lastErr, cancelled, reported>>
chanVars == <<manifests, resources, closed>>
indexVars == <<index, pushing, pushFailed>>
writeVars == <<writing, output, unwritten>>
vars == <<flags, mainVars, task, forward, chanVars, indexVars, writeVars, errVars>>

\* Where a task is.  A task that waits for its turn in a pool is queued;
\* the writer and the collector receive in a loop.
Ended == {"done", "failed", "panicked", "dropped"}
Busy == {"building", "sendManifest", "sendResource", "sendErr", "receive", "handle"}

Stage == {"start", "paths", "collector", "kustomizing", "collecting", "releases",
          "releasing", "writing", "forwarding", "exit", "exited"}

TypeOK ==
  /\ flags \in [failFast : BOOLEAN, allowFailure : BOOLEAN]
  /\ main \in Stage
  /\ todo \in SUBSET Producer
  /\ task \in [Task -> {"none", "queued"} \cup Busy \cup Ended]
  /\ writing \in Producer \cup {None} /\ pushing \in Path \cup {None}
  /\ manifests \in Seq(Producer) /\ Len(manifests) <= Workers
  /\ resources \in Seq(Path) /\ Len(resources) <= Cardinality(Path)
  /\ closed \subseteq {"manifests", "resources", "errs"}
  /\ index \subseteq Release
  /\ reader \in {"receive", "record", "cancel"}
  /\ lastErr \in BOOLEAN /\ cancelled \in BOOLEAN /\ pushFailed \in BOOLEAN
  /\ forward \subseteq Task
  /\ output \in Seq(Producer)
  /\ unwritten \subseteq Producer
  /\ reported \in 0..2 /\ status \in 0..2

Init ==
  /\ flags \in [failFast : BOOLEAN, allowFailure : BOOLEAN]
  /\ main = "start" /\ todo = Path /\ status = 2
  /\ task = [t \in Task |-> "none"]
  /\ writing = None /\ pushing = None
  /\ manifests = <<>> /\ resources = <<>> /\ closed = {}
  /\ index = {} /\ pushFailed = FALSE
  /\ reader = "receive" /\ lastErr = FALSE /\ cancelled = FALSE /\ reported = 0
  /\ forward = {}
  /\ output = <<>> /\ unwritten = {}

-----------------------------------------------------------------------------
(***************************************************************************)
(* Steps common to the tasks.                                              *)
(***************************************************************************)
Move(t, to) == task' = [task EXCEPT ![t] = to]

Goto(stage) == main' = stage

\* A task hands its error to the reader, which must be there to receive it.
SendErr(t) ==
  /\ task[t] = "sendErr"
  /\ reader = "receive"
  /\ reader' = "record"
  /\ reported' = IF reported = 2 THEN 2 ELSE reported + 1
  /\ Move(t, IF t \in Producer THEN "failed" ELSE "receive")
  /\ UNCHANGED <<flags, mainVars, lastErr, cancelled, forward, chanVars, indexVars, writeVars>>

\* A task panics while it works: pond recovers it and its future fails with
\* ErrPanic, unless the context was cancelled first and failed the future.
Panic(t) ==
  /\ t \in MayPanic
  /\ task[t] \in {"building", "handle"}
  /\ Move(t, "panicked")
  /\ forward' = IF cancelled THEN forward ELSE forward \cup {t}
  /\ pushFailed' = (pushFailed \/ t = "collector")
  /\ UNCHANGED <<flags, mainVars, errVars, chanVars, index, pushing, writeVars>>

\* Mutant of ForwardPanic: the forwarder never says it is done.
ForwardPanicNoDone(t) ==
  /\ t \in forward
  /\ reader = "receive"
  /\ reader' = "record"
  /\ reported' = IF reported = 2 THEN 2 ELSE reported + 1
  /\ UNCHANGED <<flags, mainVars, lastErr, cancelled, task, forward, chanVars, indexVars,
                 writeVars>>

\* The goroutine submit() starts for a task forwards its panic to errs.
ForwardPanic(t) ==
  /\ t \in forward
  /\ reader = "receive"
  /\ reader' = "record"
  /\ reported' = IF reported = 2 THEN 2 ELSE reported + 1
  /\ forward' = forward \ {t}
  /\ UNCHANGED <<flags, mainVars, lastErr, cancelled, task, chanVars, indexVars, writeVars>>

(***************************************************************************)
(* The reader of errs.                                                     *)
(***************************************************************************)
\* Mutant of RecordError: the error is only looked at for --fail-fast.
RecordNothing ==
  /\ reader = "record"
  /\ reader' = IF flags.failFast THEN "cancel" ELSE "receive"
  /\ UNCHANGED <<flags, mainVars, task, lastErr, cancelled, reported, forward, chanVars,
                 indexVars, writeVars>>

RecordError ==
  /\ reader = "record"
  /\ lastErr' = TRUE
  /\ reader' = IF flags.failFast THEN "cancel" ELSE "receive"
  /\ UNCHANGED <<flags, mainVars, task, cancelled, reported, forward, chanVars, indexVars,
                 writeVars>>

CancelContext ==
  /\ reader = "cancel"
  /\ cancelled' = TRUE
  /\ reader' = "receive"
  /\ UNCHANGED <<flags, mainVars, task, lastErr, reported, forward, chanVars, indexVars,
                 writeVars>>

(***************************************************************************)
(* The tasks that build: one per path, one per HelmRelease.                *)
(***************************************************************************)
BuildSucceeds(t) ==
  /\ task[t] = "building"
  /\ Move(t, "sendManifest")
  /\ UNCHANGED <<flags, mainVars, errVars, forward, chanVars, indexVars, writeVars>>

BuildFails(t) ==
  /\ task[t] = "building"
  /\ Move(t, "sendErr")
  /\ UNCHANGED <<flags, mainVars, errVars, forward, chanVars, indexVars, writeVars>>

\* Mutant of SendManifest: the send does not block on a full buffer.
SendManifestAlways(t) ==
  /\ task[t] = "sendManifest"
  /\ manifests' = Append(manifests, t)
  /\ Move(t, IF t \in Path THEN "sendResource" ELSE "done")
  /\ UNCHANGED <<flags, mainVars, errVars, forward, resources, closed, indexVars, writeVars>>

\* manifests <- index blocks while the buffer is full.
SendManifest(t) ==
  /\ task[t] = "sendManifest"
  /\ Len(manifests) < Workers
  /\ manifests' = Append(manifests, t)
  /\ Move(t, IF t \in Path THEN "sendResource" ELSE "done")
  /\ UNCHANGED <<flags, mainVars, errVars, forward, resources, closed, indexVars, writeVars>>

\* A path also hands its resources to the collector.
SendResource(p) ==
  /\ task[p] = "sendResource"
  /\ Len(resources) < Cardinality(Path)
  /\ resources' = Append(resources, p)
  /\ Move(p, "done")
  /\ UNCHANGED <<flags, mainVars, errVars, forward, manifests, closed, indexVars, writeVars>>

\* helmPool: a queued release starts when a worker is free, and is dropped
\* when the context is cancelled.
Running(ts) == {t \in ts : task[t] \in Busy}

StartQueued(r) ==
  /\ task[r] = "queued" /\ ~cancelled
  /\ Cardinality(Running(Release)) < Workers
  /\ Move(r, "building")
  /\ UNCHANGED <<flags, mainVars, errVars, forward, chanVars, indexVars, writeVars>>

DropQueued(r) ==
  /\ task[r] = "queued" /\ cancelled
  /\ Move(r, "dropped")
  /\ UNCHANGED <<flags, mainVars, errVars, forward, chanVars, indexVars, writeVars>>

Build(t) ==
  \/ BuildSucceeds(t) \/ BuildFails(t) \/ SendManifest(t)
  \/ t \in Path /\ SendResource(t)
  \/ t \in Release /\ (StartQueued(t) \/ DropQueued(t))

(***************************************************************************)
(* The collector: it pushes the resources of each path into the index.     *)
(***************************************************************************)
ReceiveResource ==
  /\ task["collector"] = "receive"
  /\ resources # <<>>
  /\ pushing' = Head(resources)
  /\ resources' = Tail(resources)
  /\ Move("collector", "handle")
  /\ UNCHANGED <<flags, mainVars, errVars, forward, manifests, closed, index, pushFailed,
                 writeVars>>

\* ResourceIndex.Push adds a path's resources one by one; an error leaves
\* those before it in the index.
Push ==
  /\ task["collector"] = "handle"
  /\ \/ /\ index' = index \cup Declares[pushing]
        /\ Move("collector", "receive")
        /\ UNCHANGED pushFailed
     \/ /\ \E some \in SUBSET Declares[pushing] : index' = index \cup some
        /\ Move("collector", "sendErr")
        /\ pushFailed' = TRUE
  /\ pushing' = None
  /\ UNCHANGED <<flags, mainVars, errVars, forward, chanVars, writeVars>>

\* Mutant of CollectorEnds: it stops at the close with paths left to push.
CollectorStops ==
  /\ task["collector"] = "receive"
  /\ "resources" \in closed
  /\ Move("collector", "done")
  /\ UNCHANGED <<flags, mainVars, errVars, forward, chanVars, indexVars, writeVars>>

CollectorEnds ==
  /\ task["collector"] = "receive"
  /\ resources = <<>> /\ "resources" \in closed
  /\ Move("collector", "done")
  /\ UNCHANGED <<flags, mainVars, errVars, forward, chanVars, indexVars, writeVars>>

(***************************************************************************)
(* The writer: it writes every manifest as it arrives.                     *)
(***************************************************************************)
ReceiveManifest ==
  /\ task["writer"] = "receive"
  /\ manifests # <<>>
  /\ writing' = Head(manifests)
  /\ manifests' = Tail(manifests)
  /\ Move("writer", "handle")
  /\ UNCHANGED <<flags, mainVars, errVars, forward, resources, closed, indexVars, output,
                 unwritten>>

Write ==
  /\ task["writer"] = "handle"
  /\ \/ /\ output' = Append(output, writing)
        /\ Move("writer", "receive")
        /\ UNCHANGED unwritten
     \/ /\ unwritten' = unwritten \cup {writing}
        /\ Move("writer", "sendErr")
        /\ UNCHANGED output
  /\ writing' = None
  /\ UNCHANGED <<flags, mainVars, errVars, forward, chanVars, indexVars>>

WriterEnds ==
  /\ task["writer"] = "receive"
  /\ manifests = <<>> /\ "manifests" \in closed
  /\ Move("writer", "done")
  /\ UNCHANGED <<flags, mainVars, errVars, forward, chanVars, indexVars, writeVars>>

TaskStep(t) ==
  \/ SendErr(t) \/ Panic(t)
  \/ t \in Producer /\ Build(t)
  \/ t = "collector" /\ (ReceiveResource \/ Push \/ CollectorEnds)
  \/ t = "writer" /\ (ReceiveManifest \/ Write \/ WriterEnds)

-----------------------------------------------------------------------------
(***************************************************************************)
(* Run itself.                                                             *)
(***************************************************************************)
\* p.Submit: a cancelled pool drops the task, a free worker starts it.
Submit(t, pool, size, first) ==
  Move(t, IF cancelled THEN "dropped"
          ELSE IF Cardinality(Running(pool)) < size THEN first
          ELSE "queued")

\* StopAndWait returns when no task of the pool is queued or running.
Stopped(pool) == \A t \in pool : task[t] \in Ended \cup {"none"}

Close(channel) == closed' = closed \cup {channel}

StartWriter ==
  /\ main = "start"
  /\ Submit("writer", {"writer"}, 1, "receive")
  /\ Goto("paths")
  /\ UNCHANGED <<flags, todo, status, errVars, forward, chanVars, indexVars, writeVars>>

StartPath ==
  /\ main = "paths"
  /\ \E p \in todo :
       /\ Submit(p, Path, Cardinality(Path), "building")
       /\ todo' = todo \ {p}
       /\ Goto(IF todo = {p} THEN "collector" ELSE "paths")
  /\ UNCHANGED <<flags, status, errVars, forward, chanVars, indexVars, writeVars>>

StartCollector ==
  /\ main = "collector"
  /\ Submit("collector", {"collector"}, 1, "receive")
  /\ Goto("kustomizing")
  /\ UNCHANGED <<flags, todo, status, errVars, forward, chanVars, indexVars, writeVars>>

\* kustomizePool.StopAndWait, close(resources)
StopKustomize ==
  /\ main = "kustomizing"
  /\ Stopped(Path)
  /\ Close("resources")
  /\ Goto("collecting")
  /\ UNCHANGED <<flags, todo, status, task, errVars, forward, manifests, resources,
                 indexVars, writeVars>>

\* Mutant of StopCollector: the pool is stopped without waiting for it.
StopCollectorNoWait ==
  /\ main = "collecting"
  /\ todo' = index
  /\ Goto("releases")
  /\ UNCHANGED <<flags, status, task, errVars, forward, chanVars, indexVars, writeVars>>

\* resourcePool.StopAndWait, and the loop over the index begins.
StopCollector ==
  /\ main = "collecting"
  /\ Stopped({"collector"})
  /\ todo' = index
  /\ Goto("releases")
  /\ UNCHANGED <<flags, status, task, errVars, forward, chanVars, indexVars, writeVars>>

\* The map is ranged over in any order; a cancelled context breaks the loop.
StartRelease ==
  /\ main = "releases"
  /\ ~cancelled
  /\ \E r \in todo :
       /\ Submit(r, Release, Workers, "building")
       /\ todo' = todo \ {r}
  /\ UNCHANGED <<flags, main, status, errVars, forward, chanVars, indexVars, writeVars>>

EndReleases ==
  /\ main = "releases"
  /\ cancelled \/ todo = {}
  /\ todo' = {}
  /\ Goto("releasing")
  /\ UNCHANGED <<flags, status, task, errVars, forward, chanVars, indexVars, writeVars>>

\* Mutants of StopHelm: the pool is stopped without waiting for it; the
\* channel is left open.
StopHelmNoWait ==
  /\ main = "releasing"
  /\ Close("manifests")
  /\ Goto("writing")
  /\ UNCHANGED <<flags, todo, status, task, errVars, forward, manifests, resources,
                 indexVars, writeVars>>

StopHelmNoClose ==
  /\ main = "releasing"
  /\ Stopped(Release)
  /\ Goto("writing")
  /\ UNCHANGED <<flags, todo, status, task, errVars, forward, chanVars, indexVars, writeVars>>

\* helmPool.StopAndWait, close(manifests)
StopHelm ==
  /\ main = "releasing"
  /\ Stopped(Release)
  /\ Close("manifests")
  /\ Goto("writing")
  /\ UNCHANGED <<flags, todo, status, task, errVars, forward, manifests, resources,
                 indexVars, writeVars>>

\* Mutant of StopWriter: the pool is stopped without waiting for it.
StopWriterNoWait ==
  /\ main = "writing"
  /\ Goto("forwarding")
  /\ UNCHANGED <<flags, todo, status, task, errVars, forward, chanVars, indexVars, writeVars>>

\* helmResultPool.StopAndWait
StopWriter ==
  /\ main = "writing"
  /\ Stopped({"writer"})
  /\ Goto("forwarding")
  /\ UNCHANGED <<flags, todo, status, task, errVars, forward, chanVars, indexVars, writeVars>>

\* Mutant of StopForward: errs is closed without panicForward.Wait.
StopForwardNoWait ==
  /\ main = "forwarding"
  /\ Close("errs")
  /\ Goto("exit")
  /\ UNCHANGED <<flags, todo, status, task, errVars, forward, manifests, resources,
                 indexVars, writeVars>>

\* panicForward.Wait, close(errs)
StopForward ==
  /\ main = "forwarding"
  /\ forward = {}
  /\ Close("errs")
  /\ Goto("exit")
  /\ UNCHANGED <<flags, todo, status, task, errVars, forward, manifests, resources,
                 indexVars, writeVars>>

\* The deferred function reads lastErr, whatever the reader is doing.
Exit ==
  /\ main = "exit"
  /\ status' = IF lastErr /\ ~flags.allowFailure THEN 1 ELSE 0
  /\ Goto("exited")
  /\ UNCHANGED <<flags, todo, task, errVars, forward, chanVars, indexVars, writeVars>>

Main ==
  \/ StartWriter \/ StartPath \/ StartCollector \/ StopKustomize \/ StopCollector
  \/ StartRelease \/ EndReleases \/ StopHelm \/ StopWriter \/ StopForward \/ Exit

\* The process is gone once Run has returned.
Gone == main = "exited" /\ UNCHANGED vars

Next ==
  \/ /\ main # "exited"
     /\ \/ Main \/ RecordError \/ CancelContext
        \/ \E t \in Task : TaskStep(t) \/ ForwardPanic(t)
  \/ Gone

\* Every goroutine runs: the Go scheduler starves none of them.
Fairness ==
  /\ WF_vars(Main)
  /\ WF_vars(main # "exited" /\ (RecordError \/ CancelContext))
  /\ \A t \in Task : /\ WF_vars(main # "exited" /\ TaskStep(t))
                     /\ WF_vars(main # "exited" /\ ForwardPanic(t))

Spec == Init /\ [][Next]_vars /\ Fairness

-----------------------------------------------------------------------------
(***************************************************************************)
(* Properties.                                                             *)
(***************************************************************************)
\* No goroutine is about to send on a channel that has been closed, which
\* would panic outside any pool: manifests is closed only when every
\* producer is through, errs only when every sender and forwarder is.
NoSendOnClosed ==
  /\ "manifests" \in closed => \A t \in Task : task[t] # "sendManifest"
  /\ "resources" \in closed => \A t \in Task : task[t] # "sendResource"
  /\ "errs" \in closed => forward = {} /\ \A t \in Task : task[t] # "sendErr"

\* The collector never writes the index while Run ranges over it or a
\* release build looks values up in it (a concurrent map access is fatal).
NoIndexRace ==
  task["collector"] = "handle" =>
    /\ main \notin {"releases", "releasing"}
    /\ Running(Release) = {}

\* Once Run is over, everything that was built and handed over has been
\* written exactly once, or its writing has been reported as an error.
NothingLost ==
  main = "exited" =>
    /\ {output[i] : i \in DOMAIN output} \cup unwritten = {t \in Producer : task[t] = "done"}
    /\ Len(output) + Cardinality(unwritten) = Cardinality({t \in Producer : task[t] = "done"})

\* Once Run is over, every HelmRelease of every path that was built has
\* been built as well, unless the context was cancelled or the resources of
\* a path could not be indexed.
EveryReleaseBuilt ==
  main = "exited" /\ ~cancelled /\ ~pushFailed =>
    \A p \in Path : task[p] = "done" =>
      \A r \in Declares[p] : task[r] \in {"done", "failed", "panicked"}

\* The exit status is 1 only for an error and never with --allow-failure,
\* and 0 without it only if the run had at most one error: the reader
\* records an error before it receives the next.
StatusHidesAtMostOneError ==
  /\ status = 1 => lastErr /\ ~flags.allowFailure
  /\ status = 0 /\ ~flags.allowFailure => reported <= 1

\* A run is a batch, see Batch: what the tasks and channels do together is one
\* step of it at a time.  What is dropped from a pool has never been built.
BatchStage ==
  IF main = "exited" THEN "over"
  ELSE IF main \in {"releases", "releasing", "writing", "forwarding", "exit"} THEN "releases"
  ELSE "paths"

Result == [t \in Producer |->
  IF task[t] \in {"sendManifest", "sendResource", "done"} THEN "built"
  ELSE IF task[t] \in {"sendErr", "failed", "panicked"} THEN "failed"
  ELSE "none"]

Promise == INSTANCE Batch
             WITH stage <- BatchStage, result <- Result, gaveUp <- (cancelled \/ pushFailed)

ImplementsBatch == Promise!Spec

\* Every run comes to an end, whatever fails, in whatever order.
Terminates == <>(main = "exited")

\* "Do not exit > 0 if an error occurred" is what --allow-failure is for:
\* without it a run that had an error does not exit with status 0.
ErrorsFailTheRun ==
  status = 0 /\ ~flags.allowFailure => reported = 0
=============================================================================
