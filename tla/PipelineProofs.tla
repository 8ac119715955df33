--------------------------- MODULE PipelineProofs ---------------------------
(***************************************************************************)
(* Proofs about Pipeline, for any paths, releases and number of workers,   *)
(* and whatever fails or panics.  The invariant, PInv, says which tasks    *)
(* there can be at each stage of Run; what is delivered and not lost is    *)
(* said by Delivery, and what becomes of the releases by Indexing, both    *)
(* proved with the help of PInv.                                           *)
(***************************************************************************)
EXTENDS Pipeline, TLAPS, FiniteSetTheorems

\* The steps a task of each kind can be at.
Roles ==
  /\ \A t \in Producer :
       task[t] \in {"none", "queued", "building", "sendManifest", "sendResource", "sendErr"} \cup Ended
  /\ \A r \in Release : task[r] # "sendResource"
  /\ \A t \in {"writer", "collector"} :
       task[t] \in {"none", "queued", "receive", "handle", "sendErr"} \cup Ended
  /\ task["writer"] = "handle" => writing \in Producer
  /\ task["collector"] = "handle" => pushing \in Path

\* The stages of Run that a channel or a pool has behind it.
Kustomized == Stage \ {"start", "paths", "collector", "kustomizing"}
Collected == Kustomized \ {"collecting"}
Released == Collected \ {"releases", "releasing"}
Written == Released \ {"writing"}
Forwarded == Written \ {"forwarding"}

\* What runs at each stage, and which channels are closed.
Stages ==
  /\ main = "start" =>
       /\ \A t \in Task : task[t] = "none"
       /\ forward = {} /\ reader = "receive" /\ ~cancelled
  /\ main \in {"start", "paths"} => \A p \in todo : p \in Path /\ task[p] = "none"
  /\ main \in {"start", "paths", "collector"} => task["collector"] = "none"
  /\ main \in Kustomized => Stopped(Path)
  /\ main \in Collected => Stopped({"collector"})
  /\ main \notin Collected => \A r \in Release : task[r] = "none"
  /\ main = "releases" => \A r \in todo : r \in Release /\ task[r] = "none"
  /\ main \in Released => Stopped(Release)
  /\ main \in Written => Stopped({"writer"})
  /\ main \in Forwarded => forward = {}
  /\ "resources" \in closed <=> main \in Kustomized
  /\ "manifests" \in closed <=> main \in Released
  /\ "errs" \in closed <=> main \in Forwarded

\* The reader records an error before it receives the next.
Recorded ==
  /\ reported >= 1 => lastErr \/ reader = "record"
  /\ reported = 2 => lastErr
  /\ main # "exited" => status = 2
  /\ StatusHidesAtMostOneError

PInv == TypeOK /\ Roles /\ Stages /\ Recorded

-----------------------------------------------------------------------------
(***************************************************************************)
(* Types and roles.                                                        *)
(***************************************************************************)
USE TaskAssumption, WorkersAssumption DEF mainVars, errVars, chanVars, indexVars, writeVars, Task, Producer, None

\* Where a task can be sent to.
Place == {"none", "queued"} \cup Busy \cup Ended

\* A step that leaves all but the tasks, the panics to forward and the flags alone.
LEMMA TasksMove ==
  ASSUME TypeOK, task' \in [Task -> Place], forward' \subseteq Task, pushFailed' \in BOOLEAN,
         UNCHANGED <<flags, mainVars, errVars, chanVars, index, pushing, writeVars>>
  PROVE  TypeOK'
BY DEF TypeOK, Place

LEMMA TaskTypes ==
  ASSUME TypeOK, Roles, NEW t \in Task, TaskStep(t)
  PROVE  TypeOK'
<1> USE DEF Move, Busy, Ended, Place
<1>0. task \in [Task -> Place] /\ forward \subseteq Task /\ pushFailed \in BOOLEAN
  BY DEF TypeOK
<1>1. CASE SendErr(t)
  <2>1. task' \in [Task -> Place]
    BY <1>0, <1>1 DEF SendErr
  <2>2. reported' \in 0..2 /\ reader' \in {"receive", "record", "cancel"}
    BY <1>1 DEF SendErr, TypeOK
  <2> QED BY <1>1, <2>1, <2>2 DEF SendErr, TypeOK
<1>2. CASE Panic(t)
  <2>1. pushFailed' \in BOOLEAN
    BY <1>2, Zenon DEF Panic
  <2> QED BY <1>0, <1>2, <2>1, TasksMove DEF Panic, indexVars
<1>3. CASE t \in Producer /\ Build(t)
  <2>1. CASE BuildSucceeds(t)
    BY <1>0, <2>1, TasksMove DEF BuildSucceeds
  <2>2. CASE BuildFails(t)
    BY <1>0, <2>2, TasksMove DEF BuildFails
  <2>3. CASE SendManifest(t)
    <3>1. task' \in [Task -> Place]
      BY <1>0, <2>3 DEF SendManifest
    <3>2. manifests' \in Seq(Producer) /\ Len(manifests') <= Workers
      BY <1>3, <2>3 DEF SendManifest, TypeOK
    <3> QED BY <2>3, <3>1, <3>2 DEF SendManifest, TypeOK
  <2>4. CASE t \in Path /\ SendResource(t)
    <3>1. task' \in [Task -> Place]
      BY <1>0, <2>4 DEF SendResource
    <3>2. resources' \in Seq(Path) /\ Len(resources') <= Cardinality(Path)
      BY <2>4, FS_CardinalityType DEF SendResource, TypeOK
    <3> QED BY <2>4, <3>1, <3>2 DEF SendResource, TypeOK
  <2>5. CASE StartQueued(t)
    BY <1>0, <2>5, TasksMove DEF StartQueued
  <2>6. CASE DropQueued(t)
    BY <1>0, <2>6, TasksMove DEF DropQueued
  <2> QED BY <1>3, <2>1, <2>2, <2>3, <2>4, <2>5, <2>6 DEF Build
<1>4. CASE t = "collector" /\ ReceiveResource
  <2>1. task' \in [Task -> Place]
    BY <1>0, <1>4 DEF ReceiveResource
  <2>2. pushing' \in Path /\ resources' \in Seq(Path) /\ Len(resources') <= Cardinality(Path)
    BY <1>4, FS_CardinalityType DEF ReceiveResource, TypeOK
  <2> QED BY <1>4, <2>1, <2>2 DEF ReceiveResource, TypeOK
<1>5. CASE t = "collector" /\ Push
  <2>1. task' \in [Task -> Place]
    BY <1>0, <1>5 DEF Push
  <2>2. pushFailed' \in BOOLEAN
    BY <1>0, <1>5 DEF Push
  <2>3. Declares[pushing] \subseteq Release
    BY <1>5 DEF Push, Roles
  <2>4. index' \subseteq Release
    BY <1>5, <2>3 DEF Push, TypeOK
  <2> QED BY <1>5, <2>1, <2>2, <2>4 DEF Push, TypeOK
<1>6. CASE t = "collector" /\ CollectorEnds
  BY <1>0, <1>6, TasksMove DEF CollectorEnds
<1>7. CASE t = "writer" /\ ReceiveManifest
  <2>1. task' \in [Task -> Place]
    BY <1>0, <1>7 DEF ReceiveManifest
  <2>2. writing' \in Producer /\ manifests' \in Seq(Producer) /\ Len(manifests') <= Workers
    BY <1>7 DEF ReceiveManifest, TypeOK
  <2> QED BY <1>7, <2>1, <2>2 DEF ReceiveManifest, TypeOK
<1>8. CASE t = "writer" /\ Write
  <2>1. task' \in [Task -> Place]
    BY <1>0, <1>8 DEF Write
  <2>2. writing \in Producer /\ output \in Seq(Producer) /\ unwritten \subseteq Producer
    BY <1>8 DEF Write, TypeOK, Roles
  <2>3. output' \in Seq(Producer)
    BY <1>8, <2>2 DEF Write
  <2>4. unwritten' \subseteq Producer
    BY <1>8, <2>2 DEF Write
  <2> QED BY <1>8, <2>1, <2>3, <2>4 DEF Write, TypeOK
<1>9. CASE t = "writer" /\ WriterEnds
  BY <1>0, <1>9, TasksMove DEF WriterEnds
<1> QED BY <1>1, <1>2, <1>3, <1>4, <1>5, <1>6, <1>7, <1>8, <1>9 DEF TaskStep

\* Submit starts a task, queues it or drops it.
LEMMA Submitted ==
  ASSUME TypeOK, NEW t \in Task, NEW pool, NEW size, NEW first \in Place,
         Submit(t, pool, size, first)
  PROVE  /\ task' \in [Task -> Place]
         /\ task'[t] \in {first, "queued", "dropped"}
         /\ \A u \in Task : u # t => task'[u] = task[u]
         /\ task'[t] = "dropped" => cancelled \/ first = "dropped"
<1>1. task \in [Task -> Place]
  BY DEF TypeOK, Place
<1>2. PICK there \in {first, "queued", "dropped"} :
        task' = [task EXCEPT ![t] = there] /\ (there = "dropped" => cancelled \/ first = "dropped")
  BY DEF Submit, Move
<1>3. there \in Place
  BY <1>2 DEF Place, Ended
<1> QED BY <1>1, <1>2, <1>3

LEMMA MainTypes ==
  ASSUME TypeOK, Main PROVE TypeOK'
<1> USE DEF Goto, Close, Stage
<1>0. {"receive", "building"} \subseteq Place /\ {"writer", "collector"} \subseteq Task
  BY DEF Place, Busy
<1>1. CASE StartWriter
  <2>1. task' \in [Task -> Place]
    BY <1>0, <1>1, Submitted DEF StartWriter
  <2> QED BY <1>1, <2>1 DEF StartWriter, TypeOK, Place
<1>2. CASE StartPath
  <2>1. PICK p \in todo : Submit(p, Path, Cardinality(Path), "building") /\ todo' = todo \ {p}
                          /\ main' \in {"collector", "paths"}
    BY <1>2 DEF StartPath
  <2>2. task' \in [Task -> Place]
    BY <1>0, <2>1, Submitted DEF TypeOK
  <2> QED BY <1>2, <2>1, <2>2 DEF StartPath, TypeOK, Place
<1>3. CASE StartCollector
  <2>1. task' \in [Task -> Place]
    BY <1>0, <1>3, Submitted DEF StartCollector
  <2> QED BY <1>3, <2>1 DEF StartCollector, TypeOK, Place
<1>4. CASE StopKustomize
  BY <1>4 DEF StopKustomize, TypeOK
<1>5. CASE StopCollector
  BY <1>5 DEF StopCollector, TypeOK
<1>6. CASE StartRelease
  <2>1. PICK r \in todo : Submit(r, Release, Workers, "building") /\ todo' = todo \ {r}
    BY <1>6 DEF StartRelease
  <2>2. task' \in [Task -> Place]
    BY <1>0, <2>1, Submitted DEF TypeOK
  <2> QED BY <1>6, <2>1, <2>2 DEF StartRelease, TypeOK, Place
<1>7. CASE EndReleases
  BY <1>7 DEF EndReleases, TypeOK
<1>8. CASE StopHelm
  BY <1>8 DEF StopHelm, TypeOK
<1>9. CASE StopWriter
  BY <1>9 DEF StopWriter, TypeOK
<1>10. CASE StopForward
  BY <1>10 DEF StopForward, TypeOK
<1>11. CASE Exit
  <2>1. status' \in 0..2
    BY <1>11 DEF Exit
  <2> QED BY <1>11, <2>1 DEF Exit, TypeOK
<1> QED BY <1>1, <1>2, <1>3, <1>4, <1>5, <1>6, <1>7, <1>8, <1>9, <1>10, <1>11 DEF Main

LEMMA TypeStep ==
  ASSUME TypeOK, Roles, [Next]_vars PROVE TypeOK'
<1>1. ASSUME NEW t \in Task, ForwardPanic(t) PROVE TypeOK'
  <2>1. reported' \in 0..2
    BY <1>1 DEF ForwardPanic, TypeOK
  <2> QED BY <1>1, <2>1 DEF ForwardPanic, TypeOK
<1>2. CASE RecordError
  <2>1. reader' \in {"receive", "record", "cancel"}
    BY <1>2 DEF RecordError
  <2> QED BY <1>2, <2>1 DEF RecordError, TypeOK
<1>3. CASE CancelContext
  BY <1>3 DEF CancelContext, TypeOK
<1>4. CASE UNCHANGED vars
  BY <1>4 DEF vars, TypeOK
<1> QED BY <1>1, <1>2, <1>3, <1>4, TaskTypes, MainTypes DEF Next, Gone

-----------------------------------------------------------------------------
(***************************************************************************)
(* The invariant.                                                          *)
(***************************************************************************)
\* A step of a task moves it, from where it was not through, and no other;
\* Run stays where it is.
LEMMA TaskMoves ==
  ASSUME TypeOK, NEW t \in Task, TaskStep(t)
  PROVE  /\ task[t] \in Busy \cup {"queued"}
         /\ \E there \in Busy \cup Ended : task' = [task EXCEPT ![t] = there]
         /\ forward' \subseteq forward \cup {t}
         /\ UNCHANGED <<flags, main, todo, status, closed, cancelled, lastErr>>
<1> USE DEF Move, Busy, Ended
<1>1. CASE SendErr(t) \/ Panic(t)
  BY <1>1 DEF SendErr, Panic
<1>2. CASE BuildSucceeds(t) \/ BuildFails(t) \/ SendManifest(t)
  BY <1>2 DEF BuildSucceeds, BuildFails, SendManifest
<1>3. CASE SendResource(t) \/ StartQueued(t) \/ DropQueued(t)
  BY <1>3 DEF SendResource, StartQueued, DropQueued
<1>4. CASE t = "collector" /\ (ReceiveResource \/ Push \/ CollectorEnds)
  BY <1>4 DEF ReceiveResource, Push, CollectorEnds
<1>5. CASE t = "writer" /\ (ReceiveManifest \/ Write \/ WriterEnds)
  BY <1>5 DEF ReceiveManifest, Write, WriterEnds
<1> QED BY <1>1, <1>2, <1>3, <1>4, <1>5 DEF TaskStep, Build

LEMMA TaskRoles ==
  ASSUME TypeOK, Roles, NEW t \in Task, TaskStep(t)
  PROVE  Roles'
<1> USE DEF Move, Ended
<1>0. task \in [Task -> Place] /\ \A u \in Task : u # t => task'[u] = task[u]
  BY TaskMoves DEF TypeOK, Place
<1>1. CASE SendErr(t) \/ Panic(t)
  BY <1>0, <1>1 DEF SendErr, Panic, Roles
<1>2. CASE t \in Producer /\ (BuildSucceeds(t) \/ BuildFails(t) \/ SendManifest(t))
  BY <1>0, <1>2 DEF BuildSucceeds, BuildFails, SendManifest, Roles
<1>3. CASE t \in Producer /\ (SendResource(t) \/ StartQueued(t) \/ DropQueued(t))
  BY <1>0, <1>3 DEF SendResource, StartQueued, DropQueued, Roles
<1>4. CASE t = "collector" /\ (ReceiveResource \/ Push \/ CollectorEnds)
  <2>1. pushing' \in Path \/ task'["collector"] # "handle"
    BY <1>0, <1>4 DEF ReceiveResource, Push, CollectorEnds, TypeOK
  <2>2. task'["collector"] \in {"handle", "receive", "sendErr", "done"} /\ UNCHANGED writing
    BY <1>0, <1>4 DEF ReceiveResource, Push, CollectorEnds
  <2>3. \A u \in Producer \cup {"writer"} : task'[u] = task[u]
    BY <1>0, <1>4
  <2> QED BY <2>1, <2>2, <2>3 DEF Roles
<1>5. CASE t = "writer" /\ (ReceiveManifest \/ Write \/ WriterEnds)
  <2>1. writing' \in Producer \/ task'["writer"] # "handle"
    BY <1>0, <1>5 DEF ReceiveManifest, Write, WriterEnds, TypeOK
  <2>2. task'["writer"] \in {"handle", "receive", "sendErr", "done"} /\ UNCHANGED pushing
    BY <1>0, <1>5 DEF ReceiveManifest, Write, WriterEnds
  <2>3. \A u \in Producer \cup {"collector"} : task'[u] = task[u]
    BY <1>0, <1>5
  <2> QED BY <2>1, <2>2, <2>3 DEF Roles
<1> QED BY <1>1, <1>2, <1>3, <1>4, <1>5 DEF TaskStep, Build

LEMMA TaskStages ==
  ASSUME TypeOK, Roles, Stages, NEW t \in Task, TaskStep(t)
  PROVE  Stages'
<1>1. PICK there \in Busy \cup Ended : task' = [task EXCEPT ![t] = there]
  BY TaskMoves
<1>2. /\ task[t] \notin Ended \cup {"none"} /\ there # "none"
      /\ forward' \subseteq forward \cup {t} /\ UNCHANGED <<main, todo, closed>>
  BY TaskMoves DEF Busy, Ended
<1>3. main # "start"
  BY <1>2 DEF Stages
<1>4. \A pool \in SUBSET Task : Stopped(pool) => Stopped(pool)'
  BY <1>1, <1>2 DEF Stopped, TypeOK
<1>5. main \notin Forwarded
  BY <1>2 DEF Stages, Stopped, Forwarded, Written, Released, Collected, Kustomized
<1>6. \A u \in Task : task[u] = "none" => task'[u] = "none"
  BY <1>1, <1>2 DEF TypeOK
<1> QED BY <1>2, <1>3, <1>4, <1>5, <1>6 DEF Stages

LEMMA TaskRecorded ==
  ASSUME TypeOK, Recorded, NEW t \in Task, TaskStep(t), main # "exited"
  PROVE  Recorded'
<1>1. UNCHANGED <<main, status, lastErr, flags>>
  BY TaskMoves
<1>2. CASE SendErr(t)
  BY <1>1, <1>2 DEF SendErr, Recorded, TypeOK, StatusHidesAtMostOneError
<1>3. CASE UNCHANGED <<reported, reader>>
  BY <1>1, <1>3 DEF Recorded, StatusHidesAtMostOneError
<1>4. SendErr(t) \/ UNCHANGED <<reported, reader>>
  BY DEF TaskStep, Panic, Build, BuildSucceeds, BuildFails, SendManifest, SendResource,
         StartQueued, DropQueued, ReceiveResource, Push, CollectorEnds, ReceiveManifest,
         Write, WriterEnds
<1> QED BY <1>2, <1>3, <1>4

\* Run starts a task with the first step of its kind.
LEMMA MainRoles ==
  ASSUME TypeOK, Roles, Main PROVE Roles'
<1> USE DEF Ended
<1>0. {"receive", "building"} \subseteq Place /\ UNCHANGED <<writing, pushing>>
  BY DEF Place, Busy, Main, StartWriter, StartPath, StartCollector, StopKustomize, StopCollector,
         StartRelease, EndReleases, StopHelm, StopWriter, StopForward, Exit
<1>1. CASE StartWriter \/ StartCollector
  <2>1. PICK t \in {"writer", "collector"} : Submit(t, {t}, 1, "receive")
    BY <1>1 DEF StartWriter, StartCollector
  <2>2. /\ \A u \in Task : u # t => task'[u] = task[u]
        /\ task'[t] \in {"receive", "queued", "dropped"}
    BY <1>0, <2>1, Submitted
  <2> QED BY <1>0, <2>2 DEF Roles
<1>2. ASSUME NEW t \in Producer, NEW pool, NEW size, Submit(t, pool, size, "building")
      PROVE  Roles'
  <2>1. /\ \A u \in Task : u # t => task'[u] = task[u]
        /\ task'[t] \in {"building", "queued", "dropped"}
    BY <1>0, <1>2, Submitted
  <2> QED BY <1>0, <2>1 DEF Roles
<1>3. CASE StartPath \/ StartRelease
  BY <1>2, <1>3 DEF StartPath, StartRelease, TypeOK
<1>4. CASE UNCHANGED task
  BY <1>0, <1>4 DEF Roles
<1> QED BY <1>1, <1>3, <1>4 DEF Main, StopKustomize, StopCollector, EndReleases, StopHelm,
           StopWriter, StopForward, Exit

LEMMA MainStages ==
  ASSUME TypeOK, Roles, Stages, Main PROVE Stages'
<1> USE DEF Goto, Close
<1>s. USE DEF Forwarded, Written, Released, Collected, Kustomized, Stage
<1>0. {"receive", "building"} \subseteq Place /\ {"writer", "collector"} \subseteq Task
  BY DEF Place, Busy
<1>1. CASE StartWriter
  <2>1. \A u \in Task : u # "writer" => task'[u] = task[u]
    BY <1>0, <1>1, Submitted DEF StartWriter
  <2> QED BY <1>1, <2>1 DEF StartWriter, Stages, TypeOK
<1>2. CASE StartPath
  <2>1. PICK p \in todo : Submit(p, Path, Cardinality(Path), "building") /\ todo' = todo \ {p}
                          /\ main' \in {"collector", "paths"}
    BY <1>2 DEF StartPath
  <2>2. p \in Path
    BY <1>2, <2>1 DEF StartPath, Stages
  <2>3. \A u \in Task : u # p => task'[u] = task[u]
    BY <1>0, <2>1, <2>2, Submitted
  <2> QED BY <1>2, <2>1, <2>2, <2>3 DEF StartPath, Stages
<1>3. CASE StartCollector
  <2>1. \A u \in Task : u # "collector" => task'[u] = task[u]
    BY <1>0, <1>3, Submitted DEF StartCollector
  <2> QED BY <1>3, <2>1 DEF StartCollector, Stages
<1>4. CASE StopKustomize
  BY <1>4 DEF StopKustomize, Stages, Stopped
<1>5. CASE StopCollector
  BY <1>5 DEF StopCollector, Stages, Stopped, TypeOK
<1>6. CASE StartRelease
  <2>1. PICK r \in todo : Submit(r, Release, Workers, "building") /\ todo' = todo \ {r}
    BY <1>6 DEF StartRelease
  <2>2. r \in Release
    BY <1>6, <2>1 DEF StartRelease, Stages
  <2>3. \A u \in Task : u # r => task'[u] = task[u]
    BY <1>0, <2>1, <2>2, Submitted
  <2>4. Stopped(Path)' /\ Stopped({"collector"})'
    BY <1>6, <2>2, <2>3 DEF StartRelease, Stages, Stopped
  <2> QED BY <1>6, <2>1, <2>2, <2>3, <2>4 DEF StartRelease, Stages
<1>7. CASE EndReleases
  BY <1>7 DEF EndReleases, Stages, Stopped
<1>8. CASE StopHelm
  BY <1>8 DEF StopHelm, Stages, Stopped
<1>9. CASE StopWriter
  BY <1>9 DEF StopWriter, Stages, Stopped
<1>10. CASE StopForward
  BY <1>10 DEF StopForward, Stages, Stopped
<1>11. CASE Exit
  BY <1>11 DEF Exit, Stages, Stopped
<1> QED BY <1>1, <1>2, <1>3, <1>4, <1>5, <1>6, <1>7, <1>8, <1>9, <1>10, <1>11 DEF Main

LEMMA MainRecorded ==
  ASSUME TypeOK, Recorded, Main, main # "exited" PROVE Recorded'
<1>1. CASE Exit
  BY <1>1 DEF Exit, Goto, Recorded, StatusHidesAtMostOneError, TypeOK
<1>2. CASE ~Exit
  <2>1. UNCHANGED <<flags, status, reader, reported, lastErr>>
    BY <1>2 DEF Main, StartWriter, StartPath, StartCollector, StopKustomize, StopCollector,
                StartRelease, EndReleases, StopHelm, StopWriter, StopForward
  <2> QED BY <2>1 DEF Recorded, StatusHidesAtMostOneError
<1> QED BY <1>1, <1>2

LEMMA PInvInit == Init => PInv
<1> SUFFICES ASSUME Init PROVE PInv
  OBVIOUS
<1> USE DEF Init
<1>1. TypeOK
  <2>1. /\ manifests \in Seq(Producer) /\ Len(manifests) <= Workers
        /\ output \in Seq(Producer) /\ resources \in Seq(Path)
    OBVIOUS
  <2>2. Len(resources) <= Cardinality(Path)
    BY FS_CardinalityType
  <2>3. task \in [Task -> {"none", "queued"} \cup Busy \cup Ended]
    OBVIOUS
  <2>4. /\ flags \in [failFast : BOOLEAN, allowFailure : BOOLEAN] /\ main \in Stage
        /\ todo \in SUBSET Producer /\ status \in 0..2 /\ reported \in 0..2
        /\ writing \in Producer \cup {None} /\ pushing \in Path \cup {None}
    BY DEF Stage
  <2>5. /\ closed \subseteq {"manifests", "resources", "errs"} /\ index \subseteq Release
        /\ reader \in {"receive", "record", "cancel"}
        /\ lastErr \in BOOLEAN /\ cancelled \in BOOLEAN /\ pushFailed \in BOOLEAN
        /\ forward \subseteq Task /\ unwritten \subseteq Producer
    OBVIOUS
  <2> HIDE DEF Init, Task, Producer, None
  <2> QED BY <2>1, <2>2, <2>3, <2>4, <2>5 DEF TypeOK
<1>2. Roles
  BY DEF Roles, Ended
<1>3. Stages
  BY DEF Stages, Kustomized, Collected, Released, Written, Forwarded, Stopped
<1>4. Recorded
  BY DEF Recorded, StatusHidesAtMostOneError
<1> QED BY <1>1, <1>2, <1>3, <1>4 DEF PInv

LEMMA PInvStep == PInv /\ [Next]_vars => PInv'
<1> SUFFICES ASSUME PInv, [Next]_vars PROVE PInv'
  OBVIOUS
<1> USE DEF PInv
<1>0. TypeOK'
  BY TypeStep
<1>1. ASSUME NEW t \in Task, TaskStep(t), main # "exited" PROVE PInv'
  BY <1>0, <1>1, TaskRoles, TaskStages, TaskRecorded
<1>2. ASSUME Main, main # "exited" PROVE PInv'
  BY <1>0, <1>2, MainRoles, MainStages, MainRecorded
<1>3. ASSUME main # "exited", RecordError \/ CancelContext \/ \E t \in Task : ForwardPanic(t)
      PROVE  PInv'
  <2>1. UNCHANGED <<flags, main, todo, status, task, closed, writing, pushing>> /\ forward' \subseteq forward
    BY <1>3 DEF RecordError, CancelContext, ForwardPanic
  <2>2. Roles'
    BY <2>1 DEF Roles
  <2>3. main # "start"
    BY <1>3 DEF Stages, RecordError, CancelContext, ForwardPanic
  <2>4. Stages'
    BY <2>1, <2>3 DEF Stages, Stopped
  <2>5. Recorded'
    BY <1>3, <2>1 DEF RecordError, CancelContext, ForwardPanic, Recorded, TypeOK, StatusHidesAtMostOneError
  <2> QED BY <1>0, <2>2, <2>4, <2>5
<1>4. CASE UNCHANGED vars
  BY <1>0, <1>4 DEF vars, Roles, Stages, Stopped, Recorded, StatusHidesAtMostOneError
<1> QED BY <1>1, <1>2, <1>3, <1>4 DEF Next, Gone

LEMMA PInvAlways == Spec => []PInv
BY PInvInit, PInvStep, PTL DEF Spec

\* Whatever fails, panics or is cancelled, the state keeps its types.
THEOREM TypeCorrect == Spec => []TypeOK
<1>1. PInv => TypeOK
  BY DEF PInv
<1> QED BY <1>1, PInvAlways, PTL

\* Run closes a channel only when nobody is left who would send on it.
THEOREM ClosedWhenQuiet == Spec => []NoSendOnClosed
<1>1. PInv => NoSendOnClosed
  BY DEF PInv, Roles, Stages, Stopped, Ended, NoSendOnClosed, Forwarded, Written, Released,
         Collected, Kustomized
<1> QED BY <1>1, PInvAlways, PTL

\* The index is written by the collector only while nobody reads it.
THEOREM IndexIsQuiet == Spec => []NoIndexRace
<1>1. PInv => NoIndexRace
  <2> SUFFICES ASSUME PInv, task["collector"] = "handle" PROVE NoIndexRace
    BY DEF NoIndexRace
  <2>1. main \notin Collected
    BY DEF PInv, Stages, Stopped, Ended
  <2>2. \A r \in Release : task[r] = "none"
    BY <2>1 DEF PInv, Stages
  <2>3. Running(Release) = {}
    BY <2>2 DEF Running, Busy
  <2>4. main \notin {"releases", "releasing"}
    BY <2>1 DEF PInv, TypeOK, Collected, Kustomized, Stage
  <2> QED BY <2>3, <2>4 DEF NoIndexRace
<1> QED BY <1>1, PInvAlways, PTL

\* A run that exits with status 0 has had one error at most.
THEOREM StatusIsAlmostRight == Spec => []StatusHidesAtMostOneError
<1>1. PInv => StatusHidesAtMostOneError
  BY DEF PInv, Recorded
<1> QED BY <1>1, PInvAlways, PTL

-----------------------------------------------------------------------------
(***************************************************************************)
(* Delivery: where the manifests are that have been built.                 *)
(***************************************************************************)
\* The tasks that have handed over their manifest, and those whose manifest
\* is in the buffer, in the writer's hands, and written.
Handed == {t \in Producer : task[t] \in {"sendResource", "done"}}
Buffered == {manifests[i] : i \in DOMAIN manifests}
InHand == IF writing = None THEN {} ELSE {writing}
Output == {output[i] : i \in DOMAIN output}

Counted ==
  Len(output) + Cardinality(unwritten) + Cardinality(InHand) + Len(manifests) = Cardinality(Handed)

\* Each is in one place, once.
EachOnce ==
  /\ Handed = Output \cup unwritten \cup InHand \cup Buffered
  /\ \A i, j \in DOMAIN manifests : manifests[i] = manifests[j] => i = j
  /\ Buffered \cap (Output \cup unwritten \cup InHand) = {}
  /\ InHand \cap (Output \cup unwritten) = {}
  /\ Counted

\* The writer runs until the buffer is empty and closed.
WriterRuns ==
  /\ writing # None => task["writer"] = "handle"
  /\ main # "start" => task["writer"] \in {"receive", "handle", "sendErr", "done"}
  /\ task["writer"] = "done" => manifests = <<>> /\ "manifests" \in closed

Delivery == EachOnce /\ WriterRuns

LEMMA FiniteParts ==
  ASSUME TypeOK
  PROVE  /\ IsFiniteSet(Handed) /\ Cardinality(Handed) \in Nat
         /\ IsFiniteSet(unwritten) /\ Cardinality(unwritten) \in Nat
         /\ Len(output) \in Nat /\ Len(manifests) \in Nat
         /\ Cardinality(InHand) = (IF writing = None THEN 0 ELSE 1)
<1>1. IsFiniteSet(Producer)
  BY FS_Union
<1>2. Handed \subseteq Producer /\ unwritten \subseteq Producer
  BY DEF Handed, TypeOK
<1>3. IsFiniteSet(Handed) /\ IsFiniteSet(unwritten)
  BY <1>1, <1>2, FS_Subset
<1>4. Len(output) \in Nat /\ Len(manifests) \in Nat
  BY DEF TypeOK
<1>5. Cardinality(InHand) = (IF writing = None THEN 0 ELSE 1)
  BY FS_EmptySet, FS_Singleton DEF InHand
<1> QED BY <1>3, <1>4, <1>5, FS_CardinalityType

\* A built manifest goes to the buffer,
LEMMA SendKeepsDelivery ==
  ASSUME PInv, Delivery, NEW t \in Producer, SendManifest(t)
  PROVE  Delivery'
<1> USE DEF PInv, Move
<1>1. /\ Handed' = Handed \cup {t} /\ t \notin Handed
      /\ task'["writer"] = task["writer"]
  BY DEF SendManifest, Handed, TypeOK
<1>2. /\ Len(manifests') = Len(manifests) + 1 /\ DOMAIN manifests' = DOMAIN manifests \cup {Len(manifests) + 1}
      /\ \A i \in DOMAIN manifests : manifests'[i] = manifests[i]
      /\ manifests'[Len(manifests) + 1] = t
  BY DEF SendManifest, TypeOK
<1>3. Buffered' = Buffered \cup {t} /\ t \notin Buffered
  BY <1>1, <1>2 DEF Buffered, Delivery, EachOnce
<1>4. UNCHANGED <<output, unwritten, writing, main, closed>>
  BY DEF SendManifest
<1>5. Output' = Output /\ InHand' = InHand
  BY <1>4 DEF Output, InHand
<1>6. Cardinality(Handed') = Cardinality(Handed) + 1
  BY <1>1, FiniteParts, FS_AddElement
<1>7. EachOnce'
  <2>1. \A i, j \in DOMAIN manifests' : manifests'[i] = manifests'[j] => i = j
    BY <1>2, <1>3 DEF Buffered, Delivery, EachOnce
  <2>2. Counted'
    <3>1. /\ Cardinality(InHand) \in Nat /\ Cardinality(unwritten) \in Nat
          /\ Len(output) \in Nat /\ Len(manifests) \in Nat
      BY FiniteParts
    <3>2. Len(output) + Cardinality(unwritten) + Cardinality(InHand) + Len(manifests) = Cardinality(Handed)
      BY DEF Delivery, EachOnce, Counted
    <3>3. Len(output') = Len(output) /\ Cardinality(unwritten') = Cardinality(unwritten)
          /\ Cardinality(InHand') = Cardinality(InHand)
      BY <1>4, <1>5
    <3> HIDE DEF PInv
    <3>4. Len(output) + Cardinality(unwritten) + Cardinality(InHand) + (Len(manifests) + 1)
            = Cardinality(Handed) + 1
      BY <3>1, <3>2
    <3>5. Len(manifests') = Len(manifests) + 1
      BY <1>2
    <3> QED BY <1>6, <3>3, <3>4, <3>5 DEF Counted
  <2> QED BY <1>1, <1>3, <1>4, <1>5, <2>1, <2>2 DEF Delivery, EachOnce
<1>8. "manifests" \notin closed
  BY DEF SendManifest, Stages, Stopped, Ended, Released, Collected, Kustomized
<1> QED BY <1>1, <1>4, <1>7, <1>8 DEF Delivery, WriterRuns

\* from there to the writer's hands,
LEMMA ReceiveKeepsDelivery ==
  ASSUME PInv, Delivery, ReceiveManifest
  PROVE  Delivery'
<1> USE DEF PInv, Move
<1>1. writing = None /\ InHand = {}
  BY DEF Delivery, WriterRuns, ReceiveManifest, InHand
<1>2. UNCHANGED <<output, unwritten, main, closed>> /\ task' = [task EXCEPT !["writer"] = "handle"]
  BY DEF ReceiveManifest
<1>3. Handed' = Handed /\ Output' = Output /\ task'["writer"] = "handle"
  BY <1>2 DEF Handed, Output, TypeOK
<1>4. /\ manifests \in Seq(Producer) /\ manifests # <<>>
      /\ writing' = manifests[1] /\ manifests' = Tail(manifests)
  BY DEF ReceiveManifest, TypeOK
<1>5. /\ writing' \in Producer /\ Len(manifests') = Len(manifests) - 1
      /\ 1 \in DOMAIN manifests
      /\ \A i \in DOMAIN manifests' : i + 1 \in DOMAIN manifests /\ manifests'[i] = manifests[i + 1] /\ i + 1 # 1
      /\ \A i \in DOMAIN manifests : i = 1 \/ (i - 1 \in DOMAIN manifests' /\ manifests'[i - 1] = manifests[i])
  BY <1>4
<1>6. InHand' = {writing'}
  BY <1>5 DEF InHand
<1>7. Buffered = Buffered' \cup {writing'} /\ writing' \notin Buffered'
  <2>1. Buffered' \subseteq Buffered /\ writing' \in Buffered
    BY <1>4, <1>5 DEF Buffered
  <2>2. Buffered \subseteq Buffered' \cup {writing'}
    BY <1>4, <1>5 DEF Buffered
  <2>3. writing' \notin Buffered'
    BY <1>4, <1>5 DEF Buffered, Delivery, EachOnce
  <2> QED BY <2>1, <2>2, <2>3
<1>8. \A i, j \in DOMAIN manifests' : manifests'[i] = manifests'[j] => i = j
  <2> SUFFICES ASSUME NEW i \in DOMAIN manifests', NEW j \in DOMAIN manifests',
                      manifests'[i] = manifests'[j]
               PROVE  i = j
    OBVIOUS
  <2>1. i + 1 = j + 1
    BY <1>5 DEF Delivery, EachOnce
  <2>2. i \in Nat /\ j \in Nat
    BY <1>4
  <2> QED BY <2>1, <2>2
<1>9. Counted'
  <2>1. /\ Cardinality(InHand) = 0 /\ Cardinality(unwritten) \in Nat
        /\ Len(output) \in Nat /\ Len(manifests) \in Nat
    BY <1>1, FiniteParts
  <2>2. Len(output) + Cardinality(unwritten) + Cardinality(InHand) + Len(manifests) = Cardinality(Handed)
    BY DEF Delivery, EachOnce, Counted
  <2>3. /\ Len(output') = Len(output) /\ Cardinality(unwritten') = Cardinality(unwritten)
        /\ Cardinality(InHand') = 1 /\ Cardinality(Handed') = Cardinality(Handed)
    BY <1>2, <1>3, <1>6, FS_Singleton
  <2> HIDE DEF PInv
  <2>4. Len(output) + Cardinality(unwritten) + 1 + (Len(manifests) - 1) = Cardinality(Handed)
    BY <2>1, <2>2
  <2> QED BY <1>5, <2>3, <2>4 DEF Counted
<1>10. EachOnce'
  BY <1>1, <1>2, <1>3, <1>6, <1>7, <1>8, <1>9 DEF Delivery, EachOnce
<1> QED BY <1>3, <1>10 DEF Delivery, WriterRuns

\* and from there to the output, or to what has been reported.
LEMMA WriteKeepsDelivery ==
  ASSUME PInv, Delivery, Write
  PROVE  Delivery'
<1> USE DEF PInv, Move
<1>1. writing \in Producer /\ InHand = {writing} /\ writing' = None /\ InHand' = {}
  BY DEF Roles, Write, InHand
<1>2. UNCHANGED <<manifests, main, closed>>
  BY DEF Write
<1>3. PICK there \in {"receive", "sendErr"} : task' = [task EXCEPT !["writer"] = there]
  BY DEF Write
<1>4. Handed' = Handed /\ Buffered' = Buffered /\ task'["writer"] = there
  BY <1>2, <1>3 DEF Handed, Buffered, TypeOK
<1>5. /\ Output' \cup unwritten' = Output \cup unwritten \cup {writing}
      /\ Len(output') + Cardinality(unwritten') = Len(output) + Cardinality(unwritten) + 1
  <2>1. CASE output' = Append(output, writing) /\ UNCHANGED unwritten
    <3>1. output \in Seq(Producer)
      BY DEF TypeOK
    <3>2. Output' = Output \cup {writing} /\ Len(output') = Len(output) + 1
      BY <1>1, <2>1, <3>1 DEF Output
    <3> QED BY <2>1, <3>2, FiniteParts
  <2>2. CASE unwritten' = unwritten \cup {writing} /\ UNCHANGED output
    <3>1. writing \notin unwritten
      BY <1>1 DEF Delivery, EachOnce
    <3>2. Cardinality(unwritten') = Cardinality(unwritten) + 1
      BY <2>2, <3>1, FiniteParts, FS_AddElement
    <3>3. Output' = Output
      BY <2>2 DEF Output
    <3> QED BY <2>2, <3>2, <3>3, FiniteParts
  <2> QED BY <2>1, <2>2 DEF Write
<1>6. Counted'
  <2>1. /\ Cardinality(InHand) = 1 /\ Cardinality(unwritten) \in Nat
        /\ Len(output) \in Nat /\ Len(manifests) \in Nat
    BY <1>1, FiniteParts
  <2>2. Len(output) + Cardinality(unwritten) + Cardinality(InHand) + Len(manifests) = Cardinality(Handed)
    BY DEF Delivery, EachOnce, Counted
  <2>3. /\ Len(manifests') = Len(manifests) /\ Cardinality(Handed') = Cardinality(Handed)
        /\ Cardinality(InHand') = 0
    BY <1>1, <1>2, <1>4, FS_EmptySet
  <2> HIDE DEF PInv
  <2>4. Len(output) + Cardinality(unwritten) + 1 + 0 + Len(manifests) = Cardinality(Handed)
    BY <2>1, <2>2
  <2> QED BY <1>5, <2>3, <2>4 DEF Counted
<1>7. EachOnce'
  BY <1>1, <1>2, <1>4, <1>5, <1>6 DEF Delivery, EachOnce
<1> QED BY <1>1, <1>4, <1>7 DEF Delivery, WriterRuns

\* No other step touches the channel or what has been written, or changes
\* what has been handed over.
LEMMA OthersKeepDelivery ==
  ASSUME Delivery, UNCHANGED <<manifests, output, unwritten, writing>>,
         Handed' = Handed, WriterRuns'
  PROVE  Delivery'
BY DEF Delivery, EachOnce, Counted, Buffered, Output, InHand

LEMMA DeliveryStep ==
  ASSUME "writer" \notin MayPanic, PInv, Delivery, [Next]_vars
  PROVE  Delivery'
<1> USE DEF PInv
<1>1. ASSUME NEW t \in Task, TaskStep(t) PROVE Delivery'
  <2>1. CASE t \in Producer /\ SendManifest(t)
    BY <2>1, SendKeepsDelivery
  <2>2. CASE t = "writer" /\ ReceiveManifest
    BY <2>2, ReceiveKeepsDelivery
  <2>3. CASE t = "writer" /\ Write
    BY <2>3, WriteKeepsDelivery
  <2>4. CASE t = "writer" /\ (SendErr(t) \/ WriterEnds)
    <3>1. Handed' = Handed
      BY <2>4 DEF SendErr, WriterEnds, Move, Handed, TypeOK
    <3>2. WriterRuns'
      BY <2>4 DEF SendErr, WriterEnds, Move, Delivery, WriterRuns, TypeOK
    <3> QED BY <2>4, <3>1, <3>2, OthersKeepDelivery DEF SendErr, WriterEnds
  <2>5. CASE t # "writer" /\ ~SendManifest(t)
    <3>1. UNCHANGED <<manifests, output, unwritten, writing, main, closed>>
      BY <1>1, <2>5 DEF TaskStep, SendErr, Panic, Build, BuildSucceeds, BuildFails, SendResource,
                StartQueued, DropQueued, ReceiveResource, Push, CollectorEnds
    <3>2. \E there : /\ task' = [task EXCEPT ![t] = there]
                     /\ t \in Producer => task[t] # "done" /\ (task[t] = "sendResource" <=> there = "done")
                     /\ there # "sendResource"
      BY <1>1, <2>5 DEF TaskStep, SendErr, Panic, Build, BuildSucceeds, BuildFails, SendResource,
                StartQueued, DropQueued, ReceiveResource, Push, CollectorEnds, Move
    <3>3. Handed' = Handed /\ task'["writer"] = task["writer"]
      BY <2>5, <3>2 DEF Handed, TypeOK
    <3>4. WriterRuns'
      BY <3>1, <3>3 DEF Delivery, WriterRuns
    <3> QED BY <3>1, <3>3, <3>4, OthersKeepDelivery
  <2>6. /\ ~(t = "writer" /\ Panic(t)) /\ ~(t = "writer" /\ t \in Producer)
        /\ SendManifest(t) => t \in Producer
    BY DEF Panic, SendManifest, Roles, Ended
  <2> QED BY <1>1, <2>1, <2>2, <2>3, <2>4, <2>5, <2>6 DEF TaskStep, Build
<1>2. ASSUME main # "exited", Main PROVE Delivery'
  <2>0. {"receive", "building"} \subseteq Place /\ {"writer", "collector"} \subseteq Task
    BY DEF Place, Busy
  <2>1. UNCHANGED <<manifests, output, unwritten, writing>> /\ closed \subseteq closed'
    BY <1>2 DEF Main, StartWriter, StartPath, StartCollector, StopKustomize, StopCollector,
                StartRelease, EndReleases, StopHelm, StopWriter, StopForward, Exit, Close
  <2>2. CASE StartWriter
    <3>1. Running({"writer"}) = {} /\ ~cancelled
      BY <2>2 DEF Running, StartWriter, Stages, Busy
    <3>2. Cardinality(Running({"writer"})) < 1
      BY <3>1, FS_EmptySet
    <3>3. task' = [task EXCEPT !["writer"] = "receive"]
      BY <2>2, <3>1, <3>2 DEF StartWriter, Submit, Move
    <3>4. Handed' = Handed
      BY <3>3 DEF Handed, TypeOK
    <3>5. WriterRuns'
      BY <2>1, <2>2, <3>3 DEF StartWriter, Stages, Delivery, WriterRuns, TypeOK
    <3> QED BY <2>1, <3>4, <3>5, OthersKeepDelivery
  <2>3. CASE StartPath \/ StartCollector \/ StartRelease
    <3>1. \E t \in Task \ {"writer"} : /\ task[t] = "none"
                          /\ \A u \in Task : u # t => task'[u] = task[u]
                          /\ task'[t] \in {"receive", "building", "queued", "dropped"}
      <4>1. CASE StartPath
        <5>1. PICK p \in todo : Submit(p, Path, Cardinality(Path), "building")
          BY <4>1 DEF StartPath
        <5>2. p \in Path /\ task[p] = "none"
          BY <4>1, <5>1 DEF StartPath, Stages
        <5> QED BY <2>0, <5>1, <5>2, Submitted
      <4>2. CASE StartCollector
        <5>1. task["collector"] = "none"
          BY <4>2 DEF StartCollector, Stages
        <5> QED BY <2>0, <4>2, <5>1, Submitted DEF StartCollector
      <4>3. CASE StartRelease
        <5>1. PICK r \in todo : Submit(r, Release, Workers, "building")
          BY <4>3 DEF StartRelease
        <5>2. r \in Release /\ task[r] = "none"
          BY <4>3, <5>1 DEF StartRelease, Stages
        <5> QED BY <2>0, <5>1, <5>2, Submitted
      <4> QED BY <2>3, <4>1, <4>2, <4>3
    <3>2. Handed' = Handed /\ task'["writer"] = task["writer"]
      BY <3>1 DEF Handed
    <3>3. main # "start"
      BY <2>3 DEF StartPath, StartCollector, StartRelease
    <3>4. WriterRuns'
      BY <2>1, <3>2, <3>3 DEF Delivery, WriterRuns
    <3> QED BY <2>1, <3>2, <3>4, OthersKeepDelivery
  <2>4. CASE UNCHANGED task /\ main # "start"
    <3>1. Handed' = Handed
      BY <2>4 DEF Handed
    <3>2. WriterRuns'
      BY <2>1, <2>4 DEF Delivery, WriterRuns
    <3> QED BY <2>1, <3>1, <3>2, OthersKeepDelivery
  <2> QED BY <1>2, <2>2, <2>3, <2>4 DEF Main, StopKustomize, StopCollector, EndReleases, StopHelm,
             StopWriter, StopForward, Exit
<1>3. ASSUME RecordError \/ CancelContext \/ (\E t \in Task : ForwardPanic(t)) \/ UNCHANGED vars
      PROVE  Delivery'
  <2>1. UNCHANGED <<manifests, output, unwritten, writing, task, main, closed>>
    BY <1>3 DEF RecordError, CancelContext, ForwardPanic, vars
  <2>2. Handed' = Handed /\ WriterRuns'
    BY <2>1 DEF Handed, Delivery, WriterRuns
  <2> QED BY <2>1, <2>2, OthersKeepDelivery
<1> QED BY <1>1, <1>2, <1>3 DEF Next, Gone

LEMMA DeliveryInit == Init => Delivery
<1> SUFFICES ASSUME Init PROVE Delivery
  OBVIOUS
<1>1. /\ Handed = {} /\ Buffered = {} /\ InHand = {} /\ Output = {}
      /\ manifests = <<>> /\ Len(manifests) = 0 /\ Len(output) = 0 /\ unwritten = {}
  BY DEF Init, Handed, Buffered, InHand, Output
<1>2. EachOnce
  BY <1>1, FS_EmptySet DEF EachOnce, Counted
<1> QED BY <1>2 DEF Init, Delivery, WriterRuns

\* What has been built and handed over is written once or reported, whatever
\* fails, panics (but for the writer) and is cancelled on the way.
THEOREM AllIsWritten ==
  ASSUME "writer" \notin MayPanic
  PROVE  Spec => []NothingLost
<1>1. PInv /\ Delivery /\ [Next]_vars => Delivery'
  BY DeliveryStep
<1>2. PInv /\ Delivery => NothingLost
  <2> SUFFICES ASSUME PInv, Delivery, main = "exited" PROVE NothingLost
    BY DEF NothingLost
  <2>1. Stopped(Path) /\ Stopped(Release) /\ Stopped({"writer"})
    BY DEF PInv, Stages, Written, Released, Collected, Kustomized, Stage
  <2>2. Handed = {t \in Producer : task[t] = "done"}
    BY <2>1 DEF Handed, Stopped, Ended
  <2>3. task["writer"] = "done"
    BY <2>1 DEF Stopped, Ended, Delivery, WriterRuns
  <2>4. manifests = <<>> /\ writing = None
    BY <2>3 DEF Delivery, WriterRuns
  <2>5. Buffered = {} /\ InHand = {} /\ Len(manifests) = 0 /\ Cardinality(InHand) = 0
    BY <2>4, FS_EmptySet DEF Buffered, InHand
  <2>6. Output \cup unwritten = Handed
    BY <2>5 DEF Delivery, EachOnce
  <2>7. Len(output) + Cardinality(unwritten) = Cardinality(Handed)
    BY <2>5, FiniteParts DEF Delivery, EachOnce, Counted, PInv
  <2> QED BY <2>2, <2>6, <2>7 DEF NothingLost, Output
<1> QED BY <1>1, <1>2, DeliveryInit, PInvAlways, PTL DEF Spec

-----------------------------------------------------------------------------
(***************************************************************************)
(* Indexing: what becomes of the releases of the paths that are built.     *)
(***************************************************************************)
\* The resources of a path that is done are on their way to the index, or in it.
OnTheWay ==
  ~pushFailed => \A p \in Path : task[p] = "done" =>
    \/ \E i \in DOMAIN resources : resources[i] = p
    \/ task["collector"] = "handle" /\ pushing = p
    \/ Declares[p] \subseteq index

\* The collector is there until it has taken all of them.
CollectorRuns ==
  /\ main \notin {"start", "paths", "collector"} => task["collector"] # "none"
  /\ task["collector"] # "failed"
  /\ task["collector"] = "done" => resources = <<>> /\ "resources" \in closed
  /\ task["collector"] = "panicked" => pushFailed
  /\ \A t \in Task : task[t] = "dropped" => cancelled

\* Run starts what is in the index.
Starts ==
  /\ main = "releases" /\ ~cancelled => \A r \in index : r \in todo \/ task[r] # "none"
  /\ main \in Collected \ {"releases"} /\ ~cancelled => \A r \in index : task[r] # "none"

Indexing == OnTheWay /\ CollectorRuns /\ Starts

LEMMA TasksKeepIndexing ==
  ASSUME PInv, Indexing, NEW t \in Task, TaskStep(t)
  PROVE  Indexing'
<1> USE DEF PInv
<1>1. PICK there \in Busy \cup Ended : task' = [task EXCEPT ![t] = there]
  BY TaskMoves
<1>2. /\ there # "none" /\ task[t] \notin Ended \cup {"none"}
      /\ UNCHANGED <<main, todo, closed, cancelled>>
  BY TaskMoves DEF Busy, Ended
<1>3. task'[t] = there /\ \A u \in Task : u # t => task'[u] = task[u]
  BY <1>1 DEF TypeOK
<1>4. \A u \in Task : task[u] # "none" => task'[u] # "none"
  BY <1>2, <1>3
<1>5. main \in Collected => UNCHANGED index
  <2>1. main \in Collected => ~(t = "collector")
    BY <1>2 DEF Stages, Stopped
  <2>2. t # "collector" => UNCHANGED index
    BY DEF TaskStep, SendErr, Panic, Build, BuildSucceeds, BuildFails, SendManifest, SendResource,
           StartQueued, DropQueued, ReceiveManifest, Write, WriterEnds
  <2> QED BY <2>1, <2>2
<1>6. Starts'
  <2>1. "releases" \in Collected /\ index \subseteq Task
    BY DEF Collected, Kustomized, Stage, TypeOK
  <2> QED BY <1>2, <1>4, <1>5, <2>1 DEF Indexing, Starts
<1>7. there = "dropped" => cancelled
  <2> USE <1>1, <1>3 DEF Move, TypeOK
  <2>1. CASE SendErr(t) \/ Panic(t) \/ BuildSucceeds(t) \/ BuildFails(t)
    BY <2>1 DEF SendErr, Panic, BuildSucceeds, BuildFails
  <2>2. CASE SendManifest(t) \/ SendResource(t) \/ StartQueued(t) \/ DropQueued(t)
    BY <2>2 DEF SendManifest, SendResource, StartQueued, DropQueued
  <2>3. CASE t = "collector" /\ (ReceiveResource \/ Push \/ CollectorEnds)
    BY <2>3 DEF ReceiveResource, Push, CollectorEnds
  <2>4. CASE t = "writer" /\ (ReceiveManifest \/ Write \/ WriterEnds)
    BY <2>4 DEF ReceiveManifest, Write, WriterEnds
  <2> QED BY <2>1, <2>2, <2>3, <2>4 DEF TaskStep, Build
<1>8. CASE t \in Path /\ SendResource(t)
  <2>1. /\ resources' = Append(resources, t) /\ UNCHANGED <<index, pushing, pushFailed>>
        /\ task'["collector"] = task["collector"]
    BY <1>3, <1>8 DEF SendResource
  <2>2. /\ DOMAIN resources' = DOMAIN resources \cup {Len(resources) + 1}
        /\ resources'[Len(resources) + 1] = t
        /\ \A i \in DOMAIN resources : resources'[i] = resources[i]
    BY <1>8, <2>1 DEF TypeOK
  <2>3. OnTheWay'
    BY <1>3, <2>1, <2>2 DEF Indexing, OnTheWay
  <2>4. "resources" \notin closed
    BY <1>2, <1>8 DEF Stages, Stopped
  <2>5. CollectorRuns'
    BY <1>2, <1>3, <1>7, <2>1, <2>4 DEF Indexing, CollectorRuns
  <2> QED BY <1>6, <2>3, <2>5 DEF Indexing
<1>9. CASE t = "collector" /\ ReceiveResource
  <2>1. /\ resources \in Seq(Path) /\ resources # <<>> /\ pushing' = resources[1]
        /\ resources' = Tail(resources) /\ UNCHANGED <<index, pushFailed>> /\ there = "handle"
    BY <1>1, <1>3, <1>9 DEF ReceiveResource, TypeOK, Move
  <2>2. \A i \in DOMAIN resources : i = 1 \/ (i - 1 \in DOMAIN resources' /\ resources'[i - 1] = resources[i])
    BY <2>1
  <2>3. task["collector"] = "receive"
    BY <1>9 DEF ReceiveResource
  <2>4. \A p \in Path : task'[p] = task[p]
    BY <1>3, <1>9
  <2>5. OnTheWay'
    <3> SUFFICES ASSUME ~pushFailed, NEW p \in Path, task[p] = "done"
                 PROVE  \/ \E i \in DOMAIN resources' : resources'[i] = p
                        \/ task'["collector"] = "handle" /\ pushing' = p
                        \/ Declares[p] \subseteq index'
      BY <2>1, <2>4 DEF OnTheWay
    <3>1. CASE Declares[p] \subseteq index
      BY <2>1, <3>1
    <3>2. ASSUME NEW i \in DOMAIN resources, resources[i] = p, i # 1
          PROVE  \E j \in DOMAIN resources' : resources'[j] = p
      BY <2>2, <3>2
    <3>3. CASE resources[1] = p
      BY <1>3, <1>9, <2>1, <3>3
    <3> QED BY <2>3, <3>1, <3>2, <3>3 DEF Indexing, OnTheWay
  <2>6. CollectorRuns'
    BY <1>2, <1>3, <1>7, <1>9, <2>1 DEF Indexing, CollectorRuns
  <2> QED BY <1>6, <2>5, <2>6 DEF Indexing
<1>10. CASE t = "collector" /\ Push
  <2>1. \A p \in Path : task'[p] = task[p]
    BY <1>3, <1>10
  <2>2. UNCHANGED resources /\ there \in {"receive", "sendErr"}
    BY <1>1, <1>3, <1>10 DEF Push, Move, TypeOK
  <2>3. ~pushFailed' => ~pushFailed /\ index' = index \cup Declares[pushing]
    BY <1>10 DEF Push
  <2>4. OnTheWay'
    BY <2>1, <2>2, <2>3 DEF Indexing, OnTheWay
  <2>5. CollectorRuns'
    BY <1>2, <1>3, <1>7, <1>10, <2>2 DEF Indexing, CollectorRuns
  <2> QED BY <1>6, <2>4, <2>5 DEF Indexing
<1>11. CASE t = "collector" /\ (SendErr(t) \/ CollectorEnds)
  <2>1. \A p \in Path : task'[p] = task[p]
    BY <1>3, <1>11
  <2>2. /\ UNCHANGED <<resources, index, pushFailed>> /\ there \in {"receive", "done"}
        /\ there = "done" => resources = <<>> /\ "resources" \in closed
        /\ task[t] # "handle"
    BY <1>1, <1>3, <1>11 DEF SendErr, CollectorEnds, Move, TypeOK
  <2>3. OnTheWay'
    BY <1>11, <2>1, <2>2 DEF Indexing, OnTheWay
  <2>4. CollectorRuns'
    BY <1>2, <1>3, <1>7, <1>11, <2>2 DEF Indexing, CollectorRuns
  <2> QED BY <1>6, <2>3, <2>4 DEF Indexing
<1>12. CASE t = "collector" /\ Panic(t)
  <2>1. pushFailed' /\ UNCHANGED resources /\ there = "panicked"
    BY <1>1, <1>3, <1>12 DEF Panic, Move, TypeOK
  <2>2. CollectorRuns'
    BY <1>2, <1>3, <1>7, <1>12, <2>1 DEF Indexing, CollectorRuns
  <2> QED BY <1>6, <2>1, <2>2 DEF Indexing, OnTheWay
<1>13. CASE t # "collector" /\ ~(t \in Path /\ SendResource(t))
  <2>0. Panic(t) \/ UNCHANGED <<resources, index, pushing, pushFailed>>
    <3>1. CASE SendErr(t) \/ BuildSucceeds(t) \/ BuildFails(t) \/ SendManifest(t)
      BY <3>1 DEF SendErr, BuildSucceeds, BuildFails, SendManifest
    <3>2. CASE StartQueued(t) \/ DropQueued(t) \/ ReceiveManifest \/ Write \/ WriterEnds
      BY <3>2 DEF StartQueued, DropQueued, ReceiveManifest, Write, WriterEnds
    <3> QED BY <1>13, <3>1, <3>2 DEF TaskStep, Build
  <2>p. Panic(t) => UNCHANGED <<resources, index, pushing>> /\ (pushFailed => pushFailed')
    BY Zenon DEF Panic, chanVars
  <2>1. UNCHANGED <<resources, index, pushing>> /\ (pushFailed => pushFailed')
    BY <2>0, <2>p
  <2>2. t \in Path => there # "done"
    BY <1>3, <1>13 DEF TaskStep, SendErr, Panic, Build, BuildSucceeds, BuildFails, SendManifest, Move, TypeOK
  <2>3. OnTheWay'
    BY <1>3, <1>13, <2>1, <2>2 DEF Indexing, OnTheWay
  <2>4. CollectorRuns'
    BY <1>2, <1>3, <1>7, <1>13, <2>1 DEF Indexing, CollectorRuns
  <2> QED BY <1>6, <2>3, <2>4 DEF Indexing
<1> QED BY <1>8, <1>9, <1>10, <1>11, <1>12, <1>13 DEF TaskStep

LEMMA MainKeepsIndexing ==
  ASSUME PInv, Indexing, Main PROVE Indexing'
<1> USE DEF PInv, Goto, Close
<1>0. {"receive", "building"} \subseteq Place /\ {"writer", "collector"} \subseteq Task
  BY DEF Place, Busy
<1>1. UNCHANGED <<resources, index, pushing, pushFailed, cancelled>> /\ closed \subseteq closed'
  BY DEF Main, StartWriter, StartPath, StartCollector, StopKustomize, StopCollector,
         StartRelease, EndReleases, StopHelm, StopWriter, StopForward, Exit
<1>2. index \subseteq Release
  BY DEF TypeOK
<1>s. USE DEF Collected, Kustomized, Stage
<1>3. ASSUME NEW t \in Task, NEW pool, NEW size, NEW first \in {"receive", "building"},
             Submit(t, pool, size, first), task[t] = "none", main \notin Collected
      PROVE  /\ OnTheWay' /\ \A u \in Task : task'[u] = "dropped" => cancelled
             /\ task["collector"] # "none" => task'["collector"] = task["collector"]
             /\ task'["collector"] \in {task["collector"], "receive", "queued", "building", "dropped"}
  <2>1. /\ \A u \in Task : u # t => task'[u] = task[u]
        /\ task'[t] \in {first, "queued", "dropped"}
        /\ task'[t] = "dropped" => cancelled
    BY <1>0, <1>3, Submitted
  <2>2. OnTheWay'
    BY <1>1, <1>3, <2>1 DEF Indexing, OnTheWay
  <2> QED BY <1>3, <2>1, <2>2 DEF Indexing, CollectorRuns
<1>4. CASE StartWriter
  <2>1. Submit("writer", {"writer"}, 1, "receive") /\ main = "start" /\ main' = "paths"
    BY <1>4 DEF StartWriter
  <2>2. task["writer"] = "none"
    BY <2>1 DEF Stages
  <2>3. CollectorRuns'
    BY <1>0, <1>1, <1>3, <2>1, <2>2 DEF Indexing, CollectorRuns
  <2> QED BY <1>0, <1>3, <2>1, <2>2, <2>3 DEF Indexing, Starts
<1>5. CASE StartPath
  <2>1. PICK p \in todo : Submit(p, Path, Cardinality(Path), "building")
                          /\ main = "paths" /\ main' \in {"collector", "paths"}
    BY <1>5 DEF StartPath
  <2>2. p \in Path /\ task[p] = "none"
    BY <2>1 DEF Stages
  <2>3. CollectorRuns'
    BY <1>0, <1>1, <1>3, <2>1, <2>2 DEF Indexing, CollectorRuns
  <2> QED BY <1>3, <2>1, <2>2, <2>3 DEF Indexing, Starts
<1>6. CASE StartCollector
  <2>1. Submit("collector", {"collector"}, 1, "receive") /\ main = "collector" /\ main' = "kustomizing"
    BY <1>6 DEF StartCollector
  <2>2. task["collector"] = "none"
    BY <2>1 DEF Stages
  <2>3. task'["collector"] \in {"receive", "queued", "dropped"}
    BY <1>0, <2>1, Submitted
  <2>4. CollectorRuns'
    BY <1>0, <1>1, <1>3, <2>1, <2>2, <2>3 DEF Indexing, CollectorRuns
  <2> QED BY <1>0, <1>3, <2>1, <2>2, <2>4 DEF Indexing, Starts
<1>7. CASE StartRelease
  <2>1. PICK r \in todo : Submit(r, Release, Workers, "building") /\ todo' = todo \ {r}
                          /\ main = "releases" /\ main' = "releases"
    BY <1>7 DEF StartRelease
  <2>2. r \in Release /\ task[r] = "none"
    BY <2>1 DEF Stages
  <2>3. /\ \A u \in Task : u # r => task'[u] = task[u]
        /\ task'[r] \in {"building", "queued", "dropped"}
        /\ task'[r] = "dropped" => cancelled
    BY <1>0, <2>1, <2>2, Submitted
  <2>4. OnTheWay'
    BY <1>1, <2>2, <2>3 DEF Indexing, OnTheWay
  <2>5. CollectorRuns'
    BY <1>1, <2>1, <2>2, <2>3 DEF Indexing, CollectorRuns
  <2>6. Starts'
    BY <1>1, <1>2, <2>1, <2>3 DEF Indexing, Starts
  <2> QED BY <2>4, <2>5, <2>6 DEF Indexing
<1>8. CASE StopCollector
  <2>1. UNCHANGED task /\ todo' = index /\ main' = "releases" /\ main = "collecting"
    BY <1>8 DEF StopCollector
  <2>2. OnTheWay' /\ CollectorRuns'
    BY <1>1, <2>1 DEF Indexing, OnTheWay, CollectorRuns
  <2> QED BY <1>1, <2>1, <2>2 DEF Indexing, Starts
<1>9. CASE EndReleases
  <2>1. UNCHANGED task /\ main' = "releasing" /\ main = "releases" /\ (cancelled \/ todo = {})
    BY <1>9 DEF EndReleases
  <2>2. OnTheWay' /\ CollectorRuns'
    BY <1>1, <2>1 DEF Indexing, OnTheWay, CollectorRuns
  <2> QED BY <1>1, <2>1, <2>2 DEF Indexing, Starts
<1>10. CASE StopKustomize \/ StopHelm \/ StopWriter \/ StopForward \/ Exit
  <2>1. /\ UNCHANGED task
        /\ \/ main = "kustomizing" /\ main' = "collecting"
           \/ main \in Collected \ {"releases"} /\ main' \in Collected \ {"releases"}
    BY <1>10 DEF StopKustomize, StopHelm, StopWriter, StopForward, Exit
  <2>2. OnTheWay' /\ CollectorRuns'
    BY <1>1, <2>1 DEF Indexing, OnTheWay, CollectorRuns
  <2> QED BY <1>1, <2>1, <2>2 DEF Indexing, Starts
<1> QED BY <1>4, <1>5, <1>6, <1>7, <1>8, <1>9, <1>10 DEF Main

LEMMA IndexingStep == PInv /\ Indexing /\ [Next]_vars => Indexing'
<1> SUFFICES ASSUME PInv, Indexing, [Next]_vars PROVE Indexing'
  OBVIOUS
<1>1. ASSUME RecordError \/ CancelContext \/ (\E t \in Task : ForwardPanic(t)) \/ UNCHANGED vars
      PROVE  Indexing'
  <2>1. /\ UNCHANGED <<resources, index, pushing, pushFailed, task, main, todo, closed>>
        /\ cancelled => cancelled'
    BY <1>1 DEF RecordError, CancelContext, ForwardPanic, vars
  <2> QED BY <2>1 DEF Indexing, OnTheWay, CollectorRuns, Starts
<1> QED BY <1>1, TasksKeepIndexing, MainKeepsIndexing DEF Next, Gone

\* No release of a path that was built is forgotten, unless the run has been
\* cancelled or something could not be indexed.
THEOREM AllAreBuilt == Spec => []EveryReleaseBuilt
<1>1. Init => Indexing
  BY DEF Init, Indexing, OnTheWay, CollectorRuns, Starts
<1>2. PInv /\ Indexing => EveryReleaseBuilt
  <2> SUFFICES ASSUME PInv, Indexing, main = "exited", ~cancelled, ~pushFailed,
                      NEW p \in Path, task[p] = "done", NEW r \in Declares[p]
               PROVE  task[r] \in {"done", "failed", "panicked"}
    BY DEF EveryReleaseBuilt
  <2>1. Stopped({"collector"}) /\ Stopped(Release) /\ main \in Collected \ {"releases"}
    BY DEF PInv, Stages, Released, Collected, Kustomized, Stage
  <2>2. task["collector"] = "done"
    BY <2>1 DEF Stopped, Ended, Indexing, CollectorRuns
  <2>3. resources = <<>>
    BY <2>2 DEF Indexing, CollectorRuns
  <2>4. Declares[p] \subseteq index
    BY <2>2, <2>3 DEF Indexing, OnTheWay
  <2>5. r \in Release /\ task[r] # "none" /\ task[r] # "dropped"
    BY <2>1, <2>4 DEF Indexing, Starts, CollectorRuns
  <2> QED BY <2>1, <2>5 DEF Stopped, Ended
<1> QED BY <1>1, <1>2, IndexingStep, PInvAlways, PTL DEF Spec
-----------------------------------------------------------------------------
(***************************************************************************)
(* A run is a batch: every step of Pipeline is a step of Batch, or none.   *)
(***************************************************************************)
\* What the collector is handed has been built.
FromBuilt ==
  /\ \A i \in DOMAIN resources : task[resources[i]] = "done"
  /\ task["collector"] = "handle" => task[pushing] = "done"

\* Run starts every path, and releases of the index only.
PathsStarted == \A p \in Path : task[p] # "none" \/ (main \in {"start", "paths"} /\ p \in todo)

FromIndex ==
  /\ \A r \in Release : task[r] # "none" => r \in index
  /\ main = "releases" => todo \subseteq index

Order == FromBuilt /\ PathsStarted /\ FromIndex

LEMMA TasksKeepOrder ==
  ASSUME PInv, Order, NEW t \in Task, TaskStep(t)
  PROVE  Order'
<1> USE DEF PInv
<1>1. PICK there \in Busy \cup Ended : task' = [task EXCEPT ![t] = there]
  BY TaskMoves
<1>2. /\ there # "none" /\ task[t] \notin Ended \cup {"none"} /\ UNCHANGED <<main, todo>>
  BY TaskMoves DEF Busy, Ended
<1>3. task'[t] = there /\ \A u \in Task : u # t => task'[u] = task[u]
  BY <1>1 DEF TypeOK
<1>4. PathsStarted'
  BY <1>2, <1>3 DEF Order, PathsStarted
<1>5. index \subseteq index'
  BY DEF TaskStep, SendErr, Panic, Build, BuildSucceeds, BuildFails, SendManifest, SendResource,
         StartQueued, DropQueued, ReceiveResource, Push, CollectorEnds, ReceiveManifest, Write,
         WriterEnds
<1>6. FromIndex'
  BY <1>2, <1>3, <1>5 DEF Order, FromIndex
<1>7. \A u \in Task : task[u] = "done" => task'[u] = "done"
  BY <1>2, <1>3 DEF Ended
<1>8. resources \in Seq(Path) /\ \A i \in DOMAIN resources : resources[i] \in Task
  BY DEF TypeOK
<1>9. CASE t \in Path /\ SendResource(t)
  <2>1. /\ resources' = Append(resources, t) /\ UNCHANGED pushing /\ task'[t] = "done"
        /\ task'["collector"] = task["collector"]
    BY <1>1, <1>3, <1>9 DEF SendResource, Move, TypeOK
  <2>2. /\ DOMAIN resources' = DOMAIN resources \cup {Len(resources) + 1}
        /\ resources'[Len(resources) + 1] = t
        /\ \A i \in DOMAIN resources : resources'[i] = resources[i]
    BY <1>8, <1>9, <2>1
  <2>3. FromBuilt'
    BY <1>7, <1>8, <2>1, <2>2 DEF Order, FromBuilt, Roles
  <2> QED BY <1>4, <1>6, <2>3 DEF Order
<1>10. CASE t = "collector" /\ ReceiveResource
  <2>1. resources # <<>> /\ pushing' = resources[1] /\ resources' = Tail(resources)
    BY <1>8, <1>10 DEF ReceiveResource
  <2>2. /\ 1 \in DOMAIN resources
        /\ \A i \in DOMAIN resources' : i + 1 \in DOMAIN resources /\ resources'[i] = resources[i + 1]
    BY <1>8, <2>1
  <2>3. FromBuilt'
    BY <1>7, <1>8, <2>1, <2>2 DEF Order, FromBuilt
  <2> QED BY <1>4, <1>6, <2>3 DEF Order
<1>11. CASE t = "collector" /\ (Push \/ CollectorEnds \/ SendErr(t) \/ Panic(t))
  <2>1. UNCHANGED resources /\ task'["collector"] # "handle"
    BY <1>1, <1>3, <1>11 DEF Push, CollectorEnds, SendErr, Panic, Move, TypeOK
  <2>2. FromBuilt'
    BY <1>7, <1>8, <2>1 DEF Order, FromBuilt
  <2> QED BY <1>4, <1>6, <2>2 DEF Order
<1>12. CASE t # "collector" /\ ~(t \in Path /\ SendResource(t))
  <2>1. UNCHANGED <<resources, pushing>>
    BY <1>12 DEF TaskStep, SendErr, Panic, Build, BuildSucceeds, BuildFails, SendManifest,
                 StartQueued, DropQueued, ReceiveManifest, Write, WriterEnds
  <2>2. task'["collector"] = task["collector"]
    BY <1>3, <1>12
  <2>3. FromBuilt'
    BY <1>7, <1>8, <2>1, <2>2 DEF Order, FromBuilt, Roles
  <2> QED BY <1>4, <1>6, <2>3 DEF Order
<1> QED BY <1>9, <1>10, <1>11, <1>12 DEF TaskStep

LEMMA MainKeepsOrder ==
  ASSUME PInv, Order, Main PROVE Order'
<1> USE DEF PInv, Goto, Close
<1>0. {"receive", "building"} \subseteq Place /\ {"writer", "collector"} \subseteq Task
  BY DEF Place, Busy
<1>1. UNCHANGED <<resources, index, pushing>>
  BY DEF Main, StartWriter, StartPath, StartCollector, StopKustomize, StopCollector,
         StartRelease, EndReleases, StopHelm, StopWriter, StopForward, Exit
<1>2. resources \in Seq(Path) /\ \A i \in DOMAIN resources : resources[i] \in Path
  BY DEF TypeOK
<1>3. ASSUME NEW t \in Task, NEW pool, NEW size, NEW first \in {"receive", "building"},
             Submit(t, pool, size, first), task[t] = "none"
      PROVE  /\ FromBuilt'
             /\ task'[t] # "none" /\ \A u \in Task : u # t => task'[u] = task[u]
  <2>1. /\ \A u \in Task : u # t => task'[u] = task[u]
        /\ task'[t] \in {first, "queued", "dropped"}
    BY <1>0, <1>3, Submitted
  <2>2. \A u \in Task : task[u] = "done" => task'[u] = "done"
    BY <1>3, <2>1
  <2>3. task'["collector"] = "handle" => task["collector"] = "handle"
    BY <1>0, <2>1
  <2> QED BY <1>1, <1>2, <2>1, <2>2, <2>3 DEF Order, FromBuilt, Roles
<1>4. CASE StartWriter
  <2>1. Submit("writer", {"writer"}, 1, "receive") /\ main = "start" /\ main' = "paths" /\ UNCHANGED todo
    BY <1>4 DEF StartWriter
  <2>2. task["writer"] = "none"
    BY <2>1 DEF Stages
  <2> QED BY <1>0, <1>1, <1>3, <2>1, <2>2 DEF Order, PathsStarted, FromIndex
<1>5. CASE StartPath
  <2>1. PICK p \in todo : /\ Submit(p, Path, Cardinality(Path), "building")
                          /\ main = "paths" /\ todo' = todo \ {p}
                          /\ main' = IF todo = {p} THEN "collector" ELSE "paths"
    BY <1>5 DEF StartPath
  <2>2. p \in Path /\ task[p] = "none"
    BY <2>1 DEF Stages
  <2>3. FromBuilt' /\ task'[p] # "none" /\ \A u \in Task : u # p => task'[u] = task[u]
    BY <1>3, <2>1, <2>2
  <2>4. PathsStarted' /\ FromIndex'
    BY <1>1, <2>1, <2>2, <2>3 DEF Order, PathsStarted, FromIndex
  <2> QED BY <2>3, <2>4 DEF Order
<1>6. CASE StartCollector
  <2>1. Submit("collector", {"collector"}, 1, "receive") /\ main = "collector" /\ main' = "kustomizing"
    BY <1>6 DEF StartCollector
  <2>2. task["collector"] = "none"
    BY <2>1 DEF Stages
  <2> QED BY <1>0, <1>1, <1>3, <2>1, <2>2 DEF Order, PathsStarted, FromIndex
<1>7. CASE StartRelease
  <2>1. PICK r \in todo : Submit(r, Release, Workers, "building") /\ todo' = todo \ {r}
                          /\ main = "releases" /\ main' = "releases"
    BY <1>7 DEF StartRelease
  <2>2. r \in Release /\ task[r] = "none"
    BY <2>1 DEF Stages
  <2>3. FromBuilt' /\ task'[r] # "none" /\ \A u \in Task : u # r => task'[u] = task[u]
    BY <1>3, <2>1, <2>2
  <2>4. PathsStarted' /\ FromIndex'
    BY <1>1, <2>1, <2>2, <2>3 DEF Order, PathsStarted, FromIndex
  <2> QED BY <2>3, <2>4 DEF Order
<1>8. CASE StopKustomize \/ StopCollector \/ EndReleases \/ StopHelm \/ StopWriter \/ StopForward \/ Exit
  <2>1. /\ UNCHANGED task /\ main \notin {"start", "paths"} /\ main' \notin {"start", "paths"}
        /\ main' = "releases" => todo' = index
    BY <1>8 DEF StopKustomize, StopCollector, EndReleases, StopHelm, StopWriter, StopForward, Exit
  <2> QED BY <1>1, <2>1 DEF Order, FromBuilt, PathsStarted, FromIndex
<1> QED BY <1>4, <1>5, <1>6, <1>7, <1>8 DEF Main

LEMMA OrderStep == PInv /\ Order /\ [Next]_vars => Order'
<1> SUFFICES ASSUME PInv, Order, [Next]_vars PROVE Order'
  OBVIOUS
<1>1. ASSUME RecordError \/ CancelContext \/ (\E t \in Task : ForwardPanic(t)) \/ UNCHANGED vars
      PROVE  Order'
  <2>1. UNCHANGED <<resources, index, pushing, task, main, todo>>
    BY <1>1 DEF RecordError, CancelContext, ForwardPanic, vars
  <2> QED BY <2>1 DEF Order, FromBuilt, PathsStarted, FromIndex
<1> QED BY <1>1, TasksKeepOrder, MainKeepsOrder DEF Next, Gone

Whole == PInv /\ Delivery /\ Indexing /\ Order

\* Where Run is while a path, and while a release, is being built.
LEMMA StageOf ==
  ASSUME PInv, NEW t \in Producer, task[t] \notin Ended \cup {"none"}
  PROVE  /\ t \in Path => BatchStage = "paths"
         /\ t \in Release => BatchStage = "releases"
<1> USE DEF PInv
<1>1. CASE t \in Path
  <2>1. main \notin Kustomized /\ main \in Stage
    BY <1>1 DEF Stages, Stopped, TypeOK
  <2> QED BY <1>1, <2>1 DEF BatchStage, Kustomized, Stage
<1>2. CASE t \in Release
  <2>1. main \in Collected /\ main \notin Released
    BY <1>2 DEF Stages, Stopped
  <2> QED BY <1>2, <2>1 DEF BatchStage, Released, Collected, Kustomized, Stage
<1> QED BY <1>1, <1>2

\* A path or a release that is being built, is.
LEMMA SettlesIt ==
  ASSUME Whole, NEW t \in Producer, task[t] = "building",
         NEW there \in {"sendManifest", "sendErr", "panicked"}, task' = [task EXCEPT ![t] = there],
         UNCHANGED <<main, index, output, unwritten, cancelled>>, pushFailed' = pushFailed
  PROVE  Promise!Next
<1> DEFINE to == IF there = "sendManifest" THEN "built" ELSE "failed"
<1>1. task \in [Task -> Place]
  BY DEF Whole, PInv, TypeOK, Place
<1>2. Result[t] = "none" /\ Result' = [Result EXCEPT ![t] = to]
  BY <1>1 DEF Result
<1>3. UNCHANGED <<BatchStage, cancelled \/ pushFailed>>
  BY DEF BatchStage
<1>4. Promise!Settle(t, to)
  BY <1>2, <1>3 DEF Promise!Settle
<1>5. CASE t \in Path
  <2>1. Promise!BuildPath(t, to)
    BY <1>4, <1>5, StageOf DEF Promise!BuildPath, Ended, Whole
  <2> QED BY <1>5, <2>1 DEF Promise!Next
<1>6. CASE t \in Release
  <2>1. t \in index
    BY <1>6 DEF Whole, Order, FromIndex
  <2>2. Promise!BuildRelease(t, to)
    BY <1>4, <1>6, <2>1, StageOf DEF Promise!BuildRelease, Ended, Whole
  <2> QED BY <1>6, <2>2 DEF Promise!Next
<1> QED BY <1>5, <1>6

LEMMA PushCollects ==
  ASSUME Whole, Push, main # "exited" PROVE Promise!Next
<1>1. pushing \in Path /\ task["collector"] = "handle" /\ task[pushing] = "done"
  BY DEF Push, Whole, PInv, Roles, Order, FromBuilt
<1>2. main \notin Collected /\ main \in Stage
  BY <1>1 DEF Whole, PInv, Stages, Stopped, Ended, TypeOK
<1>3. BatchStage = "paths"
  BY <1>2 DEF BatchStage, Collected, Kustomized, Stage
<1>4. \E there : task' = [task EXCEPT !["collector"] = there]
  BY DEF Push, Move
<1>5. Result' = Result
  BY <1>4 DEF Result, Whole, PInv, TypeOK
<1>6. Result[pushing] = "built"
  BY <1>1 DEF Result
<1>7. UNCHANGED <<output, unwritten, cancelled, main>>
  BY DEF Push
<1>8. UNCHANGED BatchStage
  BY <1>7 DEF BatchStage
<1>9. \/ index' = index \cup Declares[pushing] /\ UNCHANGED (cancelled \/ pushFailed)
      \/ /\ \E some \in SUBSET Declares[pushing] : index' = index \cup some
         /\ (cancelled \/ pushFailed)' = TRUE
  BY <1>7 DEF Push
<1>10. Promise!Collect(pushing)
  BY <1>3, <1>5, <1>6, <1>7, <1>8, <1>9 DEF Promise!Collect
<1> QED BY <1>1, <1>10 DEF Promise!Next

LEMMA WriteWrites ==
  ASSUME Whole, Write, main # "exited" PROVE Promise!Next
<1>1. writing \in Producer /\ InHand = {writing}
  BY DEF Write, Whole, PInv, Roles, InHand
<1>2. writing \in Handed /\ writing \notin Output \cup unwritten
  BY <1>1 DEF Whole, Delivery, EachOnce
<1>3. Result[writing] = "built"
  BY <1>1, <1>2 DEF Handed, Result
<1>4. writing \notin Promise!Written
  BY <1>2 DEF Promise!Written, Output
<1>5. \E there : task' = [task EXCEPT !["writer"] = there]
  BY DEF Write, Move
<1>6. Result' = Result
  BY <1>5 DEF Result, Whole, PInv, TypeOK
<1>7. UNCHANGED <<index, cancelled, pushFailed, main>>
  BY DEF Write
<1>8. UNCHANGED <<BatchStage, cancelled \/ pushFailed>>
  BY <1>7 DEF BatchStage
<1>9. BatchStage # "over"
  BY DEF BatchStage
<1>10. Promise!Write(writing)
  BY <1>3, <1>4, <1>6, <1>7, <1>8, <1>9 DEF Promise!Write, Write
<1> QED BY <1>1, <1>10 DEF Promise!Next

\* When the collector is through, every path is, and all releases are found.
LEMMA CollectedAll ==
  ASSUME Whole, StopCollector PROVE Promise!Next
<1>1. /\ main = "collecting" /\ main' = "releases" /\ Stopped({"collector"})
      /\ UNCHANGED <<task, index, output, unwritten, cancelled, pushFailed>>
  BY DEF StopCollector, Goto
<1>2. BatchStage = "paths" /\ BatchStage' = "releases"
  BY <1>1 DEF BatchStage
<1>3. Result' = Result /\ UNCHANGED (cancelled \/ pushFailed)
  BY <1>1 DEF Result
<1>4. ASSUME ~cancelled, ~pushFailed, NEW p \in Path
      PROVE  \/ Result[p] = "failed"
             \/ Result[p] = "built" /\ Declares[p] \subseteq index
  <2>1. task["collector"] = "done" /\ resources = <<>>
    BY <1>1, <1>4 DEF Stopped, Ended, Whole, Indexing, CollectorRuns
  <2>2. task[p] \in Ended /\ task[p] # "dropped"
    BY <1>1, <1>4 DEF Stopped, Whole, PInv, Stages, Kustomized, Stage, Order, PathsStarted,
                      Indexing, CollectorRuns
  <2>3. task[p] = "done" => Declares[p] \subseteq index
    BY <1>4, <2>1 DEF Whole, Indexing, OnTheWay
  <2> QED BY <2>2, <2>3 DEF Ended, Result
<1>5. Promise!BeginReleases
  BY <1>1, <1>2, <1>3, <1>4 DEF Promise!BeginReleases
<1> QED BY <1>5 DEF Promise!Next

\* When Run returns, all that was built is written and every release is built.
LEMMA ExitEnds ==
  ASSUME Whole, Exit PROVE Promise!Next
<1>1. /\ main = "exit" /\ main' = "exited"
      /\ UNCHANGED <<task, index, output, unwritten, cancelled, pushFailed>>
  BY DEF Exit, Goto
<1>2. BatchStage = "releases" /\ BatchStage' = "over"
  BY <1>1 DEF BatchStage
<1>3. Result' = Result /\ UNCHANGED (cancelled \/ pushFailed)
  BY <1>1 DEF Result
<1>4. Stopped(Path) /\ Stopped(Release) /\ Stopped({"writer"})
  BY <1>1 DEF Whole, PInv, Stages, Written, Released, Collected, Kustomized, Stage
<1>5. manifests = <<>> /\ writing = None
  BY <1>1, <1>4 DEF Stopped, Ended, Whole, Delivery, WriterRuns
<1>6. Handed = Output \cup unwritten
  BY <1>5 DEF Whole, Delivery, EachOnce, Buffered, InHand
<1>7. ASSUME NEW i \in Producer, Result[i] = "built" PROVE i \in Promise!Written
  <2>1. i \in Handed
    BY <1>4, <1>7 DEF Result, Stopped, Ended, Handed
  <2> QED BY <1>6, <2>1 DEF Promise!Written, Output
<1>8. ASSUME ~cancelled, NEW r \in index PROVE Result[r] # "none"
  <2>1. r \in Release
    BY DEF Whole, PInv, TypeOK
  <2>2. task[r] # "none" /\ task[r] # "dropped"
    BY <1>1, <1>8, <2>1 DEF Whole, Indexing, Starts, CollectorRuns, Collected, Kustomized, Stage
  <2> QED BY <1>4, <2>1, <2>2 DEF Stopped, Ended, Result
<1>9. Promise!End
  BY <1>1, <1>2, <1>3, <1>7, <1>8 DEF Promise!End
<1> QED BY <1>9 DEF Promise!Next

LEMMA GivesUp ==
  ASSUME main # "exited", UNCHANGED <<main, index, output, unwritten>>, Result' = Result,
         (cancelled \/ pushFailed)' = TRUE
  PROVE  Promise!Next
<1>1. Promise!GiveUp
  BY DEF Promise!GiveUp, BatchStage
<1> QED BY <1>1 DEF Promise!Next

\* The other steps say nothing of the batch.
LEMMA Stutters ==
  ASSUME UNCHANGED <<main, index, output, unwritten, cancelled, pushFailed>>, Result' = Result
  PROVE  UNCHANGED Promise!vars
BY DEF Promise!vars, BatchStage

LEMMA TasksRefine ==
  ASSUME Whole, "writer" \notin MayPanic, main # "exited", NEW t \in Task, TaskStep(t)
  PROVE  [Promise!Next]_(Promise!vars)
<1>0. task \in [Task -> Place] /\ pushFailed \in BOOLEAN
  BY DEF Whole, PInv, TypeOK, Place
<1>1. CASE t \in Producer /\ (BuildSucceeds(t) \/ BuildFails(t))
  <2>1. PICK there \in {"sendManifest", "sendErr"} : task' = [task EXCEPT ![t] = there]
    BY <1>1 DEF BuildSucceeds, BuildFails, Move
  <2> QED BY <1>1, <2>1, SettlesIt DEF BuildSucceeds, BuildFails
<1>2. CASE t \in Producer /\ Panic(t)
  <2>1. task[t] = "building" /\ task' = [task EXCEPT ![t] = "panicked"]
    BY <1>2 DEF Panic, Move, Whole, PInv, Roles, Ended
  <2>2. pushFailed' = pushFailed
    <3>1. t # "collector"
      BY <1>2
    <3> QED BY <1>0, <1>2, <3>1 DEF Panic
  <2> QED BY <1>2, <2>1, <2>2, SettlesIt DEF Panic
<1>3. CASE t \in Producer /\ ~(BuildSucceeds(t) \/ BuildFails(t) \/ Panic(t))
  <2>1. UNCHANGED <<main, index, output, unwritten, cancelled, pushFailed>>
    BY <1>3 DEF TaskStep, SendErr, Build, SendManifest, SendResource, StartQueued, DropQueued
  <2>2. \E there : /\ task' = [task EXCEPT ![t] = there]
                   /\ \/ task[t] = "sendErr" /\ there = "failed"
                      \/ task[t] \in {"sendManifest", "sendResource"} /\ there \in {"sendResource", "done"}
                      \/ task[t] = "queued" /\ there \in {"building", "dropped"}
    BY <1>3 DEF TaskStep, SendErr, Build, SendManifest, SendResource, StartQueued, DropQueued, Move
  <2>3. Result' = Result
    BY <1>0, <2>2 DEF Result
  <2> QED BY <2>1, <2>3, Stutters
<1>4. CASE t = "collector" /\ Push
  BY <1>4, PushCollects
<1>5. CASE t = "writer" /\ Write
  BY <1>5, WriteWrites
<1>6. t \in {"collector", "writer"} => Result' = Result
  <2>1. \E there : task' = [task EXCEPT ![t] = there]
    BY TaskMoves DEF Whole, PInv
  <2> QED BY <1>0, <2>1 DEF Result
<1>7. CASE t = "collector" /\ Panic(t)
  <2>1. UNCHANGED <<main, index, output, unwritten>> /\ (cancelled \/ pushFailed)' = TRUE
    BY <1>7 DEF Panic
  <2> QED BY <1>6, <1>7, <2>1, GivesUp
<1>8. CASE t \in {"collector", "writer"} /\ (SendErr(t) \/ ReceiveResource \/ CollectorEnds
                                             \/ ReceiveManifest \/ WriterEnds)
  <2>1. UNCHANGED <<main, index, output, unwritten, cancelled, pushFailed>>
    BY <1>8 DEF SendErr, ReceiveResource, CollectorEnds, ReceiveManifest, WriterEnds
  <2> QED BY <1>6, <1>8, <2>1, Stutters
<1>9. t \in Producer \/ t \in {"collector", "writer"}
  OBVIOUS
<1>10. t = "writer" => ~Panic(t)
  BY DEF Panic
<1> QED BY <1>1, <1>2, <1>3, <1>4, <1>5, <1>7, <1>8, <1>9, <1>10 DEF TaskStep

LEMMA MainRefines ==
  ASSUME Whole, Main PROVE [Promise!Next]_(Promise!vars)
<1>0. {"receive", "building"} \subseteq Place /\ {"writer", "collector"} \subseteq Task
  BY DEF Place, Busy
<1>1. CASE StopCollector
  BY <1>1, CollectedAll
<1>2. CASE Exit
  BY <1>2, ExitEnds
<1>3. CASE ~StopCollector /\ ~Exit
  <2>1. UNCHANGED <<index, output, unwritten, cancelled, pushFailed>>
    BY <1>3 DEF Main, StartWriter, StartPath, StartCollector, StopKustomize,
                StartRelease, EndReleases, StopHelm, StopWriter, StopForward
  <2>2. BatchStage' = BatchStage
    BY <1>3 DEF Main, StartWriter, StartPath, StartCollector, StopKustomize,
                StartRelease, EndReleases, StopHelm, StopWriter, StopForward, Goto, BatchStage
  <2>3. ASSUME NEW t \in Task, NEW pool, NEW size, NEW first \in {"receive", "building"},
               Submit(t, pool, size, first), task[t] = "none"
        PROVE  Result' = Result
    <3>1. /\ \A u \in Task : u # t => task'[u] = task[u]
          /\ task'[t] \in {first, "queued", "dropped"}
      BY <1>0, <2>3, Submitted DEF Whole, PInv
    <3> QED BY <2>3, <3>1 DEF Result
  <2>4. Result' = Result
    <3>1. CASE StartWriter
      BY <1>0, <2>3, <3>1 DEF StartWriter, Whole, PInv, Stages
    <3>2. CASE StartCollector
      BY <1>0, <2>3, <3>2 DEF StartCollector, Whole, PInv, Stages
    <3>3. CASE StartPath
      <4>1. PICK p \in todo : Submit(p, Path, Cardinality(Path), "building") /\ main = "paths"
        BY <3>3 DEF StartPath
      <4>2. p \in Path /\ task[p] = "none"
        BY <4>1 DEF Whole, PInv, Stages
      <4> QED BY <2>3, <4>1, <4>2
    <3>4. CASE StartRelease
      <4>1. PICK r \in todo : Submit(r, Release, Workers, "building") /\ main = "releases"
        BY <3>4 DEF StartRelease
      <4>2. r \in Release /\ task[r] = "none"
        BY <4>1 DEF Whole, PInv, Stages
      <4> QED BY <2>3, <4>1, <4>2
    <3>5. CASE UNCHANGED task
      BY <3>5 DEF Result
    <3> QED BY <1>3, <3>1, <3>2, <3>3, <3>4, <3>5 DEF Main, StopKustomize, EndReleases, StopHelm,
               StopWriter, StopForward
  <2> QED BY <2>1, <2>2, <2>4 DEF Promise!vars
<1> QED BY <1>1, <1>2, <1>3

\* Whatever is done at the same time, a run is a batch built step by step:
\* every path and release once, every manifest written once, and nothing
\* left out unless the run has been given up; the writer must not panic.
THEOREM RunIsABatch ==
  ASSUME "writer" \notin MayPanic
  PROVE  Spec => ImplementsBatch
<1>1. Init => Promise!Init
  BY DEF Init, Promise!Init, BatchStage, Result
<1>2. Init => Indexing /\ Order
  BY DEF Init, Indexing, OnTheWay, CollectorRuns, Starts, Order, FromBuilt, PathsStarted, FromIndex
<1>3. PInv /\ Delivery /\ Indexing /\ Order /\ [Next]_vars => [Promise!Next]_(Promise!vars)
  <2> SUFFICES ASSUME Whole, [Next]_vars PROVE [Promise!Next]_(Promise!vars)
    BY DEF Whole
  <2>1. CASE RecordError \/ \E t \in Task : ForwardPanic(t)
    <3>1. UNCHANGED <<main, task, index, output, unwritten, cancelled, pushFailed>>
      BY <2>1 DEF RecordError, ForwardPanic
    <3>2. Result' = Result
      BY <3>1 DEF Result
    <3> QED BY <3>1, <3>2, Stutters
  <2>2. CASE main # "exited" /\ CancelContext
    <3>1. UNCHANGED <<main, task, index, output, unwritten>> /\ (cancelled \/ pushFailed)' = TRUE
      BY <2>2 DEF CancelContext
    <3>2. Result' = Result
      BY <3>1 DEF Result
    <3> QED BY <2>2, <3>1, <3>2, GivesUp
  <2>3. CASE UNCHANGED vars
    <3>1. UNCHANGED <<main, task, index, output, unwritten, cancelled, pushFailed>>
      BY <2>3 DEF vars
    <3>2. Result' = Result
      BY <3>1 DEF Result
    <3> QED BY <3>1, <3>2, Stutters
  <2> QED BY <2>1, <2>2, <2>3, TasksRefine, MainRefines DEF Next, Gone
<1>4. PInv /\ Delivery /\ [Next]_vars => Delivery'
  BY DeliveryStep
<1> QED BY <1>1, <1>2, <1>3, <1>4, PInvAlways, DeliveryInit, IndexingStep, OrderStep, PTL
        DEF Spec, ImplementsBatch, Promise!Spec
=============================================================================
