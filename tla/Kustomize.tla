------------------------------ MODULE Kustomize ------------------------------
(***************************************************************************)
(* How a kustomize path is built: Kustomize of internal/build/kustomize.go. *)
(*                                                                         *)
(* Each path of the command line has a task of its own, and all tasks work *)
(* on the user's directories.  A directory without a kustomization.yaml is *)
(* walked, gets a kustomization.yaml that lists the manifests and the      *)
(* kustomizations found, is built, and loses the file again.  Only the     *)
(* build itself (krusty, of the kustomize library) runs under              *)
(* kustomizeBuildMutex; the walk, the write and the removal do not.        *)
(*                                                                         *)
(* A path that is a file is built in a temporary directory that links to   *)
(* it: a directory that only its task uses, with no parent.                *)
(*                                                                         *)
(* A directory's manifests are one entry <<"files", d>> of the             *)
(* kustomization that lists them, the kustomization of a subdirectory is   *)
(* <<"dir", d>>.  A run may be killed and started again, and before that   *)
(* the user may add manifests to a directory that had none.                *)
(***************************************************************************)
EXTENDS Naturals, FiniteSets

CONSTANTS
  Dir,         \* directories
  NoDir,       \* the parent of a directory that no task has below its path
  Parent,      \* the parent of each directory
  Task,        \* the tasks, one per path of the command line
  Paths,       \* the command lines: functions from tasks to directories
  Temp,        \* the directories made for paths that are files
  Trees,       \* what the user has: [yaml, other, files], sets of directories
               \* with a kustomization.yaml, with a kustomization file of
               \* another recognized name, and with manifests
  NoFile,      \* a file that does not exist
  MaxCrashes   \* bound on the runs that are killed

NoTask == "no task"
Entry == {"files", "dir"} \X Dir

\* d and the directories above it: all that is in every set that has d and,
\* of each of its directories, the parent.
Above == [d \in Dir |->
  {c \in Dir : \A A \in SUBSET Dir :
     d \in A /\ (\A x \in A : Parent[x] # NoDir => Parent[x] \in A) => c \in A}]

ASSUME KustomizeAssumption ==
  /\ Parent \in [Dir -> Dir \cup {NoDir}] /\ NoDir \notin Dir
  /\ \A d \in Dir : Parent[d] # NoDir => d \notin Above[Parent[d]]   \* a tree
  /\ Paths \subseteq [Task -> Dir]
  /\ Temp \subseteq Dir
  /\ Trees \subseteq [yaml : SUBSET Dir, other : SUBSET Dir, files : SUBSET Dir]
  /\ \A d \in Temp :
       /\ Parent[d] = NoDir /\ \A c \in Dir : Parent[c] # d
       /\ \A p \in Paths, s, t \in Task : p[s] = d /\ p[t] = d => s = t
       /\ \A u \in Trees : d \notin u.yaml \cup u.other
  /\ MaxCrashes \in Nat
  /\ NoTask \notin Task /\ \A E \in SUBSET Entry : E # NoFile

VARIABLES
  pathOf,   \* the directory each task builds
  tree,     \* what the user has
  kfile,    \* the kustomization.yaml of each directory: its entries, or NoFile
  added,    \* the directories the user has added manifests to
  pc,       \* where each task is
  todo,     \* the directories a task has yet to walk, or krusty to load
  found,    \* the resources a task has detected
  made,     \* the tasks that have deferred the removal of the file
  got,      \* the manifests krusty has read for a task
  mutex,    \* the task that holds kustomizeBuildMutex
  crashes

user == <<pathOf, tree, added, crashes>>
vars == <<user, kfile, pc, todo, found, made, got, mutex>>

Children(d) == {c \in Dir : Parent[c] = d}

\* The manifests directly in d, as entries of a list of resources.
Manifests(d) == {"files"} \X ({d} \cap (tree.files \cup added))

\* A kustomization of the user's lists the manifests beside it and the
\* subdirectories that have one too.
UserLists(d) == Manifests(d) \cup ({"dir"} \X (Children(d) \cap (tree.yaml \cup tree.other)))

TypeOK ==
  /\ pathOf \in Paths
  /\ tree \in [yaml : SUBSET Dir, other : SUBSET Dir, files : SUBSET Dir]
  /\ kfile \in [Dir -> {NoFile} \cup SUBSET Entry]
  /\ added \subseteq Dir
  /\ pc \in [Task -> {"stat", "walk", "create", "fill", "lock", "load", "unlock", "failUnlock",
                      "remove", "failRemove", "done", "failed"}]
  /\ todo \in [Task -> SUBSET Dir]
  /\ found \in [Task -> SUBSET Entry] /\ got \in [Task -> SUBSET Entry]
  /\ made \subseteq Task
  /\ mutex \in Task \cup {NoTask}
  /\ crashes \in 0..MaxCrashes

Init ==
  /\ pathOf \in Paths
  /\ tree \in Trees
  /\ added = {} /\ made = {}
  /\ kfile = [d \in Dir |-> IF d \in tree.yaml THEN UserLists(d) ELSE NoFile]
  /\ pc = [t \in Task |-> "stat"]
  /\ todo = [t \in Task |-> {}]
  /\ found = [t \in Task |-> {}] /\ got = [t \in Task |-> {}]
  /\ mutex = NoTask
  /\ crashes = 0

-----------------------------------------------------------------------------
Base(t) == pathOf[t]
From(t, here) == pc[t] = here
Goto(t, there) == pc' = [pc EXCEPT ![t] = there]

\* os.Stat finds the kustomization.yaml, or a walk is begun and the removal
\* of the file deferred; a path that is a file gets its directory, one of
\* Temp, first; and the path itself may not be there.
Stat(t) ==
  /\ From(t, "stat")
  /\ \/ /\ kfile[Base(t)] # NoFile
        /\ Goto(t, "lock")
        /\ UNCHANGED <<made, todo>>
     \/ /\ kfile[Base(t)] = NoFile
        /\ made' = made \cup {t}
        /\ todo' = [todo EXCEPT ![t] = {Base(t)}]
        /\ Goto(t, "walk")
     \/ /\ kfile[Base(t)] = NoFile
        /\ Goto(t, "failed")
        /\ UNCHANGED <<made, todo>>
  /\ UNCHANGED <<user, kfile, found, got, mutex>>

\* A kustomization file of any recognized name is in d.
HasKustomization(d) == kfile[d] # NoFile \/ d \in tree.other

\* Mutant of Visit: a kustomization that is found is skipped, not added.
VisitSkips(t, d) ==
  IF d # Base(t) /\ HasKustomization(d)
  THEN [entries |-> {}, below |-> {}]
  ELSE [entries |-> Manifests(d), below |-> Children(d)]

\* detectResources at one directory: the kustomization of a subdirectory is
\* a resource and is not descended into; any other directory gives its
\* manifests and its subdirectories.
Visit(t, d) ==
  IF d # Base(t) /\ HasKustomization(d)
  THEN [entries |-> {<<"dir", d>>}, below |-> {}]
  ELSE [entries |-> Manifests(d), below |-> Children(d)]

\* A directory or a file that cannot be read ends the walk; so does, in a
\* path that is a file, anything that is no manifest.
Walk(t) ==
  /\ From(t, "walk")
  /\ \/ /\ todo[t] = {}
        /\ Goto(t, "create")
        /\ UNCHANGED <<todo, found>>
     \/ \E d \in todo[t] :
          /\ found' = [found EXCEPT ![t] = @ \cup Visit(t, d).entries]
          /\ todo' = [todo EXCEPT ![t] = (@ \ {d}) \cup Visit(t, d).below]
          /\ UNCHANGED pc
     \/ Goto(t, "failRemove") /\ UNCHANGED <<todo, found>>
  /\ UNCHANGED <<user, kfile, made, got, mutex>>

\* os.WriteFile first creates the file or truncates the one it finds.
Create(t) ==
  /\ From(t, "create")
  /\ \/ kfile' = [kfile EXCEPT ![Base(t)] = {}] /\ Goto(t, "fill")
     \/ UNCHANGED kfile /\ Goto(t, "failRemove")
  /\ UNCHANGED <<user, todo, found, made, got, mutex>>

\* Mutants of Fill: the list of resources is empty; it is one of paths.
FillNothing(t) ==
  /\ From(t, "fill")
  /\ Goto(t, "lock")
  /\ UNCHANGED <<user, kfile, todo, found, made, got, mutex>>

FillPaths(t) ==
  /\ From(t, "fill")
  /\ kfile' = [kfile EXCEPT ![Base(t)] = {e[2] : e \in found[t]}]
  /\ Goto(t, "lock")
  /\ UNCHANGED <<user, todo, found, made, got, mutex>>

\* Then it writes; a file another task has removed meanwhile stays away.
Fill(t) ==
  /\ From(t, "fill")
  /\ kfile' = [kfile EXCEPT ![Base(t)] = IF @ = NoFile THEN NoFile ELSE found[t]]
  /\ Goto(t, "lock")
  /\ UNCHANGED <<user, todo, found, made, got, mutex>>

\* Mutant of LockBuild: builds run side by side.
LockBuildFree(t) ==
  /\ From(t, "lock")
  /\ mutex' = t
  /\ todo' = [todo EXCEPT ![t] = {Base(t)}]
  /\ Goto(t, "load")
  /\ UNCHANGED <<user, kfile, found, made, got>>

LockBuild(t) ==
  /\ From(t, "lock")
  /\ mutex = NoTask
  /\ mutex' = t
  /\ todo' = [todo EXCEPT ![t] = {Base(t)}]
  /\ Goto(t, "load")
  /\ UNCHANGED <<user, kfile, found, made, got>>

\* What krusty finds in d: the entries of its one kustomization file.
Listed(d) == IF kfile[d] # NoFile THEN kfile[d] ELSE UserLists(d)

Loadable(d) ==
  /\ (kfile[d] # NoFile) # (d \in tree.other)   \* exactly one recognized name
  /\ Listed(d) # {}                             \* it is not empty

\* kustomizer.Run loads one directory after the other, beginning with the
\* base.  It fails on one without a kustomization, with two, with an empty
\* one, and for reasons of its own.
Load(t) ==
  /\ From(t, "load")
  /\ \/ /\ todo[t] = {}
        /\ Goto(t, "unlock")
        /\ UNCHANGED <<todo, got>>
     \/ \E d \in todo[t] :
          /\ Loadable(d)
          /\ got' = [got EXCEPT ![t] = @ \cup (Listed(d) \cap ({"files"} \X Dir))]
          /\ todo' = [todo EXCEPT ![t] = (@ \ {d}) \cup {c \in Dir : <<"dir", c>> \in Listed(d)}]
          /\ UNCHANGED pc
     \/ Goto(t, "failUnlock") /\ UNCHANGED <<todo, got>>
  /\ UNCHANGED <<user, kfile, found, made, mutex>>

\* Mutant of UnlockBuild: the mutex is unlocked after a success only.
UnlockOnSuccess(t) ==
  /\ \/ From(t, "unlock") /\ Goto(t, "remove")
     \/ From(t, "failUnlock") /\ Goto(t, "failRemove")
  /\ mutex' = IF From(t, "unlock") THEN NoTask ELSE mutex
  /\ UNCHANGED <<user, kfile, todo, found, made, got>>

\* The deferred calls, last one first: the mutex,
UnlockBuild(t) ==
  /\ \/ From(t, "unlock") /\ Goto(t, "remove")
     \/ From(t, "failUnlock") /\ Goto(t, "failRemove")
  /\ mutex' = NoTask
  /\ UNCHANGED <<user, kfile, todo, found, made, got>>

\* Mutants of RemoveFile: the file is removed without having been missing;
\* it is removed after a success only.
RemoveOnSuccess(t) ==
  /\ \/ From(t, "remove") /\ Goto(t, "done")
     \/ From(t, "failRemove") /\ Goto(t, "failed")
  /\ kfile' = [kfile EXCEPT ![Base(t)] = IF t \in made /\ From(t, "remove") THEN NoFile ELSE @]
  /\ UNCHANGED <<user, todo, found, made, got, mutex>>

RemoveAlways(t) ==
  /\ \/ From(t, "remove") /\ Goto(t, "done")
     \/ From(t, "failRemove") /\ Goto(t, "failed")
  /\ kfile' = [kfile EXCEPT ![Base(t)] = NoFile]
  /\ UNCHANGED <<user, todo, found, made, got, mutex>>

\* then the kustomization.yaml, whoever's it is by now, with the temporary
\* directory if there is one.
RemoveFile(t) ==
  /\ \/ From(t, "remove") /\ Goto(t, "done")
     \/ From(t, "failRemove") /\ Goto(t, "failed")
  /\ kfile' = [kfile EXCEPT ![Base(t)] = IF t \in made THEN NoFile ELSE @]
  /\ UNCHANGED <<user, todo, found, made, got, mutex>>

Step(t) ==
  \/ Stat(t) \/ Walk(t) \/ Create(t) \/ Fill(t) \/ LockBuild(t) \/ Load(t)
  \/ UnlockBuild(t) \/ RemoveFile(t)

\* The run is killed and started again, perhaps after the user has added
\* manifests.  The directories stay as they are; temporary ones are new.
Crash ==
  /\ crashes < MaxCrashes
  /\ crashes' = crashes + 1
  /\ \/ UNCHANGED added
     \/ \E d \in Dir \ (tree.yaml \cup tree.other \cup tree.files) : added' = added \cup {d}
  /\ pc' = [t \in Task |-> "stat"]
  /\ todo' = [t \in Task |-> {}]
  /\ found' = [t \in Task |-> {}] /\ got' = [t \in Task |-> {}]
  /\ kfile' = [d \in Dir |-> IF d \in Temp THEN NoFile ELSE kfile[d]]
  /\ made' = {}
  /\ mutex' = NoTask
  /\ UNCHANGED <<pathOf, tree>>

Over == \A t \in Task : pc[t] \in {"done", "failed"}

Finished == Over /\ UNCHANGED vars

Next == (\E t \in Task : Step(t)) \/ Crash \/ Finished

Fairness == \A t \in Task : WF_vars(Step(t))

Spec == Init /\ [][Next]_vars /\ Fairness

-----------------------------------------------------------------------------
(***************************************************************************)
(* Properties.                                                             *)
(***************************************************************************)
\* The directories a build of base is made of: all below it, but below a
\* kustomization of the user's only what that lists.
Covered(base) ==
  LET users == tree.yaml \cup tree.other
      below == {d \in Dir : base \in Above[d]} IN
  {d \in below : \A c \in (Above[d] \cap below) \ {base} : Parent[c] \in users => c \in users}

\* A kustomization.yaml of the user's is never overwritten or removed,
\* whichever paths are built beside it, fail or are killed.
UserFilesKept == \A d \in tree.yaml : kfile[d] = UserLists(d)

\* When all tasks are through, no directory has a kustomization.yaml that
\* it had not before, even when paths are equal or nested and some fail.
TreeRestored ==
  Over /\ crashes = 0 => \A d \in Dir \ tree.yaml : kfile[d] = NoFile

\* A build that succeeds misses no manifest that was there from the start,
\* although other tasks create and remove kustomizations below its path
\* while it walks and loads, and although earlier runs were killed; it has
\* no manifest of another path.  (What the user adds after a kill it may
\* miss: the kustomization.yaml left behind is taken for the user's.)
BuildIsComplete ==
  \A t \in Task : From(t, "done") =>
    /\ {"files"} \X (Covered(Base(t)) \cap tree.files) \subseteq got[t]
    /\ got[t] \subseteq {"files"} \X (Covered(Base(t)) \cap (tree.files \cup added))

\* No two tasks run krusty, which is not safe for concurrent use.
OneBuildAtATime ==
  \A s, t \in Task : From(s, "load") /\ From(t, "load") => s = t

\* Every task ends: none keeps the mutex for ever.
EveryPathEnds == <>[]Over

Nested(s, t) == Base(s) \in Above[Base(t)] \/ Base(t) \in Above[Base(s)]

\* A build of base alone has something to build: there is a manifest, or the
\* user has a kustomization.yaml; and every kustomization of the user's that
\* it comes to is the only one of its directory and not empty.
Buildable(base) ==
  /\ base \in tree.yaml \/ (base \notin tree.other /\ Covered(base) \cap tree.files # {})
  /\ \A d \in Covered(base) \cap (tree.yaml \cup tree.other) :
       d \notin tree.yaml \cap tree.other /\ UserLists(d) # {}

\* Every directory krusty comes to has exactly one kustomization that is
\* not empty: no build fails because another task has removed or truncated
\* the file, whatever paths are chained on the command line.
ChainedPathsBuild ==
  crashes = 0 => \A t \in Task :
    From(t, "load") /\ Buildable(Base(t)) => \A d \in todo[t] : Loadable(d)

\* That is so for paths of which none is equal to or inside another.
DisjointPathsBuild ==
  (\A s, t \in Task : Nested(s, t) => s = t) => ChainedPathsBuild
=============================================================================
