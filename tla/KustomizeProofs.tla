-------------------------- MODULE KustomizeProofs --------------------------
(***************************************************************************)
(* Proofs about Kustomize, for any tree, command line and number of kills. *)
(* KInv says who may write the kustomization.yaml of a directory: tasks    *)
(* that found none there when they began and have deferred its removal,    *)
(* hence never where the user has one; and, until a run is killed, that    *)
(* every such file has a task that is still to remove it.  BInv adds that  *)
(* whatever krusty can load in a directory is a complete list for it, and  *)
(* so is what a walk or a load has found together with what is yet to be   *)
(* walked or loaded.  DInv adds what a task whose path is apart from all   *)
(* others meets below it: its own file and the user's.                     *)
(***************************************************************************)
EXTENDS Kustomize, TLAPS

\* Krusty runs, or has just run, for the task that holds the mutex.
HoldsMutex ==
  \A t \in Task : pc[t] \in {"load", "unlock", "failUnlock"} <=> mutex = t

\* A task that walks or writes has deferred the removal of the file, and one
\* that has begins to write only where the user has no such file.
Deferred ==
  \A t \in Task :
    /\ pc[t] \in {"walk", "create", "fill"} => t \in made
    /\ t \in made => pc[t] # "stat" /\ pathOf[t] \notin tree.yaml

\* Until a run is killed, a file the user does not have has a task to remove it.
HasRemover ==
  crashes = 0 => \A d \in Dir \ tree.yaml : kfile[d] # NoFile =>
    \E t \in made : pathOf[t] = d /\ pc[t] \notin {"done", "failed"}

KInv ==
  /\ TypeOK /\ tree \in Trees
  /\ HoldsMutex /\ Deferred /\ UserFilesKept /\ HasRemover

Users == tree.yaml \cup tree.other

\* E names the manifest of c, or a directory whose build has it.
Has(E, c) == <<"files", c>> \in E \/ \E e \in Dir : <<"dir", e>> \in E /\ c \in Covered(e)

\* E names nothing but what a build of d is made of; and it misses no manifest.
Within(E, d) ==
  /\ \A c \in Dir : <<"files", c>> \in E => c \in Covered(d) \cap (tree.files \cup added)
  /\ \A c \in Dir : <<"dir", c>> \in E => c \in Covered(d)
Complete(E, d) == Within(E, d) /\ \A c \in Covered(d) \cap tree.files : Has(E, c)

\* A kustomization.yaml that krusty can load, whoever made it and whenever,
\* is a complete list for its directory.
FilesList ==
  \A d \in Dir \ tree.other : kfile[d] \notin {NoFile, {}} => Complete(kfile[d], d)

\* What a walk has found and what it has yet to walk are together complete.
Walks ==
  \A t \in Task :
    /\ pathOf[t] \notin tree.other => Within(found[t], pathOf[t])
    /\ pathOf[t] \notin tree.other /\ pc[t] = "walk" => todo[t] \subseteq Covered(pathOf[t])
    /\ pc[t] = "walk" => \A c \in Covered(pathOf[t]) \cap tree.files :
         Has(found[t], c) \/ \E d \in todo[t] : c \in Covered(d)
    /\ pc[t] \in {"create", "fill", "lock", "load"} /\ t \in made =>
         \A c \in Covered(pathOf[t]) \cap tree.files : Has(found[t], c)

\* And so is what krusty has read and what it has yet to load.
Loads ==
  \A t \in Task :
    /\ got[t] \subseteq {"files"} \X (Covered(pathOf[t]) \cap (tree.files \cup added))
    /\ pc[t] = "load" => todo[t] \subseteq Covered(pathOf[t])
    /\ pc[t] \in {"load", "unlock", "remove", "done"} =>
         \A c \in Covered(pathOf[t]) \cap tree.files :
           <<"files", c>> \in got[t] \/ \E d \in todo[t] : c \in Covered(d)
    /\ pc[t] \in {"unlock", "remove", "done"} => todo[t] = {}

BInv == KInv /\ FilesList /\ Walks /\ Loads

\* Where no two paths overlap and nothing is killed, a task meets its own
\* file, as it wrote it, and the user's.
Apart == crashes = 0 /\ \A s, t \in Task : Nested(s, t) => s = t
Undisturbed ==
  Apart => \A t \in Task :
    /\ pc[t] \in {"lock", "load"} /\ t \notin made => pathOf[t] \in tree.yaml
    /\ pc[t] = "fill" => kfile[pathOf[t]] # NoFile
    /\ pc[t] \in {"lock", "load"} /\ t \in made => kfile[pathOf[t]] = found[t]
    /\ pathOf[t] \notin tree.other => \A d \in Dir : <<"dir", d>> \in found[t] => d \in Users
    /\ pc[t] = "load" => todo[t] \subseteq {pathOf[t]} \cup Users

DInv == BInv /\ Undisturbed

-----------------------------------------------------------------------------
(***************************************************************************)
(* The directories are a tree, and what a build is made of.                *)
(***************************************************************************)
LEMMA AboveFacts ==
  ASSUME NEW d \in Dir
  PROVE  /\ d \in Above[d] /\ Above[d] \subseteq Dir
         /\ \A x \in Above[d] : Parent[x] # NoDir => Parent[x] \in Above[d]
<1> USE KustomizeAssumption
<1>1. Above[d] = {c \in Dir : \A A \in SUBSET Dir :
        d \in A /\ (\A x \in A : Parent[x] # NoDir => Parent[x] \in A) => c \in A}
  BY DEF Above
<1>2. ASSUME NEW x \in Above[d], Parent[x] # NoDir PROVE Parent[x] \in Above[d]
  BY <1>1, <1>2
<1> QED BY <1>1, <1>2

LEMMA AboveLeast ==
  ASSUME NEW d \in Dir, NEW A \in SUBSET Dir, d \in A,
         \A x \in A : Parent[x] # NoDir => Parent[x] \in A
  PROVE  Above[d] \subseteq A
BY DEF Above

LEMMA AboveTransitive ==
  ASSUME NEW d \in Dir, NEW c \in Above[d] PROVE Above[c] \subseteq Above[d]
<1>1. c \in Dir /\ Above[d] \in SUBSET Dir
  BY AboveFacts
<1> QED BY <1>1, AboveFacts, AboveLeast

LEMMA AboveChild ==
  ASSUME NEW d \in Dir, NEW c \in Children(d) PROVE Above[c] = {c} \cup Above[d]
<1>1. c \in Dir /\ Parent[c] = d /\ d # NoDir
  BY KustomizeAssumption DEF Children
<1>2. Above[c] \subseteq {c} \cup Above[d]
  <2>1. {c} \cup Above[d] \in SUBSET Dir
    BY <1>1, AboveFacts
  <2>2. \A x \in {c} \cup Above[d] : Parent[x] # NoDir => Parent[x] \in {c} \cup Above[d]
    BY <1>1, AboveFacts
  <2> QED BY <1>1, <2>1, <2>2, AboveLeast
<1>3. c \in Above[c] /\ d \in Above[c]
  BY <1>1, AboveFacts
<1>4. Above[d] \subseteq Above[c]
  BY <1>1, <1>3, AboveTransitive
<1> QED BY <1>2, <1>3, <1>4

\* Below d, the directories above one are on one path.
LEMMA AboveChain ==
  ASSUME NEW e \in Dir, NEW d \in Above[e], NEW x \in Above[e]
  PROVE  x \in Above[d] \/ d \in Above[x]
<1> USE KustomizeAssumption
<1> DEFINE A == Above[d] \cup {y \in Above[e] : d \in Above[y]}
<1>1. d \in Dir /\ Above[e] \subseteq Dir /\ Above[d] \subseteq Above[e]
  BY AboveFacts, AboveTransitive
<1>2. A \in SUBSET Dir /\ e \in A
  BY <1>1, AboveFacts
<1>3. ASSUME NEW y \in A, Parent[y] # NoDir PROVE Parent[y] \in A
  <2>1. y \in Dir /\ Parent[y] \in Dir
    BY <1>1, <1>3
  <2>2. CASE y \in Above[d]
    BY <1>1, <1>3, <2>2, AboveFacts
  <2>3. CASE y \in Above[e] /\ d \in Above[y]
    <3>1. Parent[y] \in Above[e]
      BY <1>3, <2>3, AboveFacts
    <3>2. y \in Children(Parent[y])
      BY <2>1 DEF Children
    <3>3. d = y \/ d \in Above[Parent[y]]
      BY <2>1, <2>3, <3>2, AboveChild
    <3>4. d \in Above[d]
      BY <1>1, AboveFacts
    <3> QED BY <2>2, <3>1, <3>3, <3>4
  <2> QED BY <2>2, <2>3
<1>4. Above[e] \subseteq A
  <2> HIDE DEF A
  <2> QED BY <1>2, <1>3, AboveLeast
<1> QED BY <1>4

LEMMA Antisymmetric ==
  ASSUME NEW c \in Dir, NEW d \in Above[c], c \in Above[d] PROVE c = d
<1> SUFFICES ASSUME c # d PROVE FALSE
  OBVIOUS
<1>1. d \in Dir /\ c \in Above[c]
  BY AboveFacts
<1>2. CASE Parent[c] = NoDir
  <2>1. {c} \in SUBSET Dir /\ \A x \in {c} : Parent[x] # NoDir => Parent[x] \in {c}
    BY <1>2
  <2>2. c \in {c}
    OBVIOUS
  <2>3. Above[c] \subseteq {c}
    BY <2>1, <2>2, AboveLeast
  <2> QED BY <2>3
<1>3. CASE Parent[c] # NoDir
  <2>1. Parent[c] \in Dir /\ c \in Children(Parent[c])
    BY <1>3, KustomizeAssumption DEF Children
  <2>2. d \in Above[Parent[c]]
    BY <2>1, AboveChild
  <2>3. c \in Above[Parent[c]]
    BY <2>1, <2>2, AboveTransitive
  <2> QED BY <1>3, <2>3, KustomizeAssumption
<1> QED BY <1>2, <1>3

LEMMA ChildToward ==
  ASSUME NEW c \in Dir, NEW d \in Above[c], d # c
  PROVE  \E e \in Children(d) : e \in Above[c]
<1> SUFFICES ASSUME \A e \in Children(d) : e \notin Above[c] PROVE FALSE
  OBVIOUS
<1> DEFINE A == Above[c] \ {d}
<1>1. A \in SUBSET Dir /\ c \in A
  BY AboveFacts
<1>2. ASSUME NEW x \in A, Parent[x] # NoDir PROVE Parent[x] \in A
  BY <1>1, <1>2, AboveFacts DEF Children
<1>3. Above[c] \subseteq A
  BY <1>1, <1>2, AboveLeast
<1> QED BY <1>3

LEMMA CoveredIs ==
  ASSUME NEW b \in Dir, NEW d
  PROVE  d \in Covered(b) <=>
           /\ d \in Dir /\ b \in Above[d]
           /\ \A c \in Above[d] : b \in Above[c] /\ c # b /\ Parent[c] \in Users => c \in Users
<1>1. d \in Dir => Above[d] \subseteq Dir
  BY AboveFacts
<1> QED BY <1>1 DEF Covered, Users

LEMMA CoveredSelf ==
  ASSUME NEW d \in Dir PROVE d \in Covered(d)
BY AboveFacts, CoveredIs, Antisymmetric

LEMMA CoveredTransitive ==
  ASSUME NEW b \in Dir, NEW d \in Covered(b) PROVE Covered(d) \subseteq Covered(b)
<1> SUFFICES ASSUME NEW e \in Covered(d) PROVE e \in Covered(b)
  OBVIOUS
<1>1. d \in Dir /\ b \in Above[d]
  BY CoveredIs
<1>2. e \in Dir /\ d \in Above[e]
  BY <1>1, CoveredIs
<1>3. b \in Above[e]
  BY <1>1, <1>2, AboveTransitive
<1>4. ASSUME NEW c \in Above[e], b \in Above[c], c # b, Parent[c] \in Users PROVE c \in Users
  <2>1. CASE c \in Above[d]
    BY <1>4, <2>1, CoveredIs
  <2>2. CASE c \notin Above[d]
    <3>1. d \in Above[c]
      BY <1>2, <2>2, AboveChain
    <3>2. c # d
      BY <1>1, <2>2, AboveFacts
    <3> QED BY <1>1, <1>4, <3>1, <3>2, CoveredIs
  <2> QED BY <2>1, <2>2
<1> QED BY <1>2, <1>3, <1>4, CoveredIs

\* Below a directory, something is made of a directory in it; and below a
\* kustomization of the user's, of one with a kustomization.
LEMMA CoveredBelow ==
  ASSUME NEW d \in Dir, NEW c \in Covered(d), c # d
  PROVE  \E e \in Children(d) : c \in Covered(e) /\ (d \in Users => e \in Users)
<1>1. c \in Dir /\ d \in Above[c]
  BY CoveredIs
<1>2. PICK e \in Children(d) : e \in Above[c]
  BY <1>1, ChildToward
<1>3. e \in Dir /\ Parent[e] = d /\ e \in Above[e] /\ d \in Above[e] /\ d \in Above[d]
  BY <1>2, AboveFacts, AboveChild DEF Children
<1>4. d # e
  BY <1>3, KustomizeAssumption
<1>5. d \in Users => e \in Users
  BY <1>1, <1>2, <1>3, <1>4, CoveredIs
<1>6. ASSUME NEW x \in Above[c], e \in Above[x], x # e, Parent[x] \in Users PROVE x \in Users
  <2>1. x \in Dir
    BY <1>1, AboveFacts
  <2>2. d \in Above[x]
    BY <1>3, <1>6, <2>1, AboveTransitive
  <2>3. x # d
    BY <1>3, <1>4, <1>6, Antisymmetric
  <2> QED BY <1>6, <2>2, <2>3, CoveredIs
<1>7. c \in Covered(e)
  BY <1>1, <1>2, <1>3, <1>6, CoveredIs
<1> QED BY <1>5, <1>7

LEMMA CoveredChild ==
  ASSUME NEW b \in Dir, NEW d \in Covered(b), NEW e \in Children(d), d \in Users => e \in Users
  PROVE  e \in Covered(b)
<1>1. d \in Dir /\ b \in Above[d]
  BY CoveredIs
<1>2. e \in Dir /\ Parent[e] = d /\ Above[e] = {e} \cup Above[d]
  BY <1>1, AboveChild DEF Children
<1>3. ASSUME NEW c \in Above[e], b \in Above[c], c # b, Parent[c] \in Users PROVE c \in Users
  BY <1>2, <1>3, CoveredIs
<1> QED BY <1>1, <1>2, <1>3, CoveredIs

-----------------------------------------------------------------------------
(***************************************************************************)
(* Types.                                                                  *)
(***************************************************************************)
LEMMA Lists ==
  ASSUME TypeOK, NEW d \in Dir
  PROVE  UserLists(d) \subseteq Entry /\ Manifests(d) \subseteq Entry /\ Children(d) \subseteq Dir
BY DEF UserLists, Manifests, Children, Entry

\* Every step keeps the types of the state.
LEMMA TypeStep == TypeOK /\ [Next]_vars => TypeOK'
<1> SUFFICES ASSUME TypeOK, [Next]_vars PROVE TypeOK'
  OBVIOUS
<1> USE KustomizeAssumption DEF user, Goto, From, Base
<1>1. ASSUME NEW t \in Task, Step(t) PROVE TypeOK'
  <2>0. pathOf[t] \in Dir
    BY DEF TypeOK
  <2>1. CASE Stat(t)
    BY <2>0, <2>1 DEF TypeOK, Stat
  <2>2. CASE Walk(t)
    <3>1. CASE UNCHANGED <<todo, found>>
      BY <2>2, <3>1 DEF TypeOK, Walk
    <3>2. ASSUME NEW d \in todo[t],
                 found' = [found EXCEPT ![t] = @ \cup Visit(t, d).entries],
                 todo' = [todo EXCEPT ![t] = (@ \ {d}) \cup Visit(t, d).below],
                 UNCHANGED pc
          PROVE  TypeOK'
      <4>1. d \in Dir
        BY DEF TypeOK
      <4>2. Visit(t, d).entries \subseteq Entry /\ Visit(t, d).below \subseteq Dir
        BY <4>1, Lists DEF Visit, Entry
      <4>3. found' \in [Task -> SUBSET Entry] /\ todo' \in [Task -> SUBSET Dir]
        BY <3>2, <4>2 DEF TypeOK
      <4> QED BY <2>2, <3>2, <4>3 DEF TypeOK, Walk
    <3> QED BY <2>2, <3>1, <3>2 DEF Walk
  <2>3. CASE Create(t)
    <3>1. kfile' \in [Dir -> {NoFile} \cup SUBSET Entry]
      BY <2>0, <2>3 DEF TypeOK, Create
    <3>2. pc' \in [Task -> {"stat", "walk", "create", "fill", "lock", "load", "unlock", "failUnlock",
                            "remove", "failRemove", "done", "failed"}]
      BY <2>3 DEF TypeOK, Create
    <3> QED BY <2>3, <3>1, <3>2 DEF TypeOK, Create
  <2>4. CASE Fill(t)
    <3>1. found[t] \subseteq Entry
      BY DEF TypeOK
    <3>2. kfile' \in [Dir -> {NoFile} \cup SUBSET Entry]
      BY <2>4, <3>1 DEF TypeOK, Fill
    <3> QED BY <2>4, <3>2 DEF TypeOK, Fill
  <2>5. CASE LockBuild(t)
    BY <2>0, <2>5 DEF TypeOK, LockBuild
  <2>6. CASE Load(t)
    <3>1. CASE UNCHANGED <<todo, got>>
      BY <2>6, <3>1 DEF TypeOK, Load
    <3>2. ASSUME NEW d \in todo[t],
                 got' = [got EXCEPT ![t] = @ \cup (Listed(d) \cap ({"files"} \X Dir))],
                 todo' = [todo EXCEPT ![t] = (@ \ {d}) \cup {c \in Dir : <<"dir", c>> \in Listed(d)}],
                 UNCHANGED pc
          PROVE  TypeOK'
      <4>1. {"files"} \X Dir \subseteq Entry
        BY DEF Entry
      <4>2. got' \in [Task -> SUBSET Entry] /\ todo' \in [Task -> SUBSET Dir]
        BY <3>2, <4>1 DEF TypeOK
      <4> QED BY <2>6, <3>2, <4>2 DEF TypeOK, Load
    <3> QED BY <2>6, <3>1, <3>2 DEF Load
  <2>7. CASE UnlockBuild(t)
    BY <2>7 DEF TypeOK, UnlockBuild
  <2>8. CASE RemoveFile(t)
    <3>1. kfile' \in [Dir -> {NoFile} \cup SUBSET Entry]
      BY <2>0, <2>8 DEF TypeOK, RemoveFile
    <3>2. pc' \in [Task -> {"stat", "walk", "create", "fill", "lock", "load", "unlock", "failUnlock",
                            "remove", "failRemove", "done", "failed"}]
      BY <2>8 DEF TypeOK, RemoveFile
    <3> QED BY <2>8, <3>1, <3>2 DEF TypeOK, RemoveFile
  <2> QED BY <1>1, <2>1, <2>2, <2>3, <2>4, <2>5, <2>6, <2>7, <2>8 DEF Step
<1>2. CASE Crash
  <2>1. added' \subseteq Dir /\ crashes' \in 0..MaxCrashes
    BY <1>2 DEF TypeOK, Crash
  <2>2. kfile' \in [Dir -> {NoFile} \cup SUBSET Entry]
    BY <1>2 DEF TypeOK, Crash
  <2> QED BY <1>2, <2>1, <2>2 DEF TypeOK, Crash
<1>3. CASE UNCHANGED vars
  BY <1>3 DEF TypeOK, vars
<1> QED BY <1>1, <1>2, <1>3 DEF Next, Finished

-----------------------------------------------------------------------------
(***************************************************************************)
(* The invariant.                                                          *)
(***************************************************************************)
\* What the user's kustomizations list does not change: manifests are added
\* only to directories that have no kustomization.
LEMMA SameLists ==
  ASSUME UNCHANGED tree,
         added' = added \/ \E c \in Dir \ tree.yaml : added' = added \cup {c},
         NEW d \in tree.yaml
  PROVE  UserLists(d)' = UserLists(d)
<1>1. {d} \cap (tree.files \cup added') = {d} \cap (tree.files \cup added)
  OBVIOUS
<1> QED BY <1>1 DEF UserLists, Manifests, Children

LEMMA Initially == Init => KInv
<1> SUFFICES ASSUME Init PROVE KInv
  OBVIOUS
<1> USE KustomizeAssumption DEF Init
<1>1. TypeOK /\ tree \in Trees
  <2>1. \A d \in Dir : UserLists(d) \subseteq Entry
    BY DEF UserLists, Manifests, Children, Entry
  <2>2. kfile \in [Dir -> {NoFile} \cup SUBSET Entry]
    BY <2>1
  <2>3. pathOf \in Paths /\ tree \in Trees
    OBVIOUS
  <2>4. tree \in [yaml : SUBSET Dir, other : SUBSET Dir, files : SUBSET Dir]
    BY <2>3
  <2> QED BY <2>2, <2>3, <2>4 DEF TypeOK
<1>2. HoldsMutex /\ Deferred
  BY DEF HoldsMutex, Deferred
<1>3. tree.yaml \subseteq Dir
  BY <1>1
<1>4. UserFilesKept
  BY <1>3 DEF UserFilesKept
<1>5. HasRemover
  BY DEF HasRemover
<1> QED BY <1>1, <1>2, <1>4, <1>5 DEF KInv

\* A step of a task that writes no file.
LEMMA QuietStep ==
  ASSUME KInv, TypeOK', NEW t \in Task,
         Stat(t) \/ Walk(t) \/ LockBuild(t) \/ Load(t) \/ UnlockBuild(t)
  PROVE  KInv'
<1> USE KustomizeAssumption DEF KInv, TypeOK, user, From, Goto, Base
<1>1. UNCHANGED <<pathOf, tree, added, crashes, kfile>>
  BY DEF Stat, Walk, LockBuild, Load, UnlockBuild
<1>2. HoldsMutex'
  BY DEF HoldsMutex, Stat, Walk, LockBuild, Load, UnlockBuild
<1>3. ASSUME NEW d \in tree.yaml PROVE kfile[d] # NoFile
  BY <1>3, Lists DEF UserFilesKept
<1>4. Deferred'
  <2>1. CASE Stat(t)
    BY <1>1, <1>3, <2>1 DEF Deferred, Stat
  <2>2. CASE Walk(t) \/ LockBuild(t) \/ Load(t) \/ UnlockBuild(t)
    BY <1>1, <2>2 DEF Deferred, Walk, LockBuild, Load, UnlockBuild
  <2> QED BY <2>1, <2>2
<1>5. UserFilesKept'
  BY <1>1, SameLists DEF UserFilesKept
<1>6. HasRemover'
  <2> SUFFICES ASSUME crashes = 0, NEW d \in Dir \ tree.yaml, kfile[d] # NoFile
               PROVE  \E u \in made' : pathOf[u] = d /\ pc'[u] \notin {"done", "failed"}
    BY <1>1 DEF HasRemover
  <2>1. PICK u \in made : pathOf[u] = d /\ pc[u] \notin {"done", "failed"}
    BY DEF HasRemover
  <2>2. made \subseteq made' /\ u \in Task /\ pc[u] # "stat"
    BY <1>1, <2>1 DEF Deferred, Stat, Walk, LockBuild, Load, UnlockBuild
  <2>3. pc'[u] \notin {"done", "failed"}
    BY <2>1, <2>2 DEF Stat, Walk, LockBuild, Load, UnlockBuild
  <2> QED BY <2>1, <2>2, <2>3
<1> QED BY <1>1, <1>2, <1>4, <1>5, <1>6

\* A step that writes or removes the file of the task's own directory.
LEMMA FileStep ==
  ASSUME KInv, TypeOK', NEW t \in Task, Create(t) \/ Fill(t) \/ RemoveFile(t)
  PROVE  KInv'
<1> USE KustomizeAssumption DEF KInv, TypeOK, user, From, Goto, Base
<1>1. UNCHANGED <<pathOf, tree, added, crashes, made, mutex>> /\ pathOf[t] \in Dir
  BY DEF Create, Fill, RemoveFile
<1>2. HoldsMutex'
  BY DEF HoldsMutex, Create, Fill, RemoveFile
<1>3. Deferred'
  BY <1>1 DEF Deferred, Create, Fill, RemoveFile
<1>4. ASSUME NEW d \in Dir, kfile'[d] # kfile[d] PROVE d = pathOf[t] /\ t \in made
  <2>1. t \in made \/ UNCHANGED kfile \/ (RemoveFile(t) /\ t \notin made)
    BY DEF Create, Fill, Deferred
  <2>2. t \in made
    BY <1>4, <2>1 DEF RemoveFile
  <2>3. d = pathOf[t]
    BY <1>4 DEF Create, Fill, RemoveFile
  <2> QED BY <2>2, <2>3
<1>5. UserFilesKept'
  <2> SUFFICES ASSUME NEW d \in tree.yaml PROVE kfile'[d] = UserLists(d)'
    BY <1>1 DEF UserFilesKept
  <2>1. d \in Dir
    OBVIOUS
  <2>2. kfile'[d] = kfile[d]
    BY <1>4, <2>1 DEF Deferred
  <2>3. UserLists(d)' = UserLists(d)
    BY <1>1, SameLists
  <2> QED BY <2>2, <2>3 DEF UserFilesKept
<1>6. HasRemover'
  <2> SUFFICES ASSUME crashes = 0, NEW d \in Dir \ tree.yaml, kfile'[d] # NoFile
               PROVE  \E u \in made : pathOf[u] = d /\ pc'[u] \notin {"done", "failed"}
    BY <1>1 DEF HasRemover
  <2>1. CASE d = pathOf[t] /\ t \in made
    <3>1. ~RemoveFile(t)
      <4> SUFFICES ASSUME RemoveFile(t) PROVE FALSE
        OBVIOUS
      <4>1. kfile' = [kfile EXCEPT ![pathOf[t]] = NoFile]
        BY <2>1 DEF RemoveFile
      <4>2. kfile'[d] = NoFile \/ kfile'[d] = kfile[d]
        BY <4>1
      <4> QED BY <1>1, <2>1, <4>1, <4>2
    <3>2. pc'[t] \notin {"done", "failed"}
      BY <3>1 DEF Create, Fill
    <3> QED BY <2>1, <3>2
  <2>2. CASE ~(d = pathOf[t] /\ t \in made)
    <3>1. kfile[d] # NoFile
      BY <1>4, <2>2
    <3>2. PICK u \in made : pathOf[u] = d /\ pc[u] \notin {"done", "failed"}
      BY <3>1 DEF HasRemover
    <3>3. u # t /\ u \in Task
      BY <2>2, <3>2
    <3>4. pc'[u] = pc[u]
      BY <3>3 DEF Create, Fill, RemoveFile
    <3> QED BY <3>2, <3>4
  <2> QED BY <2>1, <2>2
<1> QED BY <1>1, <1>2, <1>3, <1>5, <1>6

\* A run that is killed leaves the files as they are.
LEMMA CrashStep ==
  ASSUME KInv, TypeOK', Crash PROVE KInv'
<1> USE KustomizeAssumption DEF KInv
<1>1. /\ UNCHANGED <<pathOf, tree>> /\ made' = {} /\ mutex' = NoTask
      /\ \A t \in Task : pc'[t] = "stat"
      /\ crashes' = crashes + 1 /\ crashes \in Nat
      /\ added' = added \/ \E c \in Dir \ tree.yaml : added' = added \cup {c}
  BY DEF Crash, TypeOK
<1>2. HoldsMutex' /\ Deferred'
  BY <1>1 DEF HoldsMutex, Deferred
<1>3. ASSUME NEW d \in tree.yaml PROVE kfile'[d] = UserLists(d)'
  <2>1. d \in Dir /\ d \notin Temp
    BY DEF TypeOK
  <2>2. kfile'[d] = kfile[d]
    BY <2>1 DEF Crash
  <2>3. UserLists(d)' = UserLists(d)
    BY <1>1, SameLists
  <2> QED BY <2>2, <2>3 DEF UserFilesKept
<1>4. UserFilesKept'
  BY <1>1, <1>3 DEF UserFilesKept
<1>5. HasRemover'
  BY <1>1 DEF HasRemover
<1> QED BY <1>1, <1>2, <1>4, <1>5

LEMMA KInvStep == KInv /\ [Next]_vars => KInv'
<1> SUFFICES ASSUME KInv, [Next]_vars PROVE KInv'
  OBVIOUS
<1>1. TypeOK'
  BY TypeStep DEF KInv
<1>2. CASE UNCHANGED vars
  <2>1. UNCHANGED <<pathOf, tree, added, crashes, kfile, pc, made, mutex>>
    BY <1>2 DEF vars, user
  <2>2. HoldsMutex' /\ Deferred' /\ HasRemover'
    BY <2>1 DEF KInv, HoldsMutex, Deferred, HasRemover
  <2>3. UserFilesKept'
    BY <2>1, SameLists DEF KInv, UserFilesKept
  <2> QED BY <1>1, <2>1, <2>2, <2>3 DEF KInv
<1>3. CASE Next
  BY <1>1, <1>2, <1>3, QuietStep, FileStep, CrashStep DEF Next, Step, Finished
<1> QED BY <1>2, <1>3

LEMMA KInvAlways == Spec => []KInv
BY Initially, KInvStep, PTL DEF Spec

-----------------------------------------------------------------------------
(***************************************************************************)
(* What is built is complete.                                              *)
(***************************************************************************)
LEMMA SameCovered ==
  ASSUME UNCHANGED <<pathOf, tree>>
  PROVE  /\ \A d \in Dir : Covered(d)' = Covered(d)
         /\ \A t \in Task : Covered(pathOf[t])' = Covered(pathOf[t])
BY DEF Covered

\* A kustomization of the user's is complete for its directory.
LEMMA UserComplete ==
  ASSUME TypeOK, NEW d \in Users PROVE Complete(UserLists(d), d)
<1>1. d \in Dir /\ d \in Covered(d)
  BY CoveredSelf DEF TypeOK, Users
<1>2. ASSUME NEW c, <<"files", c>> \in UserLists(d) PROVE c = d /\ c \in tree.files \cup added
  BY <1>2 DEF UserLists, Manifests
<1>3. ASSUME NEW c PROVE <<"dir", c>> \in UserLists(d) <=> c \in Children(d) \cap Users
  BY DEF UserLists, Manifests, Users
<1>4. ASSUME NEW c \in Children(d) \cap Users PROVE c \in Covered(d)
  BY <1>1, <1>4, CoveredChild
<1>5. Within(UserLists(d), d)
  BY <1>1, <1>2, <1>3, <1>4 DEF Within
<1>6. ASSUME NEW c \in Covered(d) \cap tree.files PROVE Has(UserLists(d), c)
  <2>1. CASE c = d
    BY <1>6, <2>1 DEF Has, UserLists, Manifests
  <2>2. CASE c # d
    <3>1. PICK e \in Children(d) : c \in Covered(e) /\ e \in Users
      BY <1>1, <1>6, <2>2, CoveredBelow
    <3> QED BY <1>3, <3>1 DEF Has, Children
  <2> QED BY <2>1, <2>2
<1> QED BY <1>5, <1>6 DEF Complete

LEMMA InitiallyComplete == Init => BInv
<1> SUFFICES ASSUME Init PROVE BInv
  OBVIOUS
<1>1. KInv /\ TypeOK
  BY Initially DEF KInv
<1>2. FilesList
  <2> SUFFICES ASSUME NEW d \in Dir, kfile[d] # NoFile PROVE Complete(kfile[d], d)
    BY DEF FilesList
  <2>1. d \in Users /\ kfile[d] = UserLists(d)
    BY DEF Init, Users
  <2> QED BY <1>1, <2>1, UserComplete
<1>3. Walks /\ Loads
  BY DEF Init, Walks, Loads, Within
<1> QED BY <1>1, <1>2, <1>3 DEF BInv

LEMMA Frame ==
  ASSUME TypeOK, [Next]_vars
  PROVE  UNCHANGED <<pathOf, tree>> /\ added \subseteq added'
<1>1. CASE \E t \in Task : Step(t)
  BY <1>1 DEF Step, user, Stat, Walk, Create, Fill, LockBuild, Load, UnlockBuild, RemoveFile
<1>2. CASE Crash
  BY <1>2 DEF Crash
<1>3. CASE UNCHANGED vars
  BY <1>3 DEF vars, user
<1> QED BY <1>1, <1>2, <1>3 DEF Next, Finished

\* A file krusty can load after a step is one from before, or the list of a
\* walk that is through.
LEMMA FilesListStep == ASSUME BInv, [Next]_vars PROVE FilesList'
<1> USE DEF BInv, KInv
<1>1. UNCHANGED <<pathOf, tree>> /\ added \subseteq added'
  BY Frame
<1>2. ASSUME NEW d \in Dir, Complete(kfile'[d], d) PROVE Complete(kfile[d], d)'
  <2>1. Covered(d)' = Covered(d) /\ \A e \in Dir : Covered(e)' = Covered(e)
    BY <1>1, SameCovered
  <2>2. Within(kfile[d], d)'
    BY <1>1, <1>2, <2>1 DEF Complete, Within
  <2>3. ASSUME NEW c \in Covered(d) \cap tree.files PROVE Has(kfile[d], c)'
    BY <1>2, <2>1, <2>3 DEF Complete, Has
  <2> QED BY <1>1, <2>1, <2>2, <2>3 DEF Complete
<1>3. ASSUME NEW d \in Dir \ tree.other, kfile'[d] \notin {NoFile, {}}
      PROVE  Complete(kfile'[d], d)
  <2>1. CASE kfile'[d] = kfile[d]
    BY <1>3, <2>1 DEF FilesList
  <2>2. CASE kfile'[d] # kfile[d]
    <3>1. PICK t \in Task : Fill(t)
      <4>1. CASE \E t \in Task : Step(t)
        <5>1. PICK t \in Task : Step(t)
          BY <4>1
        <5>2. pathOf[t] \in Dir
          BY KustomizeAssumption DEF TypeOK
        <5>3. Fill(t)
          BY <1>3, <2>2, <5>1, <5>2 DEF TypeOK, Base, Step, Stat, Walk, Create, LockBuild, Load, UnlockBuild, RemoveFile
        <5> QED BY <5>3
      <4>2. CASE Crash \/ UNCHANGED vars
        BY <1>3, <2>2, <4>2 DEF Crash, vars
      <4> QED BY <4>1, <4>2 DEF Next, Finished
    <3>2. d = pathOf[t] /\ kfile'[d] = found[t]
      BY <1>3, <2>2, <3>1 DEF Fill, Base, TypeOK
    <3>3. pc[t] = "fill" /\ t \in made
      BY <3>1 DEF Fill, From, Deferred
    <3> QED BY <1>3, <3>2, <3>3 DEF Walks, Complete
  <2> QED BY <2>1, <2>2
<1> QED BY <1>1, <1>2, <1>3 DEF FilesList

\* One directory walked: what it gives and what is yet to walk in its place
\* have all that a build has of it, and no more.
LEMMA VisitComplete ==
  ASSUME TypeOK, UserFilesKept, NEW t \in Task, pathOf[t] \in Dir, pathOf[t] \notin tree.yaml, NEW d \in Dir
  PROVE  /\ \A c \in Covered(d) \cap tree.files :
              Has(Visit(t, d).entries, c) \/ \E e \in Visit(t, d).below : c \in Covered(e)
         /\ d \in Covered(pathOf[t]) /\ pathOf[t] \notin tree.other =>
              /\ Within(Visit(t, d).entries, pathOf[t])
              /\ Visit(t, d).below \subseteq Covered(pathOf[t])
         /\ \A e \in Dir : <<"dir", e>> \in Visit(t, d).entries =>
              e = d /\ d # pathOf[t] /\ HasKustomization(d)
<1> USE DEF Base
<1>1. CASE d # pathOf[t] /\ HasKustomization(d)
  <2>1. Visit(t, d).entries = {<<"dir", d>>} /\ Visit(t, d).below = {}
    BY <1>1 DEF Visit
  <2> QED BY <1>1, <2>1 DEF Within, Has
<1>2. CASE ~(d # pathOf[t] /\ HasKustomization(d))
  <2>1. Visit(t, d).entries = Manifests(d) /\ Visit(t, d).below = Children(d)
    BY <1>2 DEF Visit
  <2>2. ASSUME NEW c \in Covered(d) \cap tree.files
        PROVE  Has(Manifests(d), c) \/ \E e \in Children(d) : c \in Covered(e)
    <3>1. CASE c = d
      BY <2>2, <3>1 DEF Has, Manifests
    <3>2. CASE c # d
      BY <2>2, <3>2, CoveredBelow
    <3> QED BY <3>1, <3>2
  <2>3. pathOf[t] \notin tree.other => d \notin Users
    <3>1. CASE d \in tree.yaml
      BY <1>2, <3>1, Lists, KustomizeAssumption DEF UserFilesKept, HasKustomization
    <3> QED BY <1>2, <3>1 DEF HasKustomization, Users
  <2>4. d \in Covered(pathOf[t]) /\ pathOf[t] \notin tree.other =>
          /\ Within(Manifests(d), pathOf[t])
          /\ Children(d) \subseteq Covered(pathOf[t])
    BY <2>3, CoveredChild DEF Within, Manifests
  <2> QED BY <2>1, <2>2, <2>4 DEF Manifests
<1> QED BY <1>1, <1>2

LEMMA WalksStep == ASSUME BInv, TypeOK', [Next]_vars PROVE Walks'
<1> USE DEF BInv, KInv
<1>1. UNCHANGED <<pathOf, tree>> /\ added \subseteq added'
  BY Frame
<1>2. /\ \A d \in Dir : Covered(d)' = Covered(d)
      /\ \A t \in Task : Covered(pathOf[t])' = Covered(pathOf[t])
  BY <1>1, SameCovered
<1>3. \A t \in Task : pathOf[t] \in Dir
  BY KustomizeAssumption DEF TypeOK
<1> DEFINE W(t) ==
      /\ pathOf[t] \notin tree.other => Within(found[t], pathOf[t])'
      /\ pathOf[t] \notin tree.other /\ pc'[t] = "walk" => todo'[t] \subseteq Covered(pathOf[t])
      /\ pc'[t] = "walk" => \A c \in Covered(pathOf[t]) \cap tree.files :
           Has(found[t], c)' \/ \E d \in todo'[t] : c \in Covered(d)
      /\ pc'[t] \in {"create", "fill", "lock", "load"} /\ t \in made' =>
           \A c \in Covered(pathOf[t]) \cap tree.files : Has(found[t], c)'
<1>4. ASSUME NEW t \in Task, Within(found'[t], pathOf[t]) PROVE Within(found[t], pathOf[t])'
  BY <1>1, <1>2, <1>4 DEF Within
<1>5. ASSUME NEW t \in Task, NEW c, Has(found'[t], c) PROVE Has(found[t], c)'
  BY <1>2, <1>5 DEF Has
<1>6. ASSUME NEW t \in Task, found'[t] = found[t],
             pc'[t] = "walk" => todo'[t] = todo[t] /\ pc[t] = "walk",
             pc'[t] \in {"create", "fill", "lock", "load"} /\ t \in made' =>
               \/ pc[t] \in {"create", "fill", "lock", "load"} /\ t \in made
               \/ pc[t] = "walk" /\ todo[t] = {}
      PROVE  W(t)
  BY <1>4, <1>5, <1>6 DEF Walks
<1>7. ASSUME NEW t \in Task, Step(t) PROVE \A u \in Task : W(u)
  <2> SUFFICES ASSUME NEW u \in Task PROVE W(u)
    OBVIOUS
  <2>1. CASE u # t
    <3>1. found'[u] = found[u] /\ pc'[u] = pc[u] /\ todo'[u] = todo[u] /\ (u \in made' <=> u \in made)
      BY <1>7, <2>1 DEF Step, TypeOK, From, Goto, Stat, Walk, Create, Fill, LockBuild, Load, UnlockBuild, RemoveFile
    <3> QED BY <1>6, <3>1
  <2>2. CASE u = t /\ Stat(t)
    <3>1. found'[t] = found[t] /\ (pc'[t] = "walk" => todo'[t] = {pathOf[t]})
          /\ pc'[t] \in {"lock", "walk", "failed"} /\ (pc'[t] = "lock" => t \notin made')
      BY <2>2 DEF Stat, TypeOK, From, Goto, Base, Deferred
    <3>2. pathOf[t] \in Covered(pathOf[t])
      BY <1>3, CoveredSelf
    <3> QED BY <1>4, <2>2, <3>1, <3>2 DEF Walks
  <2>3. CASE u = t /\ Walk(t)
    <3>1. CASE UNCHANGED <<todo, found>>
      BY <1>6, <2>3, <3>1 DEF Walk, TypeOK, From, Goto
    <3>2. ASSUME NEW d \in todo[t],
                 found' = [found EXCEPT ![t] = @ \cup Visit(t, d).entries],
                 todo' = [todo EXCEPT ![t] = (@ \ {d}) \cup Visit(t, d).below],
                 UNCHANGED pc
          PROVE  W(t)
      <4>1. /\ found'[t] = found[t] \cup Visit(t, d).entries
            /\ todo'[t] = (todo[t] \ {d}) \cup Visit(t, d).below
            /\ pc[t] = "walk" /\ pc'[t] = "walk" /\ t \in made /\ d \in Dir
        BY <2>3, <3>2 DEF TypeOK, Walk, From, Deferred
      <4>2. pathOf[t] \in Dir /\ pathOf[t] \notin tree.yaml
        BY <1>3, <4>1 DEF Deferred
      <4>3. pathOf[t] \notin tree.other =>
              /\ Within(found'[t], pathOf[t])
              /\ todo'[t] \subseteq Covered(pathOf[t])
        <5>1. pathOf[t] \notin tree.other =>
                /\ Within(found[t], pathOf[t]) /\ todo[t] \subseteq Covered(pathOf[t])
          BY <4>1 DEF Walks
        <5>2. pathOf[t] \notin tree.other =>
                /\ Within(Visit(t, d).entries, pathOf[t]) /\ Visit(t, d).below \subseteq Covered(pathOf[t])
          BY <3>2, <4>1, <4>2, <5>1, VisitComplete
        <5> QED BY <4>1, <5>1, <5>2 DEF Within
      <4>4. ASSUME NEW c \in Covered(pathOf[t]) \cap tree.files
            PROVE  Has(found'[t], c) \/ \E e \in todo'[t] : c \in Covered(e)
        <5>1. Has(found[t], c) \/ \E e \in todo[t] : c \in Covered(e)
          BY <4>1, <4>4 DEF Walks
        <5>2. c \in Covered(d) =>
                Has(Visit(t, d).entries, c) \/ \E e \in Visit(t, d).below : c \in Covered(e)
          BY <4>1, <4>2, <4>4, VisitComplete
        <5> QED BY <4>1, <5>1, <5>2 DEF Has
      <4> QED BY <1>4, <1>5, <4>1, <4>3, <4>4
    <3> QED BY <2>3, <3>1, <3>2 DEF Walk
  <2>4. CASE u = t /\ (Create(t) \/ Fill(t) \/ LockBuild(t) \/ Load(t) \/ UnlockBuild(t) \/ RemoveFile(t))
    <3>1. /\ found'[t] = found[t] /\ pc'[t] # "walk" /\ made' = made
          /\ pc'[t] \in {"create", "fill", "lock", "load"} => pc[t] \in {"create", "fill", "lock", "load"}
      BY <2>4 DEF TypeOK, From, Goto, Create, Fill, LockBuild, Load, UnlockBuild, RemoveFile
    <3> QED BY <1>6, <2>4, <3>1
  <2> QED BY <1>7, <2>1, <2>2, <2>3, <2>4 DEF Step
<1>8. ASSUME \A t \in Task : W(t) PROVE Walks'
  <2> SUFFICES ASSUME NEW t \in Task
      PROVE /\ pathOf'[t] \notin tree'.other => Within(found[t], pathOf[t])'
            /\ pathOf'[t] \notin tree'.other /\ pc'[t] = "walk" => todo'[t] \subseteq Covered(pathOf[t])'
            /\ pc'[t] = "walk" => \A c \in Covered(pathOf[t])' \cap tree'.files :
                 Has(found[t], c)' \/ \E d \in todo'[t] : c \in Covered(d)'
            /\ pc'[t] \in {"create", "fill", "lock", "load"} /\ t \in made' =>
                 \A c \in Covered(pathOf[t])' \cap tree'.files : Has(found[t], c)'
    BY DEF Walks
  <2>1. W(t) /\ Covered(pathOf[t])' = Covered(pathOf[t]) /\ pathOf'[t] = pathOf[t] /\ tree' = tree
    BY <1>1, <1>2, <1>8
  <2>2. \A d \in todo'[t] : Covered(d)' = Covered(d)
    BY <1>2 DEF TypeOK
  <2> QED BY <2>1, <2>2
<1>9. CASE Crash
  <2>1. \A t \in Task : found'[t] = {} /\ pc'[t] = "stat"
    BY <1>9 DEF Crash
  <2>2. \A t \in Task : Within(found'[t], pathOf[t])
    BY <2>1 DEF Within
  <2>3. \A t \in Task : W(t)
    BY <1>4, <2>1, <2>2
  <2> QED BY <1>8, <2>3
<1>10. CASE UNCHANGED vars
  <2>1. \A t \in Task : W(t)
    BY <1>6, <1>10 DEF vars
  <2> QED BY <1>8, <2>1
<1>11. CASE \E t \in Task : Step(t)
  BY <1>7, <1>8, <1>11
<1> QED BY <1>9, <1>10, <1>11 DEF Next, Finished

\* What krusty loads in a directory is complete for it.
LEMMA LoadComplete ==
  ASSUME BInv, NEW d \in Dir, Loadable(d)
  PROVE  Complete(Listed(d), d)
<1>1. CASE kfile[d] # NoFile
  BY <1>1 DEF Loadable, Listed, BInv, FilesList
<1>2. CASE kfile[d] = NoFile
  BY <1>2, UserComplete DEF Loadable, Listed, Users, BInv, KInv
<1> QED BY <1>1, <1>2

LEMMA LoadsStep == ASSUME BInv, TypeOK', [Next]_vars PROVE Loads'
<1> USE DEF BInv, KInv
<1>1. UNCHANGED <<pathOf, tree>> /\ added \subseteq added'
  BY Frame
<1>2. /\ \A d \in Dir : Covered(d)' = Covered(d)
      /\ \A t \in Task : Covered(pathOf[t])' = Covered(pathOf[t])
  BY <1>1, SameCovered
<1>3. \A t \in Task : pathOf[t] \in Dir
  BY KustomizeAssumption DEF TypeOK
<1> DEFINE L(t) ==
      /\ got'[t] \subseteq {"files"} \X (Covered(pathOf[t]) \cap (tree.files \cup added))
      /\ pc'[t] = "load" => todo'[t] \subseteq Covered(pathOf[t])
      /\ pc'[t] \in {"load", "unlock", "remove", "done"} =>
           \A c \in Covered(pathOf[t]) \cap tree.files :
             <<"files", c>> \in got'[t] \/ \E d \in todo'[t] : c \in Covered(d)
      /\ pc'[t] \in {"unlock", "remove", "done"} => todo'[t] = {}
<1>4. ASSUME NEW t \in Task, got'[t] = got[t],
             pc'[t] \in {"load", "unlock", "remove", "done"} =>
               /\ pc[t] \in {"load", "unlock", "remove", "done"} /\ todo'[t] = todo[t]
               /\ pc'[t] = "load" => pc[t] = "load"
               /\ pc'[t] # "load" => pc[t] # "load" \/ todo[t] = {}
      PROVE  L(t)
  BY <1>4 DEF Loads
<1>5. ASSUME NEW t \in Task, Step(t) PROVE \A u \in Task : L(u)
  <2> SUFFICES ASSUME NEW u \in Task PROVE L(u)
    OBVIOUS
  <2>1. CASE u # t
    <3>1. got'[u] = got[u] /\ pc'[u] = pc[u] /\ todo'[u] = todo[u]
      BY <1>5, <2>1 DEF Step, TypeOK, From, Goto, Stat, Walk, Create, Fill, LockBuild, Load, UnlockBuild, RemoveFile
    <3> QED BY <1>4, <3>1
  <2>2. CASE u = t /\ (Stat(t) \/ Walk(t) \/ Create(t) \/ Fill(t))
    <3>1. got'[t] = got[t] /\ pc'[t] \notin {"load", "unlock", "remove", "done"}
      BY <2>2 DEF TypeOK, From, Goto, Stat, Walk, Create, Fill
    <3> QED BY <1>4, <2>2, <3>1
  <2>3. CASE u = t /\ LockBuild(t)
    <3>1. got'[t] = got[t] /\ pc'[t] = "load" /\ todo'[t] = {pathOf[t]}
      BY <2>3 DEF LockBuild, TypeOK, From, Goto, Base
    <3>2. pathOf[t] \in Covered(pathOf[t])
      BY <1>3, CoveredSelf
    <3> QED BY <2>3, <3>1, <3>2 DEF Loads
  <2>4. CASE u = t /\ Load(t)
    <3>1. CASE UNCHANGED <<todo, got>>
      BY <1>4, <2>4, <3>1 DEF Load, TypeOK, From, Goto
    <3>2. ASSUME NEW d \in todo[t], Loadable(d),
                 got' = [got EXCEPT ![t] = @ \cup (Listed(d) \cap ({"files"} \X Dir))],
                 todo' = [todo EXCEPT ![t] = (@ \ {d}) \cup {c \in Dir : <<"dir", c>> \in Listed(d)}],
                 UNCHANGED pc
          PROVE  L(t)
      <4>1. /\ got'[t] = got[t] \cup (Listed(d) \cap ({"files"} \X Dir))
            /\ todo'[t] = (todo[t] \ {d}) \cup {c \in Dir : <<"dir", c>> \in Listed(d)}
            /\ pc[t] = "load" /\ pc'[t] = "load" /\ d \in Dir /\ d \in Covered(pathOf[t])
        BY <2>4, <3>2 DEF TypeOK, Load, From, Loads
      <4>2. Complete(Listed(d), d) /\ Covered(d) \subseteq Covered(pathOf[t])
        BY <1>3, <3>2, <4>1, LoadComplete, CoveredTransitive
      <4>3. got'[t] \subseteq {"files"} \X (Covered(pathOf[t]) \cap (tree.files \cup added))
        <5>1. got[t] \subseteq {"files"} \X (Covered(pathOf[t]) \cap (tree.files \cup added))
          BY DEF Loads
        <5>2. Listed(d) \cap ({"files"} \X Dir) \subseteq
                {"files"} \X (Covered(pathOf[t]) \cap (tree.files \cup added))
          BY <4>2 DEF Complete, Within
        <5> QED BY <4>1, <5>1, <5>2
      <4>4. todo'[t] \subseteq Covered(pathOf[t])
        BY <4>1, <4>2 DEF Loads, Complete, Within
      <4>5. ASSUME NEW c \in Covered(pathOf[t]) \cap tree.files
            PROVE  <<"files", c>> \in got'[t] \/ \E e \in todo'[t] : c \in Covered(e)
        <5>1. <<"files", c>> \in got[t] \/ \E e \in todo[t] : c \in Covered(e)
          BY <4>1, <4>5 DEF Loads
        <5>2. c \in Dir
          BY <4>5 DEF TypeOK
        <5>3. c \in Covered(d) => Has(Listed(d), c)
          BY <4>2, <4>5 DEF Complete
        <5> QED BY <4>1, <5>1, <5>2, <5>3 DEF Has
      <4> QED BY <4>1, <4>3, <4>4, <4>5
    <3> QED BY <2>4, <3>1, <3>2 DEF Load
  <2>5. CASE u = t /\ (UnlockBuild(t) \/ RemoveFile(t))
    <3>1. /\ got'[t] = got[t] /\ todo' = todo /\ pc'[t] # "load"
          /\ pc'[t] \in {"unlock", "remove", "done"} => pc[t] \in {"unlock", "remove", "done"}
      BY <2>5 DEF TypeOK, From, Goto, UnlockBuild, RemoveFile
    <3> QED BY <1>4, <2>5, <3>1
  <2> QED BY <1>5, <2>1, <2>2, <2>3, <2>4, <2>5 DEF Step
<1>6. ASSUME \A t \in Task : L(t) PROVE Loads'
  <2> SUFFICES ASSUME NEW t \in Task
      PROVE /\ got'[t] \subseteq {"files"} \X (Covered(pathOf[t])' \cap (tree'.files \cup added'))
            /\ pc'[t] = "load" => todo'[t] \subseteq Covered(pathOf[t])'
            /\ pc'[t] \in {"load", "unlock", "remove", "done"} =>
                 \A c \in Covered(pathOf[t])' \cap tree'.files :
                   <<"files", c>> \in got'[t] \/ \E d \in todo'[t] : c \in Covered(d)'
            /\ pc'[t] \in {"unlock", "remove", "done"} => todo'[t] = {}
    BY DEF Loads
  <2>1. L(t) /\ Covered(pathOf[t])' = Covered(pathOf[t]) /\ pathOf'[t] = pathOf[t] /\ tree' = tree
    BY <1>1, <1>2, <1>6
  <2>2. \A d \in todo'[t] : Covered(d)' = Covered(d)
    BY <1>2 DEF TypeOK
  <2>3. Covered(pathOf[t]) \cap (tree.files \cup added)
          \subseteq Covered(pathOf[t]) \cap (tree.files \cup added')
    BY <1>1
  <2> QED BY <2>1, <2>2, <2>3
<1>7. CASE Crash
  <2>1. \A t \in Task : got'[t] = {} /\ pc'[t] = "stat"
    BY <1>7 DEF Crash
  <2> QED BY <1>6, <2>1
<1>8. CASE UNCHANGED vars
  <2>1. \A t \in Task : L(t)
    BY <1>4, <1>8 DEF vars
  <2> QED BY <1>6, <2>1
<1>9. CASE \E t \in Task : Step(t)
  BY <1>5, <1>6, <1>9
<1> QED BY <1>7, <1>8, <1>9 DEF Next, Finished

LEMMA BInvAlways == Spec => []BInv
<1>1. BInv /\ [Next]_vars => BInv'
  <2> SUFFICES ASSUME BInv, [Next]_vars PROVE BInv'
    OBVIOUS
  <2>1. KInv' /\ TypeOK'
    BY KInvStep DEF BInv, KInv
  <2> QED BY <2>1, FilesListStep, WalksStep, LoadsStep DEF BInv
<1> QED BY <1>1, InitiallyComplete, PTL DEF Spec

-----------------------------------------------------------------------------
(***************************************************************************)
(* Paths apart do not disturb each other.                                  *)
(***************************************************************************)
\* Of paths that are apart, a task has what is below its own to itself.
LEMMA OwnFile ==
  ASSUME KInv, Apart, NEW t \in Task, NEW d \in Dir, pathOf[t] \in Above[d],
         d \notin tree.yaml, kfile[d] # NoFile
  PROVE  d = pathOf[t] /\ t \in made /\ pc[t] \notin {"done", "failed"}
<1>1. PICK u \in made : pathOf[u] = d /\ pc[u] \notin {"done", "failed"}
  BY DEF KInv, HasRemover, Apart
<1>2. u \in Task /\ Nested(t, u)
  BY <1>1 DEF KInv, TypeOK, Nested, Base
<1>3. u = t
  BY <1>2 DEF Apart
<1> QED BY <1>1, <1>3

LEMMA UndisturbedStep ==
  ASSUME DInv, TypeOK', [Next]_vars PROVE Undisturbed'
<1> USE DEF DInv, BInv, KInv
<1>1. UNCHANGED <<pathOf, tree>>
  BY Frame
<1>2. \A t \in Task : pathOf[t] \in Dir /\ pathOf[t] \in Above[pathOf[t]]
  BY KustomizeAssumption, AboveFacts DEF TypeOK
<1> DEFINE U(t) ==
      /\ pc'[t] \in {"lock", "load"} /\ t \notin made' => pathOf[t] \in tree.yaml
      /\ pc'[t] = "fill" => kfile'[pathOf[t]] # NoFile
      /\ pc'[t] \in {"lock", "load"} /\ t \in made' => kfile'[pathOf[t]] = found'[t]
      /\ pathOf[t] \notin tree.other => \A d \in Dir : <<"dir", d>> \in found'[t] => d \in Users
      /\ pc'[t] = "load" => todo'[t] \subseteq {pathOf[t]} \cup Users
<1>3. ASSUME Apart, NEW t \in Task, Step(t) PROVE \A u \in Task : U(u)
  <2> SUFFICES ASSUME NEW u \in Task PROVE U(u)
    OBVIOUS
  <2>1. CASE u # t
    <3>1. /\ found'[u] = found[u] /\ pc'[u] = pc[u] /\ todo'[u] = todo[u] /\ (u \in made' <=> u \in made)
      BY <1>3, <2>1 DEF Step, TypeOK, From, Goto, Stat, Walk, Create, Fill, LockBuild, Load, UnlockBuild, RemoveFile
    <3>2. pathOf[u] # pathOf[t]
      BY <1>2, <1>3, <2>1 DEF Apart, Nested, Base
    <3>3. kfile'[pathOf[u]] = kfile[pathOf[u]]
      BY <1>2, <1>3, <3>2 DEF Step, TypeOK, Base, Stat, Walk, Create, Fill, LockBuild, Load, UnlockBuild, RemoveFile
    <3> QED BY <1>3, <3>1, <3>3 DEF Undisturbed
  <2>2. CASE u = t /\ Stat(t)
    <3>1. pc[t] = "stat" /\ t \notin made /\ found'[t] = found[t] /\ pc'[t] \in {"lock", "walk", "failed"}
      BY <2>2 DEF Stat, TypeOK, From, Goto, Deferred
    <3>2. pc'[t] = "lock" => t \notin made' /\ kfile[pathOf[t]] # NoFile
      BY <2>2, <3>1 DEF Stat, TypeOK, From, Goto, Base
    <3>3. pc'[t] = "lock" => pathOf[t] \in tree.yaml
      BY <1>2, <1>3, <3>1, <3>2, OwnFile
    <3> QED BY <1>3, <2>2, <3>1, <3>2, <3>3 DEF Undisturbed
  <2>3. CASE u = t /\ Walk(t)
    <3>1. /\ pc[t] = "walk" /\ t \in made /\ pc'[t] \in {"walk", "create", "failRemove"}
      BY <2>3 DEF Walk, TypeOK, From, Goto, Deferred
    <3>2. ASSUME pathOf[t] \notin tree.other, NEW e \in Dir, <<"dir", e>> \in found'[t] PROVE e \in Users
      <4>1. CASE found' = found
        BY <1>3, <3>2, <4>1 DEF Undisturbed
      <4>2. ASSUME NEW d \in todo[t], found' = [found EXCEPT ![t] = @ \cup Visit(t, d).entries]
            PROVE  e \in Users
        <5>1. found'[t] = found[t] \cup Visit(t, d).entries /\ d \in Dir
          BY <4>2 DEF TypeOK
        <5>2. CASE <<"dir", e>> \in found[t]
          BY <1>3, <3>2, <5>2 DEF Undisturbed
        <5>3. CASE <<"dir", e>> \in Visit(t, d).entries
          <6>1. e = d /\ d # pathOf[t] /\ HasKustomization(d)
            BY <1>2, <3>1, <5>1, <5>3, VisitComplete DEF Deferred
          <6>2. pathOf[t] \in Above[d]
            BY <1>2, <3>1, <3>2, CoveredIs DEF Walks
          <6>3. d \in tree.yaml \/ kfile[d] = NoFile
            BY <1>3, <5>1, <6>1, <6>2, OwnFile
          <6> QED BY <6>1, <6>3 DEF HasKustomization, Users
        <5> QED BY <3>2, <5>1, <5>2, <5>3
      <4> QED BY <2>3, <4>1, <4>2 DEF Walk
    <3> QED BY <2>3, <3>1, <3>2
  <2>4. CASE u = t /\ Create(t)
    <3>1. /\ found'[t] = found[t] /\ pc'[t] \in {"fill", "failRemove"}
          /\ pc'[t] = "fill" => kfile'[pathOf[t]] = {}
      BY <1>2, <2>4 DEF Create, TypeOK, From, Goto, Base
    <3>2. {} # NoFile
      BY KustomizeAssumption
    <3> QED BY <1>3, <2>4, <3>1, <3>2 DEF Undisturbed
  <2>5. CASE u = t /\ Fill(t)
    <3>1. /\ pc[t] = "fill" /\ t \in made /\ made' = made /\ found'[t] = found[t] /\ pc'[t] = "lock"
      BY <2>5 DEF Fill, TypeOK, From, Goto, Deferred
    <3>2. kfile'[pathOf[t]] = found[t]
      BY <1>2, <1>3, <2>5, <3>1 DEF Fill, TypeOK, Base, Undisturbed
    <3> QED BY <1>3, <2>5, <3>1, <3>2 DEF Undisturbed
  <2>6. CASE u = t /\ LockBuild(t)
    <3>1. /\ found'[t] = found[t] /\ pc'[t] = "load" /\ todo'[t] = {pathOf[t]} /\ pc[t] = "lock"
          /\ UNCHANGED <<kfile, made>>
      BY <2>6 DEF LockBuild, TypeOK, From, Goto, Base
    <3> QED BY <1>3, <2>6, <3>1 DEF Undisturbed
  <2>7. CASE u = t /\ Load(t)
    <3>1. /\ UNCHANGED <<kfile, made, found>> /\ pc[t] = "load" /\ pc'[t] \in {"load", "unlock", "failUnlock"}
      BY <2>7 DEF Load, TypeOK, From, Goto
    <3>2. ASSUME pc'[t] = "load" PROVE todo'[t] \subseteq {pathOf[t]} \cup Users
      <4>1. PICK d \in todo[t] :
              /\ Loadable(d)
              /\ todo' = [todo EXCEPT ![t] = (@ \ {d}) \cup {c \in Dir : <<"dir", c>> \in Listed(d)}]
        BY <2>7, <3>2 DEF Load, TypeOK, Goto
      <4>2. /\ todo'[t] = (todo[t] \ {d}) \cup {c \in Dir : <<"dir", c>> \in Listed(d)}
            /\ d \in Dir /\ pathOf[t] \in Above[d] /\ todo[t] \subseteq {pathOf[t]} \cup Users
        BY <1>2, <1>3, <3>1, <4>1, CoveredIs DEF TypeOK, Loads, Undisturbed
      <4>3. Listed(d) = UserLists(d) \/ (d \notin tree.other /\ d = pathOf[t] /\ Listed(d) = found[t])
        <5>1. CASE kfile[d] = NoFile
          BY <5>1 DEF Listed
        <5>2. CASE d \in tree.yaml
          BY <5>2 DEF Listed, UserFilesKept
        <5>3. CASE kfile[d] # NoFile /\ d \notin tree.yaml
          <6>1. d = pathOf[t] /\ t \in made
            BY <1>3, <4>2, <5>3, OwnFile
          <6>2. kfile[d] = found[t]
            BY <1>3, <3>1, <6>1 DEF Undisturbed
          <6> QED BY <4>1, <5>3, <6>1, <6>2 DEF Listed, Loadable
        <5> QED BY <5>1, <5>2, <5>3
      <4>4. ASSUME NEW c \in Dir, <<"dir", c>> \in Listed(d) PROVE c \in Users
        <5>1. CASE Listed(d) = UserLists(d)
          BY <4>4, <5>1 DEF UserLists, Manifests, Users
        <5>2. CASE pathOf[t] \notin tree.other /\ Listed(d) = found[t]
          BY <1>3, <4>4, <5>2 DEF Undisturbed
        <5> QED BY <4>3, <5>1, <5>2
      <4> QED BY <4>2, <4>4
    <3> QED BY <1>3, <2>7, <3>1, <3>2 DEF Undisturbed
  <2>8. CASE u = t /\ (UnlockBuild(t) \/ RemoveFile(t))
    <3>1. found'[t] = found[t] /\ pc'[t] \notin {"lock", "load", "fill"}
      BY <2>8 DEF TypeOK, From, Goto, UnlockBuild, RemoveFile
    <3> QED BY <1>3, <2>8, <3>1 DEF Undisturbed
  <2> QED BY <1>3, <2>1, <2>2, <2>3, <2>4, <2>5, <2>6, <2>7, <2>8 DEF Step
<1>4. CASE Crash
  <2>1. crashes' # 0
    BY <1>4, KustomizeAssumption DEF Crash, TypeOK
  <2> QED BY <2>1 DEF Undisturbed, Apart
<1>5. CASE UNCHANGED vars
  BY <1>5 DEF Undisturbed, Apart, Nested, Base, Users, vars, user
<1>6. ASSUME NEW t \in Task, Step(t) PROVE Undisturbed'
  <2>1. Apart' => Apart
    <3>1. crashes' = crashes
      BY <1>6 DEF Step, user, Stat, Walk, Create, Fill, LockBuild, Load, UnlockBuild, RemoveFile
    <3> QED BY <1>1, <3>1 DEF Apart, Nested, Base
  <2>2. Apart => \A u \in Task : U(u)
    BY <1>3, <1>6
  <2> QED BY <1>1, <2>1, <2>2 DEF Undisturbed, Users
<1> QED BY <1>4, <1>5, <1>6 DEF Next, Finished

LEMMA DInvAlways == Spec => []DInv
<1>1. Init => DInv
  BY InitiallyComplete DEF DInv, Undisturbed, Init
<1>2. DInv /\ [Next]_vars => DInv'
  <2> SUFFICES ASSUME DInv, [Next]_vars PROVE DInv'
    OBVIOUS
  <2>1. KInv' /\ TypeOK'
    BY KInvStep DEF DInv, BInv, KInv
  <2> QED BY <2>1, FilesListStep, WalksStep, LoadsStep, UndisturbedStep DEF DInv, BInv
<1> QED BY <1>1, <1>2, PTL DEF Spec

-----------------------------------------------------------------------------
\* Whatever the tasks do, and runs are killed, the state keeps its types.
THEOREM TypeCorrect == Spec => []TypeOK
<1>1. KInv => TypeOK
  BY DEF KInv
<1> QED BY <1>1, KInvAlways, PTL

\* Krusty runs for one task at a time, however many paths are built.
THEOREM KrustyAlone == Spec => []OneBuildAtATime
<1>1. KInv => OneBuildAtATime
  BY DEF KInv, HoldsMutex, OneBuildAtATime, From
<1> QED BY <1>1, KInvAlways, PTL

\* No path, equal to another or inside it, failing or killed, touches a
\* kustomization.yaml that the user has.
THEOREM UserFilesStay == Spec => []UserFilesKept
<1>1. KInv => UserFilesKept
  BY DEF KInv
<1> QED BY <1>1, KInvAlways, PTL

\* And after a run that is not killed no other is left, although tasks of
\* equal paths write and remove the same one.
THEOREM MadeFilesGo == Spec => []TreeRestored
<1>1. KInv => TreeRestored
  BY DEF KInv, TypeOK, HasRemover, TreeRestored, Over
<1> QED BY <1>1, KInvAlways, PTL

\* A build that succeeds has every manifest that was below its path from the
\* start and none of another path, whatever other tasks create and remove
\* there between its walk and its load, and whatever killed runs left.
THEOREM BuildsAreComplete == Spec => []BuildIsComplete
<1>1. BInv => BuildIsComplete
  BY DEF BInv, Loads, BuildIsComplete, From, Base
<1> QED BY <1>1, BInvAlways, PTL

\* Paths of which none is equal to or inside another never fail because of
\* each other: krusty finds each task's file as the task wrote it.
THEOREM PathsApartBuild == Spec => []DisjointPathsBuild
<1>1. DInv => DisjointPathsBuild
  <2> SUFFICES ASSUME DInv, Apart, NEW t \in Task, pc[t] = "load", Buildable(pathOf[t]), NEW d \in todo[t]
               PROVE  Loadable(d)
    BY DEF DisjointPathsBuild, ChainedPathsBuild, Apart, From, Base
  <2> USE DEF DInv, BInv, KInv
  <2>1. pathOf[t] \in Dir /\ d \in Dir /\ d \in Covered(pathOf[t]) /\ pathOf[t] \in Above[d]
    <3>1. pathOf[t] \in Dir
      BY KustomizeAssumption DEF TypeOK
    <3> QED BY <3>1, CoveredIs DEF TypeOK, Loads
  <2>2. \A E \in SUBSET Entry : E # NoFile
    BY KustomizeAssumption
  <2>3. CASE d \in tree.yaml
    <3>1. kfile[d] = UserLists(d) /\ UserLists(d) \subseteq Entry
      BY <2>1, <2>3, Lists DEF UserFilesKept
    <3> QED BY <2>1, <2>2, <2>3, <3>1 DEF Loadable, Listed, Buildable
  <2>4. CASE d \notin tree.yaml /\ kfile[d] = NoFile
    <3>1. d \in tree.other
      <4>1. CASE d = pathOf[t]
        <5>1. t \in made
          BY <2>4, <4>1 DEF Undisturbed
        <5>2. found[t] = NoFile /\ found[t] \in SUBSET Entry
          BY <2>4, <4>1, <5>1 DEF Undisturbed, TypeOK
        <5> QED BY <2>2, <5>2
      <4>2. CASE d # pathOf[t]
        BY <2>4, <4>2 DEF Undisturbed, Users
      <4> QED BY <4>1, <4>2
    <3> QED BY <2>1, <2>4, <3>1 DEF Loadable, Listed, Buildable
  <2>5. CASE d \notin tree.yaml /\ kfile[d] # NoFile
    <3>1. d = pathOf[t] /\ t \in made
      BY <2>1, <2>5, OwnFile
    <3>2. kfile[d] = found[t]
      BY <3>1 DEF Undisturbed
    <3>3. d \notin tree.other /\ Covered(d) \cap tree.files # {}
      BY <2>5, <3>1 DEF Buildable
    <3>4. PICK c \in Covered(d) \cap tree.files : Has(found[t], c)
      BY <3>1, <3>3 DEF Walks
    <3>5. found[t] # {}
      BY <3>4 DEF Has
    <3> QED BY <2>5, <3>2, <3>3, <3>5 DEF Loadable, Listed
  <2> QED BY <2>3, <2>4, <2>5
<1> QED BY <1>1, DInvAlways, PTL
=============================================================================
