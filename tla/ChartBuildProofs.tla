-------------------------- MODULE ChartBuildProofs --------------------------
(***************************************************************************)
(* Proofs about ChartBuild, for any processes, releases, charts, values    *)
(* files and restarts.  The invariant, CInv, says who holds a lock file,   *)
(* which path a release has, what may be at a path, and that what a        *)
(* release has seen of its path is still so while it holds the lock; from  *)
(* it follow the properties of the shared directory, and those of releases *)
(* that agree on the values files of their chart.                          *)
(***************************************************************************)
EXTENDS ChartBuild, TLAPS

\* The steps between the lock of the chart and its release.
Locked == {"stat", "client", "setup", "resolve", "download", "copy", "unlockRepo", "unlockChart",
           "failRepo", "failChart"}

\* The steps of a release that has a chart at its path.
Built == {"unlockRepo", "unlockChart", "compose", "load"}

\* With the fs cache, who is between lock and unlock holds the lock file.
HoldsLock ==
  cache = "fs" => \A r \in Release : pc[r] \in Locked => flock[ChartOf[r]] = r /\ key[r]

\* A path is the release's own or that of its chart; with the fs cache it is
\* that of the chart, from the lock to the rendering.
OwnPaths ==
  /\ \A r \in Release : path[r] \in {Own(r), Shared(r)}
  /\ cache = "fs" =>
       \A r \in Release : pc[r] \in Locked \cup Built => path[r] = <<"fs", ChartOf[r]>>

\* An archive at the path of a release, or of a chart, has been packaged for
\* it, or for a release of that chart.
Contents ==
  /\ \A r \in Release : file[<<"own", r>>] \in {NoFile, Torn, wants[r]}
  /\ \A x \in {"fs"} \cup Proc, c \in Chart :
       file[<<x, c>>] \in {NoFile, Torn}
         \/ \E r \in Release : ChartOf[r] = c /\ file[<<x, c>>] = wants[r]

\* While a release holds the lock file, what it saw at its path is there, and
\* it downloads only what it could not accept.
Seen ==
  cache = "fs" => \A r \in Release :
    /\ pc[r] \in {"client", "setup", "resolve"} => (uncached[r] <=> file[path[r]] = NoFile)
    /\ pc[r] = "download" =>
         ~(Whole(file[path[r]]) /\ VersionMetadata(file[path[r]]) = VersionMetadata(wants[r]))

\* Archives are replaced as a whole, or the releases agree on what they are.
Kept ==
  Agreed \/ ~crossDevice => \A r \in Release : pc[r] \in Built => Whole(file[path[r]])

RenderedAgreed ==
  Agreed => \A r \in Release : pc[r] = "done" => rendered[r] = wants[r]

CInv ==
  /\ TypeOK /\ (crossDevice => cache = "fs")
  /\ HoldsLock /\ OwnPaths /\ Contents /\ Seen /\ Kept /\ RenderedAgreed

-----------------------------------------------------------------------------
(***************************************************************************)
(* Types.                                                                  *)
(***************************************************************************)
\* What a release is given is a path.
LEMMA PathTypes ==
  ASSUME NEW r \in Release, cache \in Caches
  PROVE  /\ Own(r) \in Path /\ Shared(r) \in Path
         /\ MemoOf(r) \in Proc \X Chart /\ RepoKey(r) \in Proc \X Repo
BY ChartBuildAssumption DEF Own, Shared, Path, MemoOf, RepoKey

\* Every step keeps the types of the state.
LEMMA TypeStep == TypeOK /\ [Next]_vars => TypeOK'
<1> SUFFICES ASSUME TypeOK, [Next]_vars PROVE TypeOK'
  OBVIOUS
<1> USE ChartBuildAssumption DEF TypeOK, Entry
<1>1. ASSUME NEW r \in Release, Step(r) PROVE TypeOK'
  <2> USE DEF Private, setup, locks, result, Goto, GivePath
  <2>0. /\ Own(r) \in Path /\ Shared(r) \in Path
        /\ MemoOf(r) \in Proc \X Chart /\ RepoKey(r) \in Proc \X Repo
    BY PathTypes
  <2>w. wants[r] \in Values
    OBVIOUS
  <2>1. CASE LookUpSource(r)
    BY <2>1 DEF LookUpSource
  <2>2. CASE GetNull(r)
    BY <2>2, <2>0 DEF GetNull
  <2>3. CASE GetFS(r)
    BY <2>3, <2>0 DEF GetFS
  <2>4. CASE GetFSFails(r)
    BY <2>4 DEF GetFSFails
  <2>5. CASE GetMemoryMiss(r)
    BY <2>5, <2>0 DEF GetMemoryMiss
  <2>6. CASE GetMemoryHit(r)
    BY <2>6, <2>0 DEF GetMemoryHit
  <2>7. CASE Stat(r)
    <3>1. PICK missing \in BOOLEAN : uncached' = [uncached EXCEPT ![r] = missing]
      <4>1. (file[path[r]] = NoFile) \in BOOLEAN
        OBVIOUS
      <4> QED BY <2>7, <4>1 DEF Stat
    <3>2. uncached' \in [Release -> BOOLEAN]
      BY <3>1
    <3>3. /\ pc' = [pc EXCEPT ![r] = "client"]
          /\ UNCHANGED <<cache, wants, crossDevice, file, flock, memo, repos, path, key, rendered, restarts>>
      BY <2>7 DEF Stat
    <3> QED BY <3>2, <3>3
  <2>8. CASE GetRepo(r)
    BY <2>8, <2>0 DEF GetRepo
  <2>9. CASE SetUpClient(r)
    BY <2>9 DEF SetUpClient
  <2>10. CASE Resolve(r)
    BY <2>10 DEF Resolve
  <2>11. CASE Download(r)
    BY <2>11, <2>w DEF Download, Packaged
  <2>12. CASE Copy(r)
    BY <2>12, <2>w DEF Copy, Packaged
  <2>13. CASE UnlockRepo(r)
    BY <2>13, <2>0 DEF UnlockRepo
  <2>14. CASE UnlockChart(r)
    BY <2>14, <2>0 DEF UnlockChart
  <2>15. CASE Compose(r)
    BY <2>15 DEF Compose
  <2>16. CASE Render(r)
    BY <2>16 DEF Render, Whole
  <2> QED
    BY <1>1, <2>1, <2>2, <2>3, <2>4, <2>5, <2>6, <2>7, <2>8, <2>9, <2>10, <2>11, <2>12, <2>13,
       <2>14, <2>15, <2>16 DEF Step, GetOrLock
<1>2. ASSUME NEW p \in Proc, Restart(p) PROVE TypeOK'
  BY <1>2, PathTypes DEF Restart, setup
<1>3. CASE UNCHANGED vars
  BY <1>3 DEF vars, setup, locks, result
<1> QED BY <1>1, <1>2, <1>3 DEF Next, Finished

-----------------------------------------------------------------------------
(***************************************************************************)
(* The invariant: steps that write no archive and keep the lock.           *)
(***************************************************************************)
\* A release moves on with its path, its lock and what is at the path as they
\* were; it needs a reason to come to some places.
LEMMA MovesOn ==
  ASSUME CInv, TypeOK', NEW r \in Release, NEW there, pc' = [pc EXCEPT ![r] = there],
         UNCHANGED <<setup, file, flock, path, key>>,
         \A s \in Release \ {r} : uncached'[s] = uncached[s] /\ rendered'[s] = rendered[s],
         there \in Locked => pc[r] \in Locked,
         there \in Locked \cup Built => pc[r] \in Locked \cup Built,
         there \in Built => pc[r] \in Built \/ Whole(file[path[r]]),
         cache = "fs" /\ there \in {"client", "setup", "resolve"} =>
           (uncached'[r] <=> file[path[r]] = NoFile),
         cache = "fs" /\ there = "download" =>
           ~(Whole(file[path[r]]) /\ VersionMetadata(file[path[r]]) = VersionMetadata(wants[r])),
         there = "done" => (Agreed => rendered'[r] = wants[r])
  PROVE  CInv'
<1> USE DEF CInv, TypeOK, setup
<1>1. HoldsLock'
  BY DEF HoldsLock
<1>2. OwnPaths'
  BY DEF OwnPaths, Own, Shared
<1>3. Contents'
  BY DEF Contents
<1>4. Seen'
  BY DEF Seen, Whole, VersionMetadata
<1>5. Agreed' <=> Agreed
  BY DEF Agreed
<1>6. Kept'
  BY <1>5 DEF Kept, Whole
<1>7. RenderedAgreed'
  BY <1>5 DEF RenderedAgreed
<1> QED BY <1>1, <1>2, <1>3, <1>4, <1>6, <1>7

\* What is at the path of a release is for it, if the releases of its chart agree.
LEMMA AgreedContent ==
  ASSUME CInv, Agreed, NEW r \in Release
  PROVE  file[path[r]] \in {NoFile, Torn, wants[r]}
<1> USE ChartBuildAssumption DEF CInv
<1>1. CASE path[r] = Own(r)
  BY <1>1 DEF Contents, Own
<1>2. ASSUME NEW x \in {"fs"} \cup Proc, path[r] = <<x, ChartOf[r]>>
      PROVE  file[path[r]] \in {NoFile, Torn, wants[r]}
  <2>1. ChartOf[r] \in Chart
    OBVIOUS
  <2>2. \/ file[<<x, ChartOf[r]>>] \in {NoFile, Torn}
        \/ \E s \in Release : ChartOf[s] = ChartOf[r] /\ file[<<x, ChartOf[r]>>] = wants[s]
    BY <2>1 DEF Contents
  <2> QED BY <1>2, <2>2 DEF Agreed
<1>3. path[r] \in {Own(r), <<"fs", ChartOf[r]>>, <<ProcOf[r], ChartOf[r]>>} /\ ProcOf[r] \in Proc
  BY DEF OwnPaths, Shared
<1> QED BY <1>1, <1>2, <1>3

LEMMA QuietStep ==
  ASSUME CInv, TypeOK', NEW r \in Release,
         \/ LookUpSource(r) \/ GetFSFails(r) \/ Stat(r) \/ GetRepo(r) \/ SetUpClient(r)
         \/ Resolve(r) \/ UnlockRepo(r) \/ Compose(r) \/ Render(r)
  PROVE  CInv'
<1> USE DEF Private, locks, result, Goto, From
<1>0. uncached \in [Release -> BOOLEAN] /\ rendered \in [Release -> Values \cup {NoFile}]
  BY DEF CInv, TypeOK
<1>1. CASE LookUpSource(r) \/ GetFSFails(r)
  <2>1. PICK there \in {"lock", "failed"} : pc' = [pc EXCEPT ![r] = there]
    BY <1>1 DEF LookUpSource, GetFSFails
  <2>2. UNCHANGED <<setup, file, flock, path, key, uncached, rendered>>
    BY <1>1 DEF LookUpSource, GetFSFails
  <2> QED BY <2>1, <2>2, MovesOn DEF Locked, Built
<1>2. CASE Stat(r)
  <2>1. /\ pc[r] = "stat" /\ pc' = [pc EXCEPT ![r] = "client"]
        /\ UNCHANGED <<setup, file, flock, path, key, rendered>>
    BY <1>2 DEF Stat
  <2>2. uncached'[r] <=> file[path[r]] = NoFile
    BY <1>0, <1>2 DEF Stat
  <2>3. \A s \in Release \ {r} : uncached'[s] = uncached[s]
    BY <1>0, <1>2 DEF Stat
  <2> QED BY <2>1, <2>2, <2>3, MovesOn DEF Locked, Built
<1>3. CASE GetRepo(r) \/ SetUpClient(r)
  <2>1. PICK there \in {"setup", "resolve", "failRepo"} : pc' = [pc EXCEPT ![r] = there]
    BY <1>3 DEF GetRepo, SetUpClient
  <2>2. pc[r] \in {"client", "setup"} /\ UNCHANGED <<setup, file, flock, path, key, uncached, rendered>>
    BY <1>3 DEF GetRepo, SetUpClient
  <2>3. cache = "fs" => (uncached[r] <=> file[path[r]] = NoFile)
    BY <2>2 DEF CInv, Seen
  <2> QED BY <2>1, <2>2, <2>3, MovesOn DEF Locked, Built
<1>4. CASE Resolve(r)
  <2>1. pc[r] = "resolve" /\ UNCHANGED <<setup, file, flock, path, key, uncached, rendered>>
    BY <1>4 DEF Resolve
  <2>2. CASE pc' = [pc EXCEPT ![r] = "failRepo"]
    BY <2>1, <2>2, MovesOn DEF Locked, Built
  <2>3. CASE Accepts(r) /\ pc' = [pc EXCEPT ![r] = "unlockRepo"]
    BY <2>1, <2>3, MovesOn DEF Accepts, Locked, Built
  <2>4. CASE ~Accepts(r) /\ pc' = [pc EXCEPT ![r] = "download"]
    <3>1. cache = "fs" => (uncached[r] <=> file[path[r]] = NoFile)
      BY <2>1 DEF CInv, Seen
    <3>2. NoFile \notin Values
      BY ChartBuildAssumption
    <3>3. cache = "fs" =>
            ~(Whole(file[path[r]]) /\ VersionMetadata(file[path[r]]) = VersionMetadata(wants[r]))
      BY <2>4, <3>1, <3>2 DEF Accepts, Whole
    <3> QED BY <2>1, <2>4, <3>3, MovesOn DEF Locked, Built
  <2> QED BY <1>4, <2>2, <2>3, <2>4 DEF Resolve
<1>5. CASE UnlockRepo(r)
  <2>1. UNCHANGED <<setup, file, flock, path, key, uncached, rendered>>
    BY <1>5 DEF UnlockRepo
  <2>2. CASE pc[r] = "unlockRepo" /\ pc' = [pc EXCEPT ![r] = "unlockChart"]
    BY <2>1, <2>2, MovesOn DEF Locked, Built
  <2>3. CASE pc[r] = "failRepo" /\ pc' = [pc EXCEPT ![r] = "failChart"]
    BY <2>1, <2>3, MovesOn DEF Locked, Built
  <2> QED BY <1>5, <2>2, <2>3 DEF UnlockRepo
<1>6. CASE Compose(r)
  <2>1. pc[r] = "compose" /\ UNCHANGED <<setup, file, flock, path, key, uncached, rendered>>
    BY <1>6 DEF Compose
  <2>2. PICK there \in {"load", "failed"} : pc' = [pc EXCEPT ![r] = there]
    BY <1>6 DEF Compose
  <2> QED BY <2>1, <2>2, MovesOn DEF Locked, Built
<1>7. CASE Render(r)
  <2>1. pc[r] = "load" /\ UNCHANGED <<setup, file, flock, path, key, uncached>>
    BY <1>7 DEF Render
  <2>2. CASE UNCHANGED rendered /\ pc' = [pc EXCEPT ![r] = "failed"]
    BY <2>1, <2>2, MovesOn DEF Locked, Built
  <2>3. CASE /\ Whole(file[path[r]]) /\ rendered' = [rendered EXCEPT ![r] = file[path[r]]]
             /\ pc' = [pc EXCEPT ![r] = "done"]
    <3>1. {NoFile, Torn} \cap Values = {}
      BY ChartBuildAssumption
    <3>2. Agreed => rendered'[r] = wants[r]
      BY <1>0, <2>3, <3>1, AgreedContent DEF Whole
    <3>3. \A s \in Release \ {r} : rendered'[s] = rendered[s]
      BY <1>0, <2>3
    <3> QED BY <2>1, <2>3, <3>2, <3>3, MovesOn DEF Locked, Built
  <2> QED BY <1>7, <2>2, <2>3 DEF Render
<1> QED BY <1>1, <1>2, <1>3, <1>4, <1>5, <1>6, <1>7

-----------------------------------------------------------------------------
(***************************************************************************)
(* The invariant: locks, archives, restarts.                               *)
(***************************************************************************)
\* GetOrLock: a release comes from nowhere to a path and, with the fs cache,
\* to a lock nobody holds.
LEMMA LockStep ==
  ASSUME CInv, TypeOK', NEW r \in Release,
         GetNull(r) \/ GetFS(r) \/ GetMemoryMiss(r) \/ GetMemoryHit(r)
  PROVE  CInv'
<1> USE ChartBuildAssumption DEF CInv, TypeOK, setup, GivePath, From, Goto
<1>1. /\ pc' = [pc EXCEPT ![r] = "stat"] /\ pc[r] = "lock"
      /\ UNCHANGED <<cache, wants, crossDevice, file, uncached, rendered>>
      /\ \E p \in {Own(r), Shared(r)} : path' = [path EXCEPT ![r] = p]
  BY DEF GetNull, GetFS, GetMemoryMiss, GetMemoryHit
<1>2. cache = "fs" => /\ flock[ChartOf[r]] = NoOne
                      /\ flock' = [flock EXCEPT ![ChartOf[r]] = r]
                      /\ path' = [path EXCEPT ![r] = <<"fs", ChartOf[r]>>]
                      /\ key' = [key EXCEPT ![r] = TRUE]
  BY DEF GetNull, GetFS, GetMemoryMiss, GetMemoryHit, Shared
<1>3. HoldsLock'
  BY <1>1, <1>2 DEF HoldsLock, Locked
<1>4. OwnPaths'
  BY <1>1, <1>2 DEF OwnPaths, Own, Shared, Locked, Built
<1>5. Contents' /\ (Agreed' <=> Agreed)
  BY <1>1 DEF Contents, Agreed
<1>s. /\ pc'[r] = "stat"
      /\ \A s \in Release : s # r => pc'[s] = pc[s] /\ path'[s] = path[s]
  BY <1>1
<1>t. \A s \in Release : pc'[s] \in {"client", "setup", "resolve", "download"} =>
        pc[s] = pc'[s] /\ path'[s] = path[s] /\ uncached'[s] = uncached[s]
  BY <1>1, <1>s
<1>6. Seen'
  BY <1>1, <1>t DEF Seen
<1>7. Kept' /\ RenderedAgreed'
  BY <1>1, <1>s, <1>5 DEF Kept, RenderedAgreed, Built, Whole
<1> QED BY <1>1, <1>3, <1>4, <1>5, <1>6, <1>7

LEMMA UnlockStep ==
  ASSUME CInv, TypeOK', NEW r \in Release, UnlockChart(r)
  PROVE  CInv'
<1> USE ChartBuildAssumption DEF CInv, TypeOK, setup, From, Goto
<1>1. PICK there \in {"compose", "failed"} : pc' = [pc EXCEPT ![r] = there]
  BY DEF UnlockChart
<1>2. /\ pc[r] \in {"unlockChart", "failChart"}
      /\ there = "compose" => pc[r] = "unlockChart"
      /\ UNCHANGED <<cache, wants, crossDevice, file, path, key, uncached, rendered>>
  BY <1>1 DEF UnlockChart, result
<1>3. HoldsLock'
  BY <1>1, <1>2 DEF HoldsLock, Locked, UnlockChart
<1>4. OwnPaths'
  BY <1>1, <1>2 DEF OwnPaths, Own, Shared, Locked, Built
<1>5. Contents' /\ (Agreed' <=> Agreed)
  BY <1>2 DEF Contents, Agreed
<1>s. \A s \in Release : pc'[s] \in {"client", "setup", "resolve", "download"} => pc[s] = pc'[s]
  BY <1>1
<1>6. Seen'
  BY <1>2, <1>s DEF Seen
<1>7. Kept' /\ RenderedAgreed'
  BY <1>1, <1>2, <1>5 DEF Kept, RenderedAgreed, Built, Whole
<1> QED BY <1>2, <1>3, <1>4, <1>5, <1>6, <1>7

\* An archive is written by the release that holds the lock, or as a whole, or
\* over none that anybody else has at its path.
LEMMA WriteStep ==
  ASSUME CInv, TypeOK', NEW r \in Release, Download(r) \/ Copy(r)
  PROVE  CInv'
<1> USE ChartBuildAssumption DEF CInv, setup, locks, Private, result, From, Goto
<1>t. /\ path[r] \in Path /\ file \in [Path -> Values \cup {NoFile, Torn}]
      /\ DOMAIN pc = Release /\ pc = [s \in Release |-> pc[s]] /\ wants[r] \in Values
  BY DEF TypeOK
<1>1. /\ pc[r] \in {"download", "copy"}
      /\ UNCHANGED <<cache, wants, crossDevice, flock, path, key, uncached, rendered>>
  BY DEF Download, Copy
<1>2. PICK there \in {"unlockRepo", "copy", "failRepo"} : pc' = [pc EXCEPT ![r] = there]
  BY DEF Download, Copy
<1>3. PICK content \in {file[path[r]], Torn, wants[r]} : file' = [file EXCEPT ![path[r]] = content]
  BY <1>t DEF Download, Copy, Packaged
<1>4. /\ there = "unlockRepo" => content = wants[r]
      /\ content # file[path[r]] /\ content # wants[r] => pc[r] = "download" /\ crossDevice
  BY <1>t, <1>2, <1>3 DEF Download, Copy, Packaged
<1>5. HoldsLock'
  BY <1>t, <1>1, <1>2 DEF HoldsLock, Locked
<1>6. OwnPaths'
  BY <1>t, <1>1, <1>2 DEF OwnPaths, Own, Shared, Locked, Built
<1>7. Contents' /\ (Agreed' <=> Agreed)
  <2>1. path[r] \in {Own(r), Shared(r)}
    BY DEF OwnPaths
  <2>2. ASSUME NEW s \in Release PROVE file'[<<"own", s>>] \in {NoFile, Torn, wants[s]}
    <3>1. file[<<"own", s>>] \in {NoFile, Torn, wants[s]} /\ <<"own", s>> \in Path
      BY DEF Contents, Path
    <3>2. CASE path[r] = <<"own", s>>
      <4>1. r = s
        BY <2>1, <3>2 DEF Own, Shared
      <4> QED BY <1>t, <1>3, <3>1, <3>2, <4>1
    <3>3. CASE path[r] # <<"own", s>>
      BY <1>t, <1>3, <3>1, <3>3
    <3> QED BY <3>2, <3>3
  <2>3. ASSUME NEW x \in {"fs"} \cup Proc, NEW c \in Chart
        PROVE  \/ file'[<<x, c>>] \in {NoFile, Torn}
               \/ \E s \in Release : ChartOf[s] = c /\ file'[<<x, c>>] = wants[s]
    <3>1. /\ \/ file[<<x, c>>] \in {NoFile, Torn}
             \/ \E s \in Release : ChartOf[s] = c /\ file[<<x, c>>] = wants[s]
          /\ <<x, c>> \in Path
      BY DEF Contents, Path
    <3>2. CASE path[r] = <<x, c>>
      <4>1. ChartOf[r] = c
        BY <2>1, <3>2 DEF Own, Shared
      <4> QED BY <1>t, <1>3, <3>1, <3>2, <4>1
    <3>3. CASE path[r] # <<x, c>>
      BY <1>t, <1>3, <3>1, <3>3
    <3> QED BY <3>2, <3>3
  <2>4. (Agreed' <=> Agreed)
    BY <1>1 DEF Agreed
  <2> QED BY <1>1, <2>2, <2>3, <2>4 DEF Contents
<1>8. ASSUME cache = "fs", NEW s \in Release, pc[s] \in Locked, s # r PROVE path[s] # path[r]
  BY <1>1, <1>8 DEF HoldsLock, OwnPaths, Locked
<1>p. \A s \in Release : path[s] \in Path
  BY DEF TypeOK
<1>9. Seen'
  <2> SUFFICES ASSUME cache = "fs", NEW s \in Release
               PROVE  /\ pc'[s] \in {"client", "setup", "resolve"} =>
                           (uncached[s] <=> file'[path[s]] = NoFile)
                      /\ pc'[s] = "download" =>
                           ~(/\ Whole(file'[path[s]])
                             /\ VersionMetadata(file'[path[s]]) = VersionMetadata(wants[s]))
    BY <1>1 DEF Seen, Whole, VersionMetadata
  <2>1. CASE s = r
    BY <1>t, <1>2, <2>1
  <2>2. CASE s # r /\ pc[s] \in Locked
    <3>1. file'[path[s]] = file[path[s]] /\ pc'[s] = pc[s]
      BY <1>t, <1>p, <1>2, <1>3, <1>8, <2>2
    <3> QED BY <3>1 DEF Seen
  <2>3. CASE s # r /\ pc[s] \notin Locked
    BY <1>t, <1>2, <2>3 DEF Locked
  <2> QED BY <2>1, <2>2, <2>3
<1>10. Kept'
  <2> SUFFICES ASSUME Agreed \/ ~crossDevice, NEW s \in Release, pc'[s] \in Built
               PROVE  file'[path[s]] \in Values
    BY <1>1, <1>7 DEF Kept, Whole
  <2>1. CASE s = r
    BY <1>t, <1>2, <1>3, <1>4, <2>1 DEF Built
  <2>2. CASE s # r
    <3>1. pc[s] \in Built /\ file[path[s]] \in Values
      BY <1>t, <1>2, <2>2 DEF Kept, Whole
    <3>2. CASE path[s] # path[r]
      BY <1>t, <1>p, <1>3, <3>1, <3>2
    <3>3. CASE path[s] = path[r] /\ content \in {file[path[r]], wants[r]}
      BY <1>t, <1>3, <3>1, <3>3
    <3>4. CASE path[s] = path[r] /\ content \notin {file[path[r]], wants[r]}
      <4>1. pc[r] = "download" /\ cache = "fs" /\ Agreed
        BY <1>4, <3>4
      <4>2. ~(/\ file[path[r]] \in Values
              /\ VersionMetadata(file[path[r]]) = VersionMetadata(wants[r]))
        BY <4>1 DEF Seen, Whole
      <4>3. file[path[r]] \in {NoFile, Torn, wants[r]}
        BY <4>1, AgreedContent
      <4> QED BY <3>1, <3>4, <4>2, <4>3
    <3> QED BY <3>2, <3>3, <3>4
  <2> QED BY <2>1, <2>2
<1>11. RenderedAgreed'
  BY <1>t, <1>1, <1>2, <1>7 DEF RenderedAgreed
<1> QED BY <1>1, <1>5, <1>6, <1>7, <1>9, <1>10, <1>11

\* A process that dies takes its locks and temporary files with it; what is at
\* the path of a release of another process stays.
LEMMA RestartStep ==
  ASSUME CInv, TypeOK', NEW p \in Proc, Restart(p)
  PROVE  CInv'
<1> USE ChartBuildAssumption DEF CInv, setup
<1> DEFINE mine == {r \in Release : ProcOf[r] = p}
           gone == {Own(r) : r \in mine} \cup ({p} \X Chart)
<1>1. UNCHANGED <<cache, wants, crossDevice>>
  BY DEF Restart
<1>2. ASSUME NEW r \in mine
      PROVE  /\ pc'[r] = "start" /\ path'[r] = Own(r)
  BY <1>2 DEF Restart
<1>3. ASSUME NEW r \in Release \ mine
      PROVE  /\ pc'[r] = pc[r] /\ path'[r] = path[r] /\ uncached'[r] = uncached[r]
             /\ rendered'[r] = rendered[r]
             /\ key'[r] <=> key[r]
  BY <1>3 DEF Restart, TypeOK
<1>4. ASSUME NEW q \in Path
      PROVE  file'[q] = IF q \in gone THEN NoFile ELSE file[q]
  BY <1>4 DEF Restart
<1>5. ASSUME NEW r \in Release \ mine PROVE path[r] \notin gone /\ path[r] \in Path
  <2>1. path[r] \in {Own(r), Shared(r)} /\ path[r] \in Path
    BY DEF OwnPaths, TypeOK
  <2>2. ProcOf[r] # p /\ ProcOf[r] \in Proc /\ p # "own" /\ p # "fs"
    BY <1>5
  <2> QED BY <2>1, <2>2 DEF Own, Shared
<1>6. \A r \in Release \ mine : file'[path'[r]] = file[path[r]]
  BY <1>3, <1>4, <1>5
<1>7. HoldsLock'
  <2> SUFFICES ASSUME cache = "fs", NEW r \in Release, pc'[r] \in Locked
               PROVE  flock'[ChartOf[r]] = r /\ key'[r]
    BY <1>1 DEF HoldsLock
  <2>1. r \notin mine
    BY <1>2 DEF Locked
  <2>2. flock[ChartOf[r]] = r /\ key'[r]
    BY <1>3, <2>1 DEF HoldsLock
  <2>3. flock'[ChartOf[r]] = r
    BY <2>1, <2>2 DEF Restart
  <2> QED BY <2>2, <2>3
<1>8. OwnPaths'
  <2>1. \A r \in Release : path'[r] \in {Own(r), Shared(r)'}
    BY <1>1, <1>2, <1>3 DEF OwnPaths, Own, Shared
  <2>2. cache = "fs" => \A r \in Release :
           pc'[r] \in Locked \cup Built => path'[r] = <<"fs", ChartOf[r]>>
    BY <1>2, <1>3 DEF OwnPaths, Locked, Built
  <2> QED BY <1>1, <2>1, <2>2 DEF OwnPaths, Own
<1>9. Contents'
  <2>1. \A r \in Release : <<"own", r>> \in Path
    BY DEF Path
  <2>2. \A x \in {"fs"} \cup Proc, c \in Chart : <<x, c>> \in Path
    BY DEF Path
  <2>3. \A q \in Path : file'[q] \in {NoFile, file[q]}
    BY <1>4
  <2>4. \A r \in Release : file'[<<"own", r>>] \in {NoFile, Torn, wants[r]}
    BY <2>1, <2>3 DEF Contents
  <2>5. ASSUME NEW x \in {"fs"} \cup Proc, NEW c \in Chart
        PROVE  \/ file'[<<x, c>>] \in {NoFile, Torn}
               \/ \E r \in Release : ChartOf[r] = c /\ file'[<<x, c>>] = wants[r]
    <3>1. file'[<<x, c>>] \in {NoFile, file[<<x, c>>]}
      BY <2>2, <2>3
    <3> QED BY <3>1 DEF Contents
  <2> QED BY <1>1, <2>4, <2>5 DEF Contents
<1>10. Seen'
  <2> SUFFICES ASSUME cache = "fs", NEW r \in Release,
                      pc'[r] \in {"client", "setup", "resolve", "download"}
               PROVE  /\ pc'[r] \in {"client", "setup", "resolve"} =>
                           (uncached'[r] <=> file'[path'[r]] = NoFile)
                      /\ pc'[r] = "download" =>
                           ~(/\ Whole(file'[path'[r]])
                             /\ VersionMetadata(file'[path'[r]]) = VersionMetadata(wants[r]))
    BY <1>1 DEF Seen, Whole, VersionMetadata
  <2>1. r \in Release \ mine
    BY <1>2
  <2>2. pc'[r] = pc[r] /\ uncached'[r] = uncached[r] /\ file'[path'[r]] = file[path[r]]
    BY <1>3, <1>6, <2>1
  <2> QED BY <2>2 DEF Seen
<1>11. Agreed' <=> Agreed
  BY <1>1 DEF Agreed
<1>12. Kept'
  BY <1>1, <1>2, <1>3, <1>6, <1>11 DEF Kept, Built, Whole
<1>13. RenderedAgreed'
  BY <1>1, <1>2, <1>3, <1>11 DEF RenderedAgreed
<1> QED BY <1>1, <1>7, <1>8, <1>9, <1>10, <1>12, <1>13

-----------------------------------------------------------------------------
LEMMA Initially == Init => CInv
<1> SUFFICES ASSUME Init PROVE CInv
  OBVIOUS
<1> USE ChartBuildAssumption DEF Init
<1>1. TypeOK
  <2>0. restarts \in 0..MaxRestarts
    OBVIOUS
  <2>1. crossDevice \in BOOLEAN
    <3>1. crossDevice \in IF cache = "fs" THEN BOOLEAN ELSE {FALSE}
      OBVIOUS
    <3> HIDE DEF Init
    <3> QED BY <3>1, Zenon
  <2>2. path \in [Release -> Path]
    BY DEF Own, Path
  <2> QED BY <2>0, <2>1, <2>2 DEF TypeOK, Entry
<1>2. HoldsLock /\ OwnPaths /\ Contents
  BY DEF HoldsLock, OwnPaths, Contents, Locked, Built, Path
<1>3. Seen /\ Kept /\ RenderedAgreed
  BY DEF Seen, Kept, RenderedAgreed, Built
<1> QED BY <1>1, <1>2, <1>3 DEF CInv

LEMMA CInvStep == CInv /\ [Next]_vars => CInv'
<1> SUFFICES ASSUME CInv, [Next]_vars PROVE CInv'
  OBVIOUS
<1>1. TypeOK'
  BY TypeStep DEF CInv
<1>2. ASSUME NEW r \in Release, Step(r) PROVE CInv'
  BY <1>1, <1>2, QuietStep, LockStep, UnlockStep, WriteStep DEF Step, GetOrLock
<1>3. ASSUME NEW p \in Proc, Restart(p) PROVE CInv'
  BY <1>1, <1>3, RestartStep
<1>4. CASE UNCHANGED vars
  <2>1. UNCHANGED <<cache, wants, crossDevice, file, flock, pc, path, key, uncached, rendered>>
    BY <1>4 DEF vars, setup, locks, result
  <2>2. HoldsLock' /\ OwnPaths' /\ Contents'
    BY <2>1 DEF CInv, HoldsLock, OwnPaths, Contents, Own, Shared
  <2>3. Seen'
    BY <2>1 DEF CInv, Seen, Whole, VersionMetadata
  <2>4. Kept' /\ RenderedAgreed'
    BY <2>1 DEF CInv, Kept, RenderedAgreed, Agreed, Whole
  <2> QED BY <1>1, <2>1, <2>2, <2>3, <2>4 DEF CInv
<1> QED BY <1>2, <1>3, <1>4 DEF Next, Finished

LEMMA CInvAlways == Spec => []CInv
BY Initially, CInvStep, PTL DEF Spec

-----------------------------------------------------------------------------
(***************************************************************************)
(* What follows from it.                                                   *)
(***************************************************************************)
\* Whatever fails, waits or dies, the state keeps its types.
THEOREM TypeCorrect == Spec => []TypeOK
<1>1. CInv => TypeOK
  BY DEF CInv
<1> QED BY <1>1, CInvAlways, PTL

\* The lock file of a chart keeps the writers of its archive apart, in however
\* many processes, also when some of them die with the lock held.
THEOREM OneWriter == Spec => []OneWriterPerPath
<1>1. CInv => OneWriterPerPath
  BY DEF CInv, HoldsLock, OwnPaths, OneWriterPerPath, Locked
<1> QED BY <1>1, CInvAlways, PTL

\* Nobody downloads what is in the cache directory.
THEOREM CacheIsUsed == Spec => []NoNeedlessDownload
<1>1. CInv => NoNeedlessDownload
  BY ChartBuildAssumption DEF CInv, TypeOK, Seen, NoNeedlessDownload, From, Whole
<1> QED BY <1>1, CInvAlways, PTL

\* An archive that a release has built or accepted can still be loaded when it
\* comes to render, although it has given up the lock by then.
THEOREM ChartsStayWhole == Spec => []LoadsWholeChart
<1>1. CInv => LoadsWholeChart
  BY DEF CInv, Kept, Built, LoadsWholeChart
<1> QED BY <1>1, CInvAlways, PTL

\* Releases that agree on the values files of their chart render it with them,
\* whoever has packaged it, in this run or an earlier one.
THEOREM AgreementIsEnough == Spec => []AgreedValuesAreRendered
<1>1. CInv => AgreedValuesAreRendered
  BY DEF CInv, RenderedAgreed, AgreedValuesAreRendered, RendersOwnValues, From
<1> QED BY <1>1, CInvAlways, PTL

\* And what such a release has built or accepted is what it asked for.
THEOREM AgreementDescribes == Spec => [](Agreed => BuildDescribesThePath)
<1>1. CInv => (Agreed => BuildDescribesThePath)
  <2> SUFFICES ASSUME CInv, Agreed, NEW r \in Release, pc[r] = "unlockRepo"
               PROVE  file[path[r]] = wants[r]
    BY DEF BuildDescribesThePath, From
  <2>1. Whole(file[path[r]])
    BY DEF CInv, Kept, Built
  <2>2. file[path[r]] \in {NoFile, Torn, wants[r]}
    BY AgreedContent
  <2> QED BY <2>1, <2>2, ChartBuildAssumption DEF Whole
<1> QED BY <1>1, CInvAlways, PTL
=============================================================================
