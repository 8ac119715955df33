-------------------------- MODULE RepositoryProofs --------------------------
(***************************************************************************)
(* Proofs about the repository clients that the workers of a build share,  *)
(* for any number of dependencies, clients, index files and transports.    *)
(* They rest on two inductive invariants.  RInv: a temporary file belongs  *)
(* to one thread or is at the Path of one client, and a borrowed transport *)
(* to one thread.  It holds whoever calls what between two critical        *)
(* sections, so it is proved of every step of LocalBuilder.  VInv: a       *)
(* thread asks a client of the kind it has, and what it has got answers    *)
(* what it asked for; this is from what Pick is proved to return, for      *)
(* lists of any length, by induction over the places of a list.            *)
(***************************************************************************)
EXTENDS LocalBuilder, TLAPS, WellFoundedInduction, SequenceTheorems

\* The steps at which a thread has a temporary file, and a transport.
HasTmp == {"index", "cache"}
HasTransport == {"index", "fetch"}

RepoTypes ==
  /\ rpath \in [Repo -> File \cup {NoFile}]
  /\ index \in [Repo -> Revision \cup {NoIndex}]
  /\ digests \in [Repo -> Revision \cup {NoIndex}]
  /\ disk \in [File -> Revision \cup {NoFile}]
  /\ tmp \in [Thread -> File \cup {NoFile}]
  /\ at \in [Thread -> Holding \cup {"none", "report", "done", "error"}]

\* A file is at the Path of one client.
OwnPath == \A r, q \in Repo : rpath[r] = rpath[q] /\ rpath[r] # NoFile => r = q

\* A temporary file is that of one thread, and at no Path.
OwnTmp ==
  \A t \in Thread :
    /\ at[t] \in HasTmp => tmp[t] # NoFile
    /\ tmp[t] # NoFile =>
         /\ \A r \in Repo : rpath[r] # tmp[t]
         /\ \A u \in Thread : tmp[u] = tmp[t] => u = t

FileInv == RepoTypes /\ OwnPath /\ OwnTmp /\ IndexOfTheFile /\ DigestOfTheFile

-----------------------------------------------------------------------------
(***************************************************************************)
(* Files, indexes and digests.                                             *)
(***************************************************************************)
\* A step that leaves the clients and the files alone, and gives nobody a
\* temporary file, keeps the invariant.
LEMMA FilesUntouched ==
  ASSUME FileInv, UNCHANGED <<client, disk, tmp>>,
         at' \in [Thread -> Holding \cup {"none", "report", "done", "error"}],
         \A t \in Thread : at'[t] \in HasTmp => at[t] \in HasTmp
  PROVE  FileInv'
<1>1. RepoTypes'
  BY DEF FileInv, RepoTypes, client
<1>2. OwnPath' /\ OwnTmp'
  BY DEF FileInv, OwnPath, OwnTmp, client
<1>3. \A r \in Repo : Content(r)' = Content(r)
  BY DEF Content, client
<1>4. IndexOfTheFile' /\ DigestOfTheFile'
  BY <1>3 DEF FileInv, IndexOfTheFile, DigestOfTheFile, client
<1> QED BY <1>1, <1>2, <1>4 DEF FileInv

\* CacheIndex begins with a file nobody else has.
LEMMA FilesAsk ==
  ASSUME FileInv, NEW t \in Thread, AskForIndex(t) PROVE FileInv'
<1> USE RepositoryAssumption
<1>1. CASE /\ \E f \in File :
                /\ disk[f] = NoFile
                /\ \A r \in Repo : rpath[r] # f
                /\ \A u \in Thread : tmp[u] # f
                /\ tmp' = [tmp EXCEPT ![t] = f]
           /\ Goto(t, "index")
  <2>1. PICK f \in File : /\ \A r \in Repo : rpath[r] # f
                          /\ \A u \in Thread : tmp[u] # f
                          /\ tmp' = [tmp EXCEPT ![t] = f]
    BY <1>1
  <2>2. UNCHANGED <<client, disk>> /\ Goto(t, "index")
    BY <1>1 DEF AskForIndex
  <2>3. RepoTypes'
    BY <2>1, <2>2 DEF FileInv, RepoTypes, client, Goto, Holding, RepoSteps
  <2>4. OwnPath'
    BY <2>2 DEF FileInv, OwnPath, client
  <2>5. OwnTmp'
    BY <2>1, <2>2 DEF FileInv, RepoTypes, OwnTmp, HasTmp, client, Goto
  <2>6. \A r \in Repo : Content(r)' = Content(r)
    BY <2>2 DEF Content, client
  <2>7. IndexOfTheFile' /\ DigestOfTheFile'
    BY <2>2, <2>6 DEF FileInv, IndexOfTheFile, DigestOfTheFile, client
  <2> QED BY <2>3, <2>4, <2>5, <2>7 DEF FileInv
<1>2. CASE Goto(t, "failed") /\ UNCHANGED <<tmp, pool>>
  <2>1. UNCHANGED <<client, disk, tmp>>
    BY <1>2 DEF AskForIndex
  <2>2. /\ at' \in [Thread -> Holding \cup {"none", "report", "done", "error"}]
        /\ \A u \in Thread : at'[u] \in HasTmp => at[u] \in HasTmp
    BY <1>2 DEF FileInv, RepoTypes, Goto, Holding, RepoSteps, HasTmp
  <2> QED BY <2>1, <2>2, FilesUntouched
<1> QED BY <1>1, <1>2 DEF AskForIndex

\* The answer goes to the thread's own file, which is at no Path.
LEMMA FilesDownload ==
  ASSUME FileInv, NEW t \in Thread, DownloadIndex(t) PROVE FileInv'
<1> USE RepositoryAssumption
<1>1. tmp[t] # NoFile /\ tmp[t] \in File
  BY DEF FileInv, OwnTmp, RepoTypes, DownloadIndex, HasTmp
<1>2. CASE \E rev \in Revision : /\ disk' = [disk EXCEPT ![tmp[t]] = rev]
                                 /\ Goto(t, "cache")
                                 /\ UNCHANGED tmp
  <2>1. UNCHANGED client /\ Goto(t, "cache") /\ UNCHANGED tmp
    BY <1>2 DEF DownloadIndex
  <2>2. PICK rev \in Revision : disk' = [disk EXCEPT ![tmp[t]] = rev]
    BY <1>2
  <2>3. RepoTypes'
    BY <1>1, <2>1, <2>2 DEF FileInv, RepoTypes, client, Goto, Holding, RepoSteps
  <2>4. OwnPath' /\ OwnTmp'
    BY <1>1, <2>1 DEF FileInv, RepoTypes, OwnPath, OwnTmp, HasTmp, client, Goto
  <2>5. \A r \in Repo : Content(r)' = Content(r)
    BY <1>1, <2>1, <2>2 DEF FileInv, RepoTypes, OwnTmp, Content, client
  <2>6. IndexOfTheFile' /\ DigestOfTheFile'
    BY <2>1, <2>5 DEF FileInv, IndexOfTheFile, DigestOfTheFile, client
  <2> QED BY <2>3, <2>4, <2>6 DEF FileInv
<1>3. CASE tmp' = [tmp EXCEPT ![t] = NoFile] /\ Goto(t, "failed") /\ UNCHANGED disk
  <2>1. UNCHANGED <<client, disk>>
    BY <1>3 DEF DownloadIndex
  <2>2. RepoTypes'
    BY <1>3, <2>1 DEF FileInv, RepoTypes, client, Goto, Holding, RepoSteps
  <2>3. OwnPath' /\ OwnTmp'
    BY <1>3, <2>1 DEF FileInv, RepoTypes, OwnPath, OwnTmp, HasTmp, client, Goto
  <2>4. \A r \in Repo : Content(r)' = Content(r)
    BY <2>1 DEF Content, client
  <2>5. IndexOfTheFile' /\ DigestOfTheFile'
    BY <2>1, <2>4 DEF FileInv, IndexOfTheFile, DigestOfTheFile, client
  <2> QED BY <2>2, <2>3, <2>5 DEF FileInv
<1> QED BY <1>2, <1>3 DEF DownloadIndex

\* The file becomes that of the client, and what was known of the one before
\* is forgotten.
LEMMA FilesCache ==
  ASSUME FileInv, NEW t \in Thread, CacheIndex(t) PROVE FileInv'
<1> USE RepositoryAssumption
<1>1. tmp[t] # NoFile /\ tmp[t] \in File
  BY DEF FileInv, OwnTmp, RepoTypes, CacheIndex, HasTmp
<1>2. RepoTypes'
  BY <1>1 DEF FileInv, RepoTypes, CacheIndex, Goto, Holding, RepoSteps
<1>3. OwnPath'
  BY <1>1 DEF FileInv, RepoTypes, OwnPath, OwnTmp, CacheIndex
<1>4. OwnTmp'
  BY <1>1 DEF FileInv, RepoTypes, OwnTmp, HasTmp, CacheIndex, Goto
<1>5. \A r \in Repo : r # RepoOf[t] =>
         Content(r)' = Content(r) /\ index'[r] = index[r] /\ digests'[r] = digests[r]
  BY DEF FileInv, RepoTypes, Content, CacheIndex
<1>6. RepoOf[t] \in Repo => index'[RepoOf[t]] = NoIndex /\ digests'[RepoOf[t]] = NoIndex
  BY DEF FileInv, RepoTypes, CacheIndex
<1>7. IndexOfTheFile' /\ DigestOfTheFile'
  BY <1>5, <1>6 DEF FileInv, IndexOfTheFile, DigestOfTheFile
<1> QED BY <1>2, <1>3, <1>4, <1>7 DEF FileInv

\* LoadFromPath, Digest, Invalidate and Clear, each under the lock.
LEMMA FilesLoad ==
  ASSUME FileInv, NEW t \in Thread, LoadFromPath(t) PROVE FileInv'
<1> USE RepositoryAssumption
<1> DEFINE loaded == IndexFromFile(Content(RepoOf[t]))
<1>1. UNCHANGED <<rpath, digests, disk, tmp>>
  BY DEF LoadFromPath
<1>2. loaded # NoIndex => loaded = Content(RepoOf[t]) /\ loaded \in Revision
  BY DEF IndexFromFile
<1>3. index' = IF loaded = NoIndex THEN index ELSE [index EXCEPT ![RepoOf[t]] = loaded]
  BY DEF LoadFromPath
<1>4. at' = [at EXCEPT ![t] = IF loaded = NoIndex THEN "failed" ELSE "lookup"]
  BY DEF LoadFromPath, Goto
<1> HIDE DEF loaded
<1>5. RepoTypes'
  <2>1. index' \in [Repo -> Revision \cup {NoIndex}]
    BY <1>2, <1>3 DEF FileInv, RepoTypes
  <2>2. at' \in [Thread -> Holding \cup {"none", "report", "done", "error"}]
    BY <1>4 DEF FileInv, RepoTypes, Holding, RepoSteps
  <2> QED BY <1>1, <2>1, <2>2 DEF FileInv, RepoTypes
<1>6. OwnPath' /\ OwnTmp'
  BY <1>1, <1>4 DEF FileInv, RepoTypes, OwnPath, OwnTmp, HasTmp
<1>7. \A r \in Repo : Content(r)' = Content(r)
  BY <1>1 DEF Content
<1>8. IndexOfTheFile'
  BY <1>2, <1>3, <1>7 DEF FileInv, RepoTypes, IndexOfTheFile
<1>9. DigestOfTheFile'
  BY <1>1, <1>7 DEF FileInv, DigestOfTheFile
<1> QED BY <1>5, <1>6, <1>8, <1>9 DEF FileInv

LEMMA FilesMethod ==
  ASSUME FileInv, NEW r \in Repo, Method(r) PROVE FileInv'
<1> USE RepositoryAssumption
<1>1. CASE DigestBegins(r)
  BY <1>1, FilesUntouched DEF DigestBegins, FileInv, RepoTypes
<1>2. CASE DigestEnds(r) \/ Invalidate(r)
  <2>1. UNCHANGED <<rpath, index, disk, tmp, at>>
    BY <1>2 DEF DigestEnds, Invalidate
  <2>2. \A q \in Repo : Content(q)' = Content(q)
    BY <2>1 DEF Content
  <2>3. Content(r) # NoFile => Content(r) \in Revision
    BY DEF FileInv, RepoTypes, Content
  <2>4. digests' \in [Repo -> Revision \cup {NoIndex}]
    BY <1>2, <2>3 DEF DigestEnds, Invalidate, FileInv, RepoTypes
  <2>5. \A q \in Repo : digests'[q] \in {digests[q], NoIndex, Content(q)}
    BY <1>2 DEF DigestEnds, Invalidate, FileInv, RepoTypes
  <2>6. RepoTypes' /\ OwnPath' /\ OwnTmp'
    BY <2>1, <2>4 DEF FileInv, RepoTypes, OwnPath, OwnTmp
  <2>7. IndexOfTheFile' /\ DigestOfTheFile'
    BY <2>1, <2>2, <2>5 DEF FileInv, IndexOfTheFile, DigestOfTheFile
  <2> QED BY <2>6, <2>7 DEF FileInv
<1>3. CASE Clear(r)
  <2>1. UNCHANGED <<tmp, at>> /\ index' = [index EXCEPT ![r] = NoIndex]
    BY <1>3 DEF Clear
  <2>2. CASE /\ Content(r) # NoFile
             /\ disk' = [disk EXCEPT ![rpath[r]] = NoFile]
             /\ rpath' = [rpath EXCEPT ![r] = NoFile]
             /\ digests' = [digests EXCEPT ![r] = NoIndex]
    <3>1. rpath[r] # NoFile
      BY <2>2 DEF Content
    <3>2. RepoTypes' /\ OwnPath' /\ OwnTmp'
      BY <2>1, <2>2 DEF FileInv, RepoTypes, OwnPath, OwnTmp
    <3>3. \A q \in Repo : q # r => Content(q)' = Content(q)
      BY <2>2, <3>1 DEF FileInv, RepoTypes, OwnPath, Content
    <3>4. IndexOfTheFile' /\ DigestOfTheFile'
      BY <2>1, <2>2, <3>3 DEF FileInv, RepoTypes, IndexOfTheFile, DigestOfTheFile
    <3> QED BY <3>2, <3>4 DEF FileInv
  <2>3. CASE UNCHANGED <<disk, rpath>> /\ digests' \in {digests, [digests EXCEPT ![r] = NoIndex]}
    <3>1. RepoTypes' /\ OwnPath' /\ OwnTmp'
      BY <2>1, <2>3 DEF FileInv, RepoTypes, OwnPath, OwnTmp
    <3>2. \A q \in Repo : Content(q)' = Content(q)
      BY <2>3 DEF Content
    <3>3. IndexOfTheFile' /\ DigestOfTheFile'
      BY <2>1, <2>3, <3>2 DEF FileInv, RepoTypes, IndexOfTheFile, DigestOfTheFile
    <3> QED BY <3>1, <3>3 DEF FileInv
  <2> QED BY <1>3, <2>2, <2>3 DEF Clear
<1> QED BY <1>1, <1>2, <1>3 DEF Method

-----------------------------------------------------------------------------
(***************************************************************************)
(* Transports.                                                             *)
(***************************************************************************)
\* A transport is lent to one thread, which is at a step that gives it back,
\* and has the TLS configuration of that thread's client or of none.
PoolInv ==
  /\ lent \in [Thread -> Transport \cup {NoTransport}]
  /\ tls \in [Transport -> Repo \cup {NoRepo}]
  /\ at \in [Thread -> Holding \cup {"none", "report", "done", "error"}]
  /\ \A t \in Thread : lent[t] # NoTransport <=> at[t] \in HasTransport
  /\ \A s, t \in Thread : lent[s] = lent[t] /\ lent[t] # NoTransport => s = t
  /\ \A t \in Thread : lent[t] # NoTransport => tls[lent[t]] = RepoOf[t]
  /\ \A u \in Idle : tls[u] = NoRepo

\* A step that leaves the pool alone, and moves nobody to or from a download.
LEMMA PoolUntouched ==
  ASSUME PoolInv, UNCHANGED pool,
         at' \in [Thread -> Holding \cup {"none", "report", "done", "error"}],
         \A t \in Thread : at'[t] \in HasTransport <=> at[t] \in HasTransport
  PROVE  PoolInv'
BY DEF PoolInv, pool, Idle

LEMMA PoolLends ==
  ASSUME PoolInv, NEW t \in Thread, at[t] \notin HasTransport, NewOrIdle(t),
         at' \in [Thread -> Holding \cup {"none", "report", "done", "error"}],
         at'[t] \in HasTransport, \A s \in Thread \ {t} : at'[s] = at[s]
  PROVE  PoolInv'
<1> USE TransportAssumption
<1>1. PICK u \in Idle : /\ lent' = [lent EXCEPT ![t] = u]
                        /\ tls' = [tls EXCEPT ![u] = RepoOf[t]]
  BY DEF NewOrIdle
<1>2. u \in Transport /\ u # NoTransport /\ \A s \in Thread : lent[s] # u
  BY DEF Idle
<1>3. \A w \in Idle' : w \in Idle /\ w # u
  BY <1>1, <1>2 DEF PoolInv, Idle
<1> QED BY <1>1, <1>2, <1>3 DEF PoolInv

LEMMA PoolTakesBack ==
  ASSUME PoolInv, NEW t \in Thread, at[t] \in HasTransport, ReleaseTransport(t),
         at' \in [Thread -> Holding \cup {"none", "report", "done", "error"}],
         at'[t] \notin HasTransport, \A s \in Thread \ {t} : at'[s] = at[s]
  PROVE  PoolInv'
<1> USE TransportAssumption
<1>1. lent[t] \in Transport
  BY DEF PoolInv
<1>2. lent' = [lent EXCEPT ![t] = NoTransport] /\ tls' = [tls EXCEPT ![lent[t]] = NoRepo]
  BY DEF ReleaseTransport
<1>3. \A w \in Idle' : w \in Idle \/ w = lent[t]
  BY <1>1, <1>2 DEF PoolInv, Idle
<1>4. \A w \in Idle' : tls'[w] = NoRepo
  BY <1>1, <1>2, <1>3 DEF PoolInv
<1>5. \A s \in Thread : lent'[s] # NoTransport => tls'[lent'[s]] = RepoOf[s]
  BY <1>1, <1>2 DEF PoolInv
<1> QED BY <1>1, <1>2, <1>4, <1>5 DEF PoolInv

-----------------------------------------------------------------------------
(***************************************************************************)
(* Every step of a build.                                                  *)
(***************************************************************************)
\* A dependency that is still to be started has no worker, and until the
\* dependencies are collected nobody has.
StartInv ==
  /\ at \in [Thread -> Holding \cup {"none", "report", "done", "error"}]
  /\ step \in {"check", "copy", "copying", "load"} => loop = "idle"
  /\ loop \in {"idle", "collect"} => \A t \in Thread : at[t] = "none"
  /\ \A t \in Thread : t \in todo => at[t] = "none"

RInv == FileInv /\ PoolInv /\ StartInv

LEMMA Initially == Init => RInv
<1> SUFFICES ASSUME Init PROVE RInv
  OBVIOUS
<1> USE LocalAssumption, RepositoryAssumption, TransportAssumption
<1> USE DEF Init, DepInit, RepoInit, PoolInit
<1>1. Situation(given)
  OBVIOUS
<1>r. /\ rpath = given.rpath /\ disk = given.disk
      /\ given.rpath \in [Repo -> File \cup {NoFile}]
      /\ given.disk \in [File -> Revision \cup {NoFile}]
      /\ \A r, q \in Repo : given.rpath[r] = given.rpath[q] /\ given.rpath[r] # NoFile => r = q
  BY <1>1 DEF Situation
<1>2. RepoTypes /\ OwnPath
  BY <1>r DEF RepoTypes, OwnPath
<1>3. OwnTmp /\ IndexOfTheFile /\ DigestOfTheFile
  BY DEF OwnTmp, HasTmp, IndexOfTheFile, DigestOfTheFile
<1>4. PoolInv
  BY DEF PoolInv, HasTransport, Idle
<1>5. StartInv
  BY DEF StartInv
<1> QED BY <1>2, <1>3, <1>4, <1>5 DEF RInv, FileInv

\* Whatever leaves the clients, the files and the pool alone, and moves a
\* thread from and to steps that hold nothing.
LEMMA MovesOn ==
  ASSUME FileInv, PoolInv, NEW t \in Thread,
         UNCHANGED <<client, disk, tmp, pool>>,
         NEW there \in (Holding \cup {"none", "report", "done", "error"}) \ {"index", "cache", "fetch"},
         at[t] \notin {"index", "fetch"}, Goto(t, there)
  PROVE  FileInv' /\ PoolInv'
<1>1. /\ at' \in [Thread -> Holding \cup {"none", "report", "done", "error"}]
      /\ \A u \in Thread : at'[u] \in HasTmp => at[u] \in HasTmp
      /\ \A u \in Thread : at'[u] \in HasTransport <=> at[u] \in HasTransport
  BY DEF FileInv, RepoTypes, Goto, HasTmp, HasTransport
<1>2. FileInv'
  BY <1>1, FilesUntouched
<1>3. PoolInv'
  BY <1>1, PoolUntouched
<1> QED BY <1>2, <1>3

LEMMA ClientStep ==
  ASSUME FileInv, PoolInv, NEW t \in Thread, GetChartVersion(t) \/ AskForChart(t) \/ DownloadChart(t)
  PROVE  FileInv' /\ PoolInv'
<1>t. at \in [Thread -> Holding \cup {"none", "report", "done", "error"}]
  BY DEF PoolInv
<1>1. CASE HasIndex(t) \/ HasFile(t) \/ Lookup(t) \/ OciVersion(t)
  <2>1. UNCHANGED <<client, disk, tmp, pool>>
    BY <1>1 DEF HasIndex, HasFile, Lookup, OciVersion, PickVersion, repoVars
  <2>2. \E there \in {"lookup", "hasFile", "load", "download", "failed", "found"} : Goto(t, there)
    BY <1>1 DEF HasIndex, HasFile, Lookup, OciVersion, PickVersion
  <2>3. at[t] \notin {"index", "fetch"}
    BY <1>1 DEF HasIndex, HasFile, Lookup, OciVersion
  <2> QED BY <2>1, <2>2, <2>3, MovesOn DEF Holding, RepoSteps
<1>2. CASE AskForIndex(t)
  <2>1. FileInv'
    BY <1>2, FilesAsk
  <2>2. CASE NewOrIdle(t) /\ Goto(t, "index")
    <3>1. at[t] = "download"
      BY <1>2 DEF AskForIndex
    <3>2. /\ at' \in [Thread -> Holding \cup {"none", "report", "done", "error"}]
          /\ at'[t] \in HasTransport /\ \A s \in Thread \ {t} : at'[s] = at[s]
      BY <1>t, <2>2 DEF Goto, HasTransport, Holding, RepoSteps
    <3>3. PoolInv'
      BY <2>2, <3>1, <3>2, PoolLends DEF HasTransport
    <3> QED BY <2>1, <3>3
  <2>3. CASE Goto(t, "failed") /\ UNCHANGED pool
    <3>1. /\ at' \in [Thread -> Holding \cup {"none", "report", "done", "error"}]
          /\ \A u \in Thread : at'[u] \in HasTransport <=> at[u] \in HasTransport
      BY <1>2, <1>t, <2>3 DEF AskForIndex, Goto, HasTransport, Holding, RepoSteps
    <3> QED BY <2>3, <3>1, PoolUntouched, <2>1
  <2> QED BY <1>2, <2>1, <2>2, <2>3 DEF AskForIndex
<1>3. CASE DownloadIndex(t)
  <2>1. FileInv'
    BY <1>3, FilesDownload
  <2>2. Goto(t, "cache") \/ Goto(t, "failed")
    BY <1>3 DEF DownloadIndex
  <2>3. PoolInv'
    BY <1>3, <1>t, <2>2, PoolTakesBack
    DEF DownloadIndex, Goto, HasTransport, Holding, RepoSteps
  <2> QED BY <2>1, <2>3
<1>4. CASE CacheIndex(t) \/ LoadFromPath(t)
  <2>1. FileInv'
    BY <1>4, FilesCache, FilesLoad
  <2>2. UNCHANGED pool
    BY <1>4 DEF CacheIndex, LoadFromPath
  <2>3. at[t] \in {"cache", "load"} /\ \E there \in {"load", "lookup", "failed"} : Goto(t, there)
    BY <1>4 DEF CacheIndex, LoadFromPath
  <2>4. /\ at' \in [Thread -> Holding \cup {"none", "report", "done", "error"}]
        /\ \A u \in Thread : at'[u] \in HasTransport <=> at[u] \in HasTransport
    BY <1>t, <2>3 DEF Goto, HasTransport, Holding, RepoSteps
  <2> QED BY <2>1, <2>2, <2>4, PoolUntouched
<1>5. CASE AskForChart(t)
  <2>1. UNCHANGED <<client, disk, tmp>>
    BY <1>5 DEF AskForChart
  <2>2. at[t] = "found" /\ (Goto(t, "fetch") \/ Goto(t, "failed"))
    BY <1>5 DEF AskForChart
  <2>3. /\ at' \in [Thread -> Holding \cup {"none", "report", "done", "error"}]
        /\ \A u \in Thread : at'[u] \in HasTmp => at[u] \in HasTmp
    BY <1>t, <2>2 DEF Goto, HasTmp, Holding, RepoSteps
  <2>4. FileInv'
    BY <2>1, <2>3, FilesUntouched
  <2>5. CASE NewOrIdle(t) /\ Goto(t, "fetch")
    BY <1>t, <2>2, <2>3, <2>4, <2>5, PoolLends DEF Goto, HasTransport
  <2>6. CASE Goto(t, "failed") /\ UNCHANGED pool
    <3>1. \A u \in Thread : at'[u] \in HasTransport <=> at[u] \in HasTransport
      BY <1>t, <2>2, <2>6 DEF Goto, HasTransport
    <3> QED BY <2>3, <2>4, <2>6, <3>1, PoolUntouched
  <2> QED BY <1>5, <2>5, <2>6 DEF AskForChart
<1>6. CASE DownloadChart(t)
  <2>1. UNCHANGED <<client, disk, tmp>>
    BY <1>6 DEF DownloadChart
  <2>2. at[t] = "fetch" /\ (Goto(t, "fetched") \/ Goto(t, "failed"))
    BY <1>6 DEF DownloadChart
  <2>3. /\ at' \in [Thread -> Holding \cup {"none", "report", "done", "error"}]
        /\ \A u \in Thread : at'[u] \in HasTmp => at[u] \in HasTmp
    BY <1>t, <2>2 DEF Goto, HasTmp, Holding, RepoSteps
  <2>4. FileInv'
    BY <2>1, <2>3, FilesUntouched
  <2>5. PoolInv'
    BY <1>6, <1>t, <2>2, <2>3, PoolTakesBack DEF DownloadChart, Goto, HasTransport
  <2> QED BY <2>4, <2>5
<1> QED BY <1>1, <1>2, <1>3, <1>4, <1>5, <1>6 DEF GetChartVersion

\* The dependency manager, and whoever else calls the clients.
LEMMA ManagerStep ==
  ASSUME RInv, Loop \/ (\E t \in Thread : Worker(t)) \/ Cancel \/ CallMethod,
         UNCHANGED local
  PROVE  RInv'
<1> USE DEF RInv
<1>s. ASSUME UNCHANGED <<repoVars, at>> PROVE FileInv' /\ PoolInv'
  <2>1. FileInv'
    BY <1>s, FilesUntouched DEF repoVars, FileInv, RepoTypes
  <2>2. PoolInv'
    BY <1>s, PoolUntouched DEF repoVars, PoolInv
  <2> QED BY <2>1, <2>2
<1>1. CASE Collect \/ Acquire \/ StopStarting \/ Wait \/ Cancel
  <2>1. UNCHANGED <<repoVars, at>>
    BY <1>1 DEF Collect, Acquire, StopStarting, Wait, Cancel
  <2>2. FileInv' /\ PoolInv'
    BY <1>s, <2>1
  <2>3. StartInv'
    BY <1>1 DEF Collect, Acquire, StopStarting, Wait, Cancel, StartInv, local
  <2> QED BY <2>2, <2>3
<1>2. ASSUME NEW t \in Thread, StartWorker(t) PROVE RInv'
  <2>1. UNCHANGED <<client, disk, tmp, pool>>
    BY <1>2 DEF StartWorker, repoVars
  <2>2. at[t] = "none"
    BY <1>2 DEF StartWorker, StartInv
  <2>3. Goto(t, "local") \/ Goto(t, "resolve")
    BY <1>2 DEF StartWorker, Goto
  <2>4. FileInv' /\ PoolInv'
    BY <2>1, <2>2, <2>3, MovesOn DEF Holding
  <2>5. StartInv'
    BY <1>2, <2>3 DEF StartWorker, Goto, StartInv, Holding, local
  <2> QED BY <2>4, <2>5
<1>3. ASSUME NEW t \in Thread, Worker(t) PROVE RInv'
  <2>1. CASE CallClient(t)
    <3>1. FileInv' /\ PoolInv'
      BY <2>1, ClientStep DEF CallClient
    <3>2. /\ at[t] # "none"
          /\ \E there \in RepoSteps : at' = [at EXCEPT ![t] = there]
      BY <2>1 DEF CallClient, GetChartVersion, HasIndex, HasFile, AskForIndex, DownloadIndex,
                  CacheIndex, LoadFromPath, Lookup, OciVersion, PickVersion, AskForChart,
                  DownloadChart, Goto, RepoSteps
    <3>3. StartInv'
      BY <2>1, <3>2 DEF CallClient, depVars, group, StartInv, Holding, local
    <3> QED BY <3>1, <3>3
  <2>2. CASE Resolve(t) \/ LoadArchive(t) \/ LoadLocal(t) \/ Add(t) \/ Release(t) \/ Report(t)
    <3>1. UNCHANGED <<client, disk, tmp, pool>>
      BY <2>2 DEF Resolve, LoadArchive, LoadLocal, Add, Release, Report, repoVars
    <3>2. at[t] \notin {"none", "index", "fetch"}
      BY <2>2 DEF Resolve, LoadArchive, LoadLocal, Add, Release, Report
    <3>3. \/ UNCHANGED <<repoVars, at>>
          \/ \E there \in {"failRelease", "tags", "hasIndex", "add", "release", "report", "done", "error"} :
               Goto(t, there)
      BY <2>2 DEF Resolve, LoadArchive, LoadLocal, Add, Release, Report, Ask, repoVars
    <3>4. FileInv' /\ PoolInv'
      BY <1>s, <3>1, <3>2, <3>3, MovesOn DEF Holding, RepoSteps
    <3>5. UNCHANGED <<loop, todo, step>>
      BY <2>2 DEF Resolve, LoadArchive, LoadLocal, Add, Release, Report, depVars, group, local
    <3>6. StartInv'
      BY <3>2, <3>3, <3>5 DEF Goto, StartInv, Holding, RepoSteps
    <3> QED BY <3>4, <3>6
  <2> QED BY <1>3, <2>1, <2>2 DEF Worker
<1>4. CASE CallMethod
  <2>1. PICK r \in Repo : Method(r)
    BY <1>4 DEF CallMethod
  <2>2. FileInv'
    BY <2>1, FilesMethod
  <2>3. UNCHANGED <<pool, at>>
    BY <2>1 DEF Method, DigestBegins, DigestEnds, Invalidate, Clear
  <2>4. PoolInv'
    BY <2>3, PoolUntouched DEF PoolInv
  <2>5. StartInv'
    BY <1>4, <2>3 DEF CallMethod, depVars, group, StartInv, local
  <2> QED BY <2>2, <2>4, <2>5
<1> QED BY <1>1, <1>2, <1>3, <1>4 DEF Loop

\* The steps of the build itself touch neither clients nor files nor pool.
LEMMA BuildStep ==
  ASSUME RInv, Build PROVE RInv'
<1> USE DEF RInv
<1>1. UNCHANGED <<repoVars, at, todo>>
  BY DEF Build, CheckReference, CreateCopy, Copy, LoadChart, EndDependencies, PackageChart,
         CopyPackage, Fail, Proceed, Done, Parts, depVars, group
<1>2. FileInv' /\ PoolInv'
  BY <1>1, FilesUntouched, PoolUntouched DEF repoVars, FileInv, RepoTypes, PoolInv
<1>3. CASE LoadChart
  BY <1>1, <1>2, <1>3 DEF LoadChart, Fail, Proceed, Parts, depVars, group, StartInv
<1>4. CASE CheckReference \/ CreateCopy \/ Copy \/ EndDependencies \/ PackageChart \/ CopyPackage
  <2>1. UNCHANGED loop
    BY <1>4 DEF CheckReference, CreateCopy, Copy, EndDependencies, PackageChart, CopyPackage,
                Fail, Proceed, Done, Parts, depVars, group
  <2>2. step \in {"check", "copy"} \/ step' \notin {"check", "copy", "copying", "load"}
    BY <1>4 DEF CheckReference, CreateCopy, Copy, EndDependencies, PackageChart, CopyPackage,
                Fail, Proceed, Done
  <2> QED BY <1>1, <1>2, <2>1, <2>2 DEF StartInv
<1> QED BY <1>2, <1>3, <1>4 DEF Build

LEMMA RInvStep == RInv /\ [Next]_vars => RInv'
<1> SUFFICES ASSUME RInv, [Next]_vars PROVE RInv'
  OBVIOUS
<1>1. CASE UNCHANGED vars
  <2>1. UNCHANGED <<repoVars, at, loop, todo, step>>
    BY <1>1 DEF vars, depVars, group, local
  <2>2. FileInv' /\ PoolInv'
    BY <2>1, FilesUntouched, PoolUntouched DEF repoVars, RInv, FileInv, RepoTypes, PoolInv
  <2> QED BY <2>1, <2>2 DEF RInv, StartInv
<1>2. CASE Next
  BY <1>1, <1>2, ManagerStep, BuildStep DEF Next, Finished
<1> QED BY <1>1, <1>2

LEMMA RInvAlways == Spec => []RInv
BY Initially, RInvStep, PTL DEF Spec

\* No client ever answers from an index that is not the one at its Path,
\* whatever the workers, and the callers of Digest, Invalidate and Clear, do
\* between two critical sections.
THEOREM FreshIndex == Spec => []IndexOfTheFile
<1>1. RInv => IndexOfTheFile
  BY DEF RInv, FileInv
<1> QED BY <1>1, RInvAlways, PTL

\* No client ever has the digest of another file than the one at its Path,
\* although Digest looks for the file in one critical section and computes the
\* digest in another.
THEOREM FreshDigest == Spec => []DigestOfTheFile
<1>1. RInv => DigestOfTheFile
  BY DEF RInv, FileInv
<1> QED BY <1>1, RInvAlways, PTL

-----------------------------------------------------------------------------
(***************************************************************************)
(* What getChartVersion picks from a list.                                 *)
(***************************************************************************)
\* Induction, over a set of natural numbers.
LEMMA Induction ==
  ASSUME NEW A \in SUBSET Nat, 0 \in A, \A n \in A : n + 1 \in A
  PROVE  \A n \in Nat : n \in A
<1> SUFFICES ASSUME Nat \ A # {} PROVE FALSE
  OBVIOUS
<1>1. PICK m \in Nat \ A : \A l \in Nat \ A : ~(<<l, m>> \in OpToRel(<, Nat))
  <2>1. Nat \ A \subseteq Nat
    OBVIOUS
  <2> QED BY <2>1, NatLessThanWellFounded, WFMin
<1>2. \A l \in Nat \ A : ~(l < m)
  BY <1>1 DEF OpToRel
<1>3. m - 1 \in Nat /\ m - 1 < m /\ m - 1 + 1 = m
  OBVIOUS
<1> QED BY <1>2, <1>3

\* A version at least as late as another, as an index or a registry has it.
Later(list, v, w) ==
  \/ w.place < v.place
  \/ w.place = v.place /\ (list = "index" => w.created <= v.created)

\* The first of a sorted list is none but a latest one.
Sorted(list, s) ==
  s \in Seq(AVersion) /\ (s # <<>> => \A w \in Range(s) : Later(list, s[1], w))

\* Insertion keeps all there is and puts a latest version first, although in
\* an index each of two equal versions is less than the other.
LEMMA InsertKeeps ==
  ASSUME NEW list \in {"index", "tags"}, NEW s, Sorted(list, s), NEW v \in AVersion
  PROVE  /\ Sorted(list, Insert(list, s, v))
         /\ Range(Insert(list, s, v)) = Range(s) \cup {v}
         /\ Insert(list, s, v) # <<>>
<1> DEFINE l == Len(s)
           passed == {n \in 0..l : \A i \in 1..l : i > l - n => First(list, v, s[i])}
           most == CHOOSE n \in passed : \A m \in passed : m <= n
           i0 == l - most + 1
           t == Insert(list, s, v)
<1>0. s \in Seq(AVersion) /\ l \in Nat /\ (\A i \in 1..l : s[i] \in AVersion) /\ DOMAIN s = 1..l
  BY DEF Sorted
<1>1. 0 \in passed
  BY <1>0
<1>2. most \in passed /\ \A m \in passed : m <= most
  <2> DEFINE left == {k \in Nat : k <= l /\ l - k \in passed}
  <2>1. left \subseteq Nat /\ l \in left
    BY <1>0, <1>1
  <2>2. PICK k \in left : \A j \in left : ~(<<j, k>> \in OpToRel(<, Nat))
    <3> HIDE DEF left
    <3> QED BY <2>1, NatLessThanWellFounded, WFMin
  <2>3. \A j \in left : ~(j < k)
    BY <2>1, <2>2 DEF OpToRel
  <2>4. \A m \in passed : m <= l - k
    <3> SUFFICES ASSUME NEW m \in passed, ~(m <= l - k) PROVE FALSE
      OBVIOUS
    <3>1. m \in 0..l /\ l - m \in Nat /\ l - (l - m) = m /\ l - m <= l
      BY <1>0
    <3>2. l - m \in left /\ l - m < k
      BY <1>0, <3>1
    <3> QED BY <2>3, <3>2
  <2>5. \E n \in passed : \A m \in passed : m <= n
    BY <2>4
  <2> HIDE DEF passed
  <2> QED BY <2>5
<1>3. most \in 0..l /\ i0 \in 1..(l + 1)
  BY <1>0, <1>2
<1>i. i0 = l - most + 1
  OBVIOUS
<1>4. t = SubSeq(s, 1, i0 - 1) \o <<v>> \o SubSeq(s, i0, l)
  BY DEF Insert, InsertAt
<1> HIDE DEF passed, most, i0, t
<1>5. /\ t \in Seq(AVersion) /\ Len(t) = l + 1
      /\ \A i \in 1..(l + 1) : t[i] = IF i < i0 THEN s[i] ELSE IF i = i0 THEN v ELSE s[i - 1]
  <2>1. SubSeq(s, 1, i0 - 1) \in Seq(AVersion) /\ Len(SubSeq(s, 1, i0 - 1)) = i0 - 1
    BY <1>0, <1>3
  <2>2. SubSeq(s, i0, l) \in Seq(AVersion) /\ Len(SubSeq(s, i0, l)) = l - i0 + 1
    BY <1>0, <1>3
  <2>3. \A i \in 1..(i0 - 1) : SubSeq(s, 1, i0 - 1)[i] = s[i]
    BY <1>0, <1>3
  <2>4. \A i \in 1..(l - i0 + 1) : SubSeq(s, i0, l)[i] = s[i0 + i - 1]
    BY <1>0, <1>3
  <2> DEFINE a == SubSeq(s, 1, i0 - 1)
             b == SubSeq(s, i0, l)
             c == a \o <<v>>
  <2>a. /\ a \in Seq(AVersion) /\ Len(a) = i0 - 1 /\ b \in Seq(AVersion) /\ Len(b) = l - i0 + 1
        /\ \A i \in 1..(i0 - 1) : a[i] = s[i]
        /\ \A i \in 1..(l - i0 + 1) : b[i] = s[i0 + i - 1]
    BY <2>1, <2>2, <2>3, <2>4
  <2>b. t = c \o b
    BY <1>4
  <2> HIDE DEF a, b
  <2>c. /\ c \in Seq(AVersion) /\ Len(c) = i0
        /\ \A i \in 1..(i0 - 1) : c[i] = s[i]
        /\ c[i0] = v
    <3>1. a \in Seq(AVersion) /\ Len(a) = i0 - 1 /\ i0 \in Nat
      BY <1>0, <1>3, <2>a
    <3>2. c \in Seq(AVersion) /\ Len(c) = Len(a) + 1
      BY <3>1
    <3>3. (\A i \in 1..Len(a) : c[i] = a[i]) /\ c[Len(a) + 1] = v
      <4>1. a \in Seq(AVersion) /\ <<v>> \in Seq(AVersion)
        BY <3>1
      <4>2. Len(<<v>>) = 1 /\ <<v>>[1] = v
        OBVIOUS
      <4>3. \A i \in 1..(Len(a) + 1) :
              c[i] = IF i <= Len(a) THEN a[i] ELSE <<v>>[i - Len(a)]
        BY <4>1, <4>2, ConcatProperties
      <4>4. Len(a) \in Nat
        BY <4>1
      <4> QED BY <4>2, <4>3, <4>4
    <3>4. i0 - 1 = Len(a) /\ i0 = Len(a) + 1
      BY <3>1
    <3> QED BY <2>a, <3>1, <3>2, <3>3, <3>4
  <2> HIDE DEF c
  <2>d. t \in Seq(AVersion) /\ Len(t) = l + 1
    <3>1. t \in Seq(AVersion) /\ Len(t) = Len(c) + Len(b)
      <4>1. c \in Seq(AVersion) /\ b \in Seq(AVersion)
        BY <2>a, <2>c
      <4> QED BY <4>1, <2>b
    <3>2. Len(c) + Len(b) = l + 1
      BY <1>0, <1>3, <2>a, <2>c
    <3> QED BY <3>1, <3>2
  <2>e. \A i \in 1..i0 : t[i] = c[i]
    BY <1>0, <1>3, <2>a, <2>b, <2>c
  <2>f. \A i \in (i0 + 1)..(l + 1) : t[i] = b[i - i0]
    BY <1>0, <1>3, <2>a, <2>b, <2>c
  <2>g. \A i \in (i0 + 1)..(l + 1) : i - i0 \in 1..(l - i0 + 1) /\ i0 + (i - i0) - 1 = i - 1
    BY <1>0, <1>3
  <2>h. \A i \in (i0 + 1)..(l + 1) : t[i] = s[i - 1]
    BY <2>a, <2>f, <2>g
  <2> QED BY <1>0, <1>3, <2>c, <2>d, <2>e, <2>h
<1>6. Range(t) = Range(s) \cup {v}
  <2>1. DOMAIN t = 1..(l + 1)
    BY <1>0, <1>5
  <2>2. \A i \in 1..(l + 1) : t[i] \in Range(s) \cup {v}
    <3> SUFFICES ASSUME NEW i \in 1..(l + 1) PROVE t[i] \in Range(s) \cup {v}
      OBVIOUS
    <3>1. CASE i < i0
      BY <1>0, <1>3, <1>5, <3>1 DEF Range
    <3>2. CASE i = i0
      BY <1>0, <1>3, <1>5, <3>2
    <3>3. CASE i > i0
      <4>1. t[i] = s[i - 1] /\ i - 1 \in 1..l
        BY <1>0, <1>3, <1>5, <3>3
      <4> QED BY <1>0, <4>1 DEF Range
    <3> QED BY <1>3, <3>1, <3>2, <3>3
  <2>3. \A i \in 1..l : \E j \in 1..(l + 1) : t[j] = s[i]
    <3> SUFFICES ASSUME NEW i \in 1..l PROVE \E j \in 1..(l + 1) : t[j] = s[i]
      OBVIOUS
    <3>1. i < i0 => t[i] = s[i] /\ i \in 1..(l + 1)
      BY <1>0, <1>5
    <3>2. i >= i0 => t[i + 1] = s[i] /\ i + 1 \in 1..(l + 1)
      BY <1>0, <1>3, <1>5
    <3> QED BY <1>0, <1>3, <3>1, <3>2
  <2>4. t[i0] = v
    BY <1>3, <1>5
  <2> QED BY <1>0, <1>3, <2>1, <2>2, <2>3, <2>4 DEF Range
<1>7. \A w \in Range(t) : Later(list, t[1], w)
  <2>0. \A w \in Range(s) : w \in AVersion
    BY <1>0 DEF Range
  <2>r. Later(list, v, v)
    BY DEF Later, AVersion
  <2>1. CASE i0 = 1
    <3>1. most = l
      <4>1. l \in Nat /\ most \in Nat /\ 1 = l - most + 1
        BY <1>0, <1>3, <1>i, <2>1
      <4> HIDE DEF l
      <4> QED BY <4>1
    <3>2. \A i \in 1..l : First(list, v, s[i])
      BY <1>0, <1>2, <3>1 DEF passed
    <3>3. \A w \in Range(s) : First(list, v, w)
      BY <1>0, <3>2 DEF Range
    <3>4. \A w \in AVersion : First(list, v, w) => Later(list, v, w)
      BY DEF First, FirstOfIndex, FirstOfTags, Later, AVersion
    <3> QED BY <1>0, <1>5, <1>6, <2>0, <2>1, <2>r, <3>3, <3>4
  <2>2. CASE i0 > 1
    <3>1. most + 1 \in 0..l /\ most + 1 \notin passed
      BY <1>0, <1>2, <1>3, <1>i, <2>2
    <3>2. PICK i \in 1..l : ~First(list, v, s[i])
      BY <3>1 DEF passed
    <3>3. Later(list, s[i], v)
      BY <1>0, <3>2 DEF First, FirstOfIndex, FirstOfTags, Later, AVersion
    <3>4. s # <<>> /\ s[1] \in AVersion /\ s[i] \in Range(s)
      BY <1>0 DEF Range
    <3>5. Later(list, s[1], s[i])
      BY <3>4 DEF Sorted
    <3>6. Later(list, s[1], v)
      BY <1>0, <3>3, <3>4, <3>5 DEF Later, AVersion
    <3>7. t[1] = s[1]
      BY <1>0, <1>5, <2>2
    <3> QED BY <1>6, <3>4, <3>6, <3>7 DEF Sorted
  <2> QED BY <1>3, <2>1, <2>2
<1>8. t # <<>>
  BY <1>0, <1>5
<1> QED BY <1>5, <1>6, <1>7, <1>8 DEF Sorted, t

\* What Sort makes of the versions at some places, given what it makes of all
\* but the last of them.
SortStep(list, versions, request, f, S) ==
  IF S = {} THEN <<>>
  ELSE IF Admitted(versions[Max(S)], request)
       THEN Insert(list, f[S \ {Max(S)}], versions[Max(S)])
       ELSE f[S \ {Max(S)}]

IsSort(list, versions, request, f) ==
  /\ f = [S \in SUBSET (1..Len(versions)) |-> SortStep(list, versions, request, f, S)]
  /\ Sort(list, versions, request) = f[1..Len(versions)]

LEMMA LastPlace ==
  ASSUME NEW m \in Nat, NEW S \in SUBSET (1..(m + 1)), m + 1 \in S
  PROVE  Max(S) = m + 1 /\ S \ {m + 1} \in SUBSET (1..m)
<1>1. \A i \in 1..(m + 1) : i <= m + 1 /\ (i = m + 1 \/ i \in 1..m) /\ i \in Nat
  OBVIOUS
<1>2. \A i \in S : i <= m + 1
  BY <1>1
<1>3. \A i \in S : m + 1 <= i => i = m + 1
  BY <1>1
<1>4. Max(S) = m + 1
  BY <1>2, <1>3 DEF Max
<1> QED BY <1>1, <1>4

\* The function that Sort is, by FoldLeft, defined with exists.
LEMMA SortIsDefined ==
  ASSUME NEW list, NEW versions \in Seq(AVersion), NEW request
  PROVE  \E f : IsSort(list, versions, request, f)
<1> DEFINE Made(f, S) == SortStep(list, versions, request, f, S)
           Upto(m, f) == f = [S \in SUBSET (1..m) |-> Made(f, S)]
           A == {m \in Nat : \E f : Upto(m, f)}
<1>1. 0 \in A
  <2> DEFINE f == [S \in SUBSET (1..0) |-> <<>>]
  <2>1. \A S \in SUBSET (1..0) : Made(f, S) = <<>>
    BY DEF SortStep
  <2>2. Upto(0, f)
    BY <2>1
  <2> QED BY <2>2
<1>2. ASSUME NEW m \in A PROVE m + 1 \in A
  <2>1. PICK g : Upto(m, g)
    OBVIOUS
  <2> DEFINE h == [S \in SUBSET (1..(m + 1)) |-> IF m + 1 \in S THEN Made(g, S) ELSE g[S]]
  <2>2. m \in Nat /\ \A i \in 1..m : i \in 1..(m + 1) /\ i # m + 1
    OBVIOUS
  <2>3. \A S \in SUBSET (1..m) : S \in SUBSET (1..(m + 1)) /\ h[S] = g[S]
    BY <2>2
  <2>4. ASSUME NEW S \in SUBSET (1..(m + 1)) PROVE h[S] = Made(h, S)
    <3>1. CASE m + 1 \in S
      <4>1. Max(S) = m + 1 /\ S \ {m + 1} \in SUBSET (1..m)
        BY <2>2, <3>1, LastPlace
      <4>2. h[S] = Made(g, S)
        BY <3>1
      <4>3. h[S \ {Max(S)}] = g[S \ {Max(S)}]
        BY <2>3, <4>1
      <4> HIDE DEF h
      <4> QED BY <4>2, <4>3 DEF SortStep
    <3>2. CASE m + 1 \notin S
      <4>1. \A i \in 1..(m + 1) : i \in 1..m \/ i = m + 1
        BY <2>2
      <4>2. S \in SUBSET (1..m) /\ S \ {Max(S)} \in SUBSET (1..m)
        BY <3>2, <4>1
      <4>3. g[S] = Made(g, S)
        BY <2>1, <4>2
      <4>4. h[S] = g[S] /\ h[S \ {Max(S)}] = g[S \ {Max(S)}]
        BY <2>3, <4>2
      <4> HIDE DEF h
      <4> QED BY <4>3, <4>4 DEF SortStep
    <3> QED BY <3>1, <3>2
  <2>5. Upto(m + 1, h)
    <3>1. h = [S \in SUBSET (1..(m + 1)) |-> h[S]]
      OBVIOUS
    <3>2. \A S \in SUBSET (1..(m + 1)) : h[S] = Made(h, S)
      BY <2>4
    <3> HIDE DEF h
    <3> QED BY <3>1, <3>2
  <2> HIDE DEF h, Upto
  <2> QED BY <2>2, <2>5
<1>3. \E f : Upto(Len(versions), f)
  <2>1. A \in SUBSET Nat /\ Len(versions) \in Nat
    OBVIOUS
  <2>2. Len(versions) \in A
    <3> HIDE DEF A
    <3> QED BY <1>1, <1>2, <2>1, Induction
  <2> QED BY <2>2
<1>4. Sort(list, versions, request) = (CHOOSE f : Upto(Len(versions), f))[1..Len(versions)]
  <2>1. DOMAIN versions = 1..Len(versions)
    OBVIOUS
  <2> QED BY <2>1 DEF Sort, FoldLeft, MapThenFoldSet, SortStep
<1> HIDE DEF Upto
<1>5. Upto(Len(versions), CHOOSE f : Upto(Len(versions), f))
  BY <1>3
<1>6. IsSort(list, versions, request, CHOOSE f : Upto(Len(versions), f))
  BY <1>4, <1>5 DEF Upto, IsSort
<1> QED BY <1>6

\* What a list is sorted to are the versions that are admitted, a latest first.
LEMMA SortKeeps ==
  ASSUME NEW list \in {"index", "tags"}, NEW versions \in Seq(AVersion), NEW request
  PROVE  /\ Sorted(list, Sort(list, versions, request))
         /\ Range(Sort(list, versions, request)) = {v \in Range(versions) : Admitted(v, request)}
<1>1. Len(versions) \in Nat /\ DOMAIN versions = 1..Len(versions)
      /\ \A n \in 1..Len(versions) : versions[n] \in AVersion
  OBVIOUS
<1>2. PICK f : IsSort(list, versions, request, f)
  BY SortIsDefined
<1> DEFINE some(m) == {versions[n] : n \in {i \in 1..m : Admitted(versions[i], request)}}
           A == {m \in Nat : m <= Len(versions) => Sorted(list, f[1..m]) /\ Range(f[1..m]) = some(m)}
<1>e. \A S \in SUBSET (1..Len(versions)) : f[S] = SortStep(list, versions, request, f, S)
  BY <1>2 DEF IsSort
<1>3. 0 \in A
  <2>1. 1..0 = {} /\ f[1..0] = <<>>
    <3>1. 1..0 = {}
      OBVIOUS
    <3> QED BY <3>1, <1>e DEF SortStep
  <2>2. Sorted(list, <<>>) /\ Range(<<>>) = {}
    BY DEF Sorted, Range
  <2>3. some(0) = {}
    OBVIOUS
  <2> QED BY <2>1, <2>2, <2>3
<1>4. ASSUME NEW m \in A PROVE m + 1 \in A
  <2> SUFFICES ASSUME m + 1 <= Len(versions)
               PROVE  Sorted(list, f[1..(m + 1)]) /\ Range(f[1..(m + 1)]) = some(m + 1)
    OBVIOUS
  <2>1. m \in Nat /\ m + 1 \in 1..Len(versions)
    BY <1>1
  <2>2. Sorted(list, f[1..m]) /\ Range(f[1..m]) = some(m)
    BY <1>1, <2>1
  <2>3. f[1..(m + 1)] = IF Admitted(versions[m + 1], request)
                        THEN Insert(list, f[1..m], versions[m + 1]) ELSE f[1..m]
    <3>1. m + 1 \in 1..(m + 1) /\ 1..(m + 1) \in SUBSET (1..(m + 1))
      BY <2>1
    <3>2. Max(1..(m + 1)) = m + 1
      BY <2>1, <3>1, LastPlace
    <3>3. (1..(m + 1)) \ {m + 1} = 1..m /\ 1..(m + 1) # {}
      BY <2>1, <3>1
    <3>4. 1..(m + 1) \in SUBSET (1..Len(versions))
      BY <1>1, <2>1
    <3>5. f[1..(m + 1)] = SortStep(list, versions, request, f, 1..(m + 1))
      BY <1>e, <3>4
    <3> QED BY <3>2, <3>3, <3>5 DEF SortStep
  <2>4. versions[m + 1] \in AVersion
    BY <1>1, <2>1
  <2>5. \A i \in 1..(m + 1) : i \in 1..m \/ i = m + 1
    BY <2>1
  <2>6. \A i \in 1..m : i \in 1..(m + 1)
    BY <2>1
  <2>7. some(m + 1) =
          IF Admitted(versions[m + 1], request) THEN some(m) \cup {versions[m + 1]} ELSE some(m)
    <3>1. \A v \in some(m + 1) :
            v \in some(m) \/ (v = versions[m + 1] /\ Admitted(versions[m + 1], request))
      BY <2>5
    <3>2. some(m) \subseteq some(m + 1)
      BY <2>6
    <3>3. m + 1 \in 1..(m + 1)
      BY <2>1
    <3>4. Admitted(versions[m + 1], request) => versions[m + 1] \in some(m + 1)
      BY <3>3
    <3> HIDE DEF some
    <3> QED BY <3>1, <3>2, <3>4
  <2> HIDE DEF some
  <2>8. CASE Admitted(versions[m + 1], request)
    <3> DEFINE s == f[1..m]
               v == versions[m + 1]
    <3>1. Sorted(list, s) /\ v \in AVersion
      BY <2>2, <2>4
    <3>2. f[1..(m + 1)] = Insert(list, s, v) /\ some(m + 1) = Range(s) \cup {v}
      BY <2>2, <2>3, <2>7, <2>8
    <3> HIDE DEF s, v
    <3>3. Sorted(list, Insert(list, s, v)) /\ Range(Insert(list, s, v)) = Range(s) \cup {v}
      BY <3>1, InsertKeeps
    <3> QED BY <3>2, <3>3
  <2>9. CASE ~Admitted(versions[m + 1], request)
    BY <2>2, <2>3, <2>7, <2>9
  <2> QED BY <2>8, <2>9
<1>5. Len(versions) \in A
  <2>1. A \in SUBSET Nat
    OBVIOUS
  <2> HIDE DEF A
  <2> QED BY <1>1, <1>3, <1>4, <2>1, Induction
<1>6. Sorted(list, f[1..Len(versions)]) /\ Range(f[1..Len(versions)]) = some(Len(versions))
  BY <1>1, <1>5
<1>7. some(Len(versions)) = {v \in Range(versions) : Admitted(v, request)}
  BY <1>1 DEF Range
<1> QED BY <1>2, <1>6, <1>7 DEF IsSort

\* What is picked answers the request.
LEMMA PickAnswers ==
  ASSUME NEW list \in {"index", "tags"}, NEW versions \in Seq(AVersion), NEW request,
         request.admits \subseteq Nat \ {0}, Pick(list, versions, request) # NoVersion
  PROVE  Answers(Pick(list, versions, request), list, versions, request)
<1> DEFINE v == Pick(list, versions, request)
           I == {n \in 1..Len(versions) : request.text # "" /\ versions[n].text = request.text}
           exact == IF I # {} THEN Min(I) ELSE 0
           matched == Sort(list, versions, request)
<1>d. DOMAIN versions = 1..Len(versions) /\ Len(versions) \in Nat
      /\ \A w \in Range(versions) : w \in AVersion
  BY DEF Range
<1>z. \A n \in 1..Len(versions) : n # 0
  OBVIOUS
<1>p. v = CASE exact # 0 -> versions[exact]
            [] exact = 0 /\ matched # <<>> -> Head(matched)
            [] OTHER -> NoVersion
  BY DEF Pick, SelectInSeq
<1>1. CASE I # {}
  <2>1. I \subseteq Nat
    <3>1. \A n \in 1..Len(versions) : n \in Nat
      OBVIOUS
    <3> QED BY <3>1
  <2>2. PICK k \in I : \A j \in I : ~(<<j, k>> \in OpToRel(<, Nat))
    <3> HIDE DEF I
    <3> QED BY <1>1, <2>1, NatLessThanWellFounded, WFMin
  <2>3. \A j \in I : k <= j
    <3> HIDE DEF I
    <3>1. \A j \in I : ~(j < k)
      BY <2>1, <2>2 DEF OpToRel
    <3>2. \A j \in I : j \in Nat /\ k \in Nat
      BY <2>1
    <3> QED BY <3>1, <3>2
  <2>4. Min(I) \in I
    <3>1. \E x \in I : \A y \in I : x <= y
      BY <2>3
    <3> HIDE DEF I
    <3> QED BY <3>1 DEF Min
  <2>5. Min(I) \in 1..Len(versions) /\ request.text # "" /\ versions[Min(I)].text = request.text
    BY <2>4
  <2>6. exact = Min(I) /\ exact # 0
    <3>2. Min(I) # 0
      <4> HIDE DEF I
      <4> QED BY <1>z, <2>5
    <3> HIDE DEF I
    <3> QED BY <1>1, <3>2
  <2>7. v = versions[Min(I)]
    <3> HIDE DEF exact, matched
    <3> QED BY <1>p, <2>6
  <2>8. v \in Range(versions)
    BY <1>d, <2>5, <2>7 DEF Range
  <2> HIDE DEF v
  <2> QED BY <2>5, <2>7, <2>8 DEF Answers, v
<1>2. CASE I = {}
  <2>1. matched # <<>> /\ v = matched[1]
    <3>1. matched # <<>> /\ v = Head(matched)
      BY <1>p, <1>2
    <3>2. matched \in Seq(AVersion)
      BY SortKeeps DEF Sorted
    <3> HIDE DEF matched, v
    <3> QED BY <3>1, <3>2
  <2>2. Sorted(list, matched) /\ Range(matched) = {w \in Range(versions) : Admitted(w, request)}
    BY SortKeeps
  <2>3. v \in Range(matched)
    <3> HIDE DEF matched, v
    <3>1. matched \in Seq(AVersion)
      BY <2>2 DEF Sorted
    <3> QED BY <2>1, <3>1 DEF Range
  <2>4. v \in Range(versions) /\ Admitted(v, request)
    <3> HIDE DEF matched, v
    <3> QED BY <2>2, <2>3
  <2>5. \A w \in Range(versions) : w.place \in request.admits => Later(list, v, w)
    <3> HIDE DEF v
    <3>1. \A w \in Range(matched) : Later(list, v, w)
      <4> HIDE DEF matched
      <4> QED BY <2>1, <2>2 DEF Sorted
    <3>2. \A w \in Range(versions) : w.place \in request.admits => Admitted(w, request)
      BY DEF Admitted
    <3> HIDE DEF matched
    <3> QED BY <2>2, <3>1, <3>2
  <2>6. \A w \in Range(versions) : request.text = "" \/ w.text # request.text
    <3>1. \A n \in 1..Len(versions) : ~(request.text # "" /\ versions[n].text = request.text)
      BY <1>2
    <3> QED BY <1>d, <3>1 DEF Range
  <2> HIDE DEF v
  <2> QED BY <2>4, <2>5, <2>6 DEF Answers, Admitted, Later, v
<1> QED BY <1>1, <1>2

-----------------------------------------------------------------------------
(***************************************************************************)
(* The version each thread has got.                                        *)
(***************************************************************************)
\* The steps at which a thread asks an HTTP client for a version.
IndexSteps == {"hasIndex", "hasFile", "download", "index", "cache", "load", "lookup"}

Known(t, there) ==
  /\ there = "resolve" => RepoOf[t] \in Repo
  /\ there = "tags" => RepoOf[t] \in OciRepo
  /\ there \in IndexSteps => RepoOf[t] \in Repo \ OciRepo

\* A thread asks a client of the kind it has, and an index is one that could
\* be parsed.
VInv ==
  /\ at \in [Thread -> Holding \cup {"none", "report", "done", "error"}]
  /\ \A t \in Thread : Known(t, at[t])
  /\ index \in [Repo -> DOMAIN Offers \cup {NoIndex}]
  /\ picked \in [Thread -> AVersion \cup {NoVersion}]
  /\ LatestVersion

LEMMA VInitially == Init => VInv
<1> SUFFICES ASSUME Init PROVE VInv
  OBVIOUS
<1> QED BY DEF Init, DepInit, RepoInit, VInv, Known, IndexSteps, LatestVersion

\* A step that moves a thread, and leaves indexes and versions alone.
LEMMA VMoves ==
  ASSUME VInv, UNCHANGED <<index, picked>>, NEW t \in Thread,
         NEW there \in Holding \cup {"none", "report", "done", "error"},
         Goto(t, there), Known(t, there)
  PROVE  VInv'
<1>1. at' \in [Thread -> Holding \cup {"none", "report", "done", "error"}]
  BY DEF VInv, Goto
<1>2. \A u \in Thread : Known(u, at'[u])
  BY DEF VInv, Goto
<1>3. \A u \in Thread : Known(u, at[u])'
  BY <1>2 DEF Known
<1> QED BY <1>1, <1>3 DEF VInv, LatestVersion

LEMMA VUntouched ==
  ASSUME VInv, UNCHANGED <<at, picked>>, index' \in [Repo -> DOMAIN Offers \cup {NoIndex}]
  PROVE  VInv'
<1>1. \A u \in Thread : Known(u, at[u])'
  BY DEF Known, VInv
<1> QED BY <1>1 DEF VInv, LatestVersion

\* A lookup that has found a version.
LEMMA VPicks ==
  ASSUME VInv, NEW t \in Thread, NEW v \in AVersion \cup {NoVersion}, PickVersion(t, v),
         v = NoVersion \/ (RepoOf[t] \in OciRepo /\ RequestOf[t].exact)
         \/ LET list == IF RepoOf[t] \in OciRepo THEN "tags" ELSE "index" IN
            \E rev \in DOMAIN Offers : Answers(v, list, Offers[rev][t], RequestOf[t]),
         UNCHANGED index
  PROVE  VInv'
<1>1. at' \in [Thread -> Holding \cup {"none", "report", "done", "error"}]
  BY DEF VInv, PickVersion, Goto, Holding, RepoSteps
<1>2. \A u \in Thread : Known(u, at[u])'
  BY DEF VInv, PickVersion, Goto, Known, IndexSteps
<1>3. picked' \in [Thread -> AVersion \cup {NoVersion}]
  BY DEF VInv, PickVersion
<1>4. picked'[t] = v /\ \A u \in Thread \ {t} : picked'[u] = picked[u]
  BY DEF VInv, PickVersion
<1>5. LatestVersion'
  BY <1>4 DEF VInv, LatestVersion
<1> QED BY <1>1, <1>2, <1>3, <1>5 DEF VInv

\* What a revision offers of a chart.
LEMMA OffersVersions ==
  ASSUME NEW rev \in DOMAIN Offers, NEW t \in Thread, NEW list \in {"index", "tags"},
         NEW v, v = Pick(list, Offers[rev][t], RequestOf[t]), v # NoVersion
  PROVE  v \in AVersion /\ v \in Version /\ Answers(v, list, Offers[rev][t], RequestOf[t])
<1> USE RepositoryAssumption
<1>1. Offers[rev][t] \in Seq(AVersion)
  OBVIOUS
<1>2. RequestOf[t].admits \subseteq Nat \ {0}
  BY DEF ARequest
<1>3. Answers(v, list, Offers[rev][t], RequestOf[t])
  BY <1>1, <1>2, PickAnswers
<1>4. v \in Range(Offers[rev][t])
  BY <1>3 DEF Answers
<1>5. v \in AVersion
  BY <1>1, <1>4 DEF Range
<1>6. v \in Version
  BY <1>4 DEF Version
<1> QED BY <1>3, <1>5, <1>6

LEMMA VClientStep ==
  ASSUME VInv, NEW t \in Thread, GetChartVersion(t) \/ AskForChart(t) \/ DownloadChart(t)
  PROVE  VInv'
<1> USE RepositoryAssumption
<1>k. Known(t, at[t]) /\ at \in [Thread -> Holding \cup {"none", "report", "done", "error"}]
  BY DEF VInv
<1>1. CASE HasIndex(t) \/ HasFile(t) \/ AskForIndex(t) \/ DownloadIndex(t)
  <2>1. UNCHANGED <<index, picked>>
    BY <1>1 DEF HasIndex, HasFile, AskForIndex, DownloadIndex, repoVars, client
  <2>2. at[t] \in IndexSteps
    BY <1>1 DEF HasIndex, HasFile, AskForIndex, DownloadIndex, IndexSteps
  <2>3. \E there \in IndexSteps \cup {"failed"} : Goto(t, there)
    BY <1>1 DEF HasIndex, HasFile, AskForIndex, DownloadIndex, IndexSteps
  <2>4. \A there \in IndexSteps \cup {"failed"} :
           Known(t, there) /\ there \in Holding \cup {"none", "report", "done", "error"}
    BY <1>k, <2>2 DEF Known, IndexSteps, Holding, RepoSteps
  <2> QED BY <2>1, <2>3, <2>4, VMoves
<1>2. CASE CacheIndex(t) \/ LoadFromPath(t)
  <2>1. UNCHANGED picked /\ at[t] \in IndexSteps
    BY <1>2 DEF CacheIndex, LoadFromPath, IndexSteps
  <2>2. index' \in [Repo -> DOMAIN Offers \cup {NoIndex}]
    <3>1. CASE CacheIndex(t)
      BY <3>1 DEF CacheIndex, VInv
    <3>2. CASE LoadFromPath(t)
      <4> DEFINE loaded == IndexFromFile(Content(RepoOf[t]))
      <4>1. index' = IF loaded = NoIndex THEN index ELSE [index EXCEPT ![RepoOf[t]] = loaded]
        BY <3>2 DEF LoadFromPath
      <4>2. loaded \in DOMAIN Offers \cup {NoIndex}
        BY DEF IndexFromFile
      <4> HIDE DEF loaded
      <4> QED BY <4>1, <4>2 DEF VInv
    <3> QED BY <1>2, <3>1, <3>2
  <2>3. \E there \in IndexSteps \cup {"failed"} : Goto(t, there)
    BY <1>2 DEF CacheIndex, LoadFromPath, IndexSteps
  <2>4. \A there \in IndexSteps \cup {"failed"} :
           Known(t, there) /\ there \in Holding \cup {"none", "report", "done", "error"}
    BY <1>k, <2>1 DEF Known, IndexSteps, Holding, RepoSteps
  <2>5. /\ at' \in [Thread -> Holding \cup {"none", "report", "done", "error"}]
        /\ \A u \in Thread : Known(u, at'[u])
    BY <1>k, <2>3, <2>4 DEF VInv, Goto
  <2>6. \A u \in Thread : Known(u, at[u])'
    BY <2>5 DEF Known
  <2> QED BY <2>1, <2>2, <2>5, <2>6 DEF VInv, LatestVersion
<1>3. CASE Lookup(t)
  <2> DEFINE found == index[RepoOf[t]]
             v == IF found = NoIndex THEN NoVersion ELSE FromIndex[found][t]
  <2>1. at[t] = "lookup" /\ PickVersion(t, v)
    BY <1>3 DEF Lookup
  <2>2. RepoOf[t] \in Repo /\ RepoOf[t] \notin OciRepo
    BY <1>k, <2>1 DEF Known, IndexSteps
  <2>3. UNCHANGED index
    BY <2>1 DEF PickVersion, client
  <2>4. v # NoVersion =>
          v \in AVersion /\ \E rev \in DOMAIN Offers : Answers(v, "index", Offers[rev][t], RequestOf[t])
    <3> SUFFICES ASSUME v # NoVersion
                 PROVE  v \in AVersion /\ Answers(v, "index", Offers[found][t], RequestOf[t])
                        /\ found \in DOMAIN Offers
      OBVIOUS
    <3>1. found \in DOMAIN Offers /\ found # NoIndex
      BY <2>2 DEF VInv
    <3>2. v = Pick("index", Offers[found][t], RequestOf[t])
      BY <3>1 DEF FromIndex, PickOfIndex
    <3> HIDE DEF v, found
    <3> QED BY <3>1, <3>2, OffersVersions
  <2> HIDE DEF v
  <2> QED BY <2>1, <2>2, <2>3, <2>4, VPicks
<1>4. CASE OciVersion(t)
  <2>1. at[t] = "tags"
    BY <1>4 DEF OciVersion
  <2>2. RepoOf[t] \in OciRepo
    BY <1>k, <2>1 DEF Known
  <2>3. ASSUME NEW v, PickVersion(t, v) PROVE UNCHANGED index
    BY <2>3 DEF PickVersion, client
  <2>4. CASE RequestOf[t].exact /\ PickVersion(t, Requested(t))
    <3>1. Requested(t) \in AVersion
      BY DEF Requested, AVersion, ARequest
    <3> QED BY <2>2, <2>3, <2>4, <3>1, VPicks
  <2>5. CASE PickVersion(t, NoVersion)
    BY <2>3, <2>5, VPicks
  <2>6. ASSUME NEW rev \in DOMAIN Offers, PickVersion(t, FromTags[rev][t]) PROVE VInv'
    <3> DEFINE v == FromTags[rev][t]
    <3>1. v = Pick("tags", Offers[rev][t], RequestOf[t])
      BY DEF FromTags, PickOfTags
    <3>2. PickVersion(t, v)
      BY <2>6
    <3> HIDE DEF v
    <3>3. v # NoVersion => v \in AVersion /\ Answers(v, "tags", Offers[rev][t], RequestOf[t])
      BY <3>1, OffersVersions
    <3>4. UNCHANGED index
      BY <2>3, <3>2
    <3> QED BY <2>2, <3>2, <3>3, <3>4, VPicks
  <2> QED BY <1>4, <2>4, <2>5, <2>6 DEF OciVersion
<1>5. CASE AskForChart(t) \/ DownloadChart(t)
  <2>1. UNCHANGED <<index, picked>>
    BY <1>5 DEF AskForChart, DownloadChart, client
  <2>2. \E there \in {"fetch", "fetched", "failed"} : Goto(t, there)
    BY <1>5 DEF AskForChart, DownloadChart
  <2>3. \A there \in {"fetch", "fetched", "failed"} :
           Known(t, there) /\ there \in Holding \cup {"none", "report", "done", "error"}
    BY DEF Known, IndexSteps, Holding, RepoSteps
  <2> QED BY <2>1, <2>2, <2>3, VMoves
<1> QED BY <1>1, <1>2, <1>3, <1>4, <1>5 DEF GetChartVersion

LEMMA VInvStep == VInv /\ [Next]_vars => VInv'
<1> SUFFICES ASSUME VInv, [Next]_vars PROVE VInv'
  OBVIOUS
<1> USE RepositoryAssumption, TransportAssumption
<1>i. index \in [Repo -> DOMAIN Offers \cup {NoIndex}]
  BY DEF VInv
<1>1. ASSUME UNCHANGED <<index, picked, at>> PROVE VInv'
  BY <1>i, <1>1, VUntouched
<1>2. CASE UNCHANGED vars \/ Build
  BY <1>1, <1>2 DEF vars, repoVars, client, Build, CheckReference, CreateCopy, Copy, LoadChart,
       EndDependencies, PackageChart, CopyPackage, Fail, Proceed, Done, Parts
<1>3. CASE Collect \/ Acquire \/ StopStarting \/ Wait \/ Cancel
  BY <1>1, <1>3 DEF repoVars, client, Collect, Acquire, StopStarting, Wait, Cancel
<1>4. ASSUME NEW t \in Thread, StartWorker(t) PROVE VInv'
  <2>1. UNCHANGED <<index, picked>>
    BY <1>4 DEF StartWorker, repoVars, client
  <2>2. Goto(t, IF RepoOf[t] = NoRepo THEN "local" ELSE "resolve")
    BY <1>4 DEF StartWorker, Goto
  <2>3. RepoOf[t] = NoRepo \/ RepoOf[t] \in Repo
    OBVIOUS
  <2>4. Known(t, "local") /\ (RepoOf[t] # NoRepo => Known(t, "resolve"))
    BY <2>3 DEF Known, IndexSteps
  <2> QED BY <2>1, <2>2, <2>4, VMoves DEF Holding
<1>5. ASSUME NEW t \in Thread, Worker(t) PROVE VInv'
  <2>1. CASE CallClient(t)
    BY <2>1, VClientStep DEF CallClient
  <2>2. CASE Resolve(t)
    <3>1. UNCHANGED <<index, picked>>
      BY <2>2 DEF Resolve, repoVars, client
    <3>2. RepoOf[t] \in Repo
      BY <2>2 DEF Resolve, VInv, Known
    <3>3. Known(t, "failRelease") /\ Known(t, IF RepoOf[t] \in OciRepo THEN "tags" ELSE "hasIndex")
      BY <3>2 DEF Known, IndexSteps
    <3>4. \/ Goto(t, "failRelease") \/ Goto(t, IF RepoOf[t] \in OciRepo THEN "tags" ELSE "hasIndex")
          \/ UNCHANGED at
      BY <2>2 DEF Resolve, Ask
    <3>5. CASE UNCHANGED at
      BY <1>1, <3>1, <3>5
    <3> QED BY <3>1, <3>3, <3>4, <3>5, VMoves DEF Holding, RepoSteps
  <2>3. CASE LoadArchive(t) \/ LoadLocal(t) \/ Add(t) \/ Release(t) \/ Report(t)
    <3>1. UNCHANGED <<index, picked>>
      BY <2>3 DEF LoadArchive, LoadLocal, Add, Release, Report, repoVars, client
    <3>2. \E there \in {"failRelease", "add", "release", "report", "done", "error"} : Goto(t, there)
      BY <2>3 DEF LoadArchive, LoadLocal, Add, Release, Report
    <3>3. \A there \in {"failRelease", "add", "release", "report", "done", "error"} :
             Known(t, there) /\ there \in Holding \cup {"none", "report", "done", "error"}
      BY DEF Known, IndexSteps, Holding
    <3> QED BY <3>1, <3>2, <3>3, VMoves
  <2> QED BY <1>5, <2>1, <2>2, <2>3 DEF Worker
<1>6. CASE CallMethod
  <2>1. PICK r \in Repo : Method(r)
    BY <1>6 DEF CallMethod
  <2>2. UNCHANGED <<at, picked>> /\ index' \in {index, [index EXCEPT ![r] = NoIndex]}
    BY <2>1 DEF Method, DigestBegins, DigestEnds, Invalidate, Clear, client
  <2> QED BY <1>i, <2>2, VUntouched
<1> QED BY <1>2, <1>3, <1>4, <1>5, <1>6 DEF Next, Finished, Loop

\* Whatever becomes of the index while a thread asks, the version it gets is
\* the latest that will do of all that some revision of an index, or a registry,
\* offered it, or just the one it asked for.
THEOREM VersionsAreLatest == Spec => []LatestVersion
<1>1. VInv => LatestVersion
  BY DEF VInv
<1> QED BY VInitially, VInvStep, <1>1, PTL DEF Spec
=============================================================================
