-------------------------- MODULE ChartRepository --------------------------
(***************************************************************************)
(* The clients of chart repositories, internal/helm/repository: those of   *)
(* HTTP repositories (chart_repository.go), with an index that is          *)
(* downloaded to a temporary file, loaded from it, and looked up, and      *)
(* those of OCI registries (oci_chart_repository.go), which keep nothing.  *)
(*                                                                         *)
(* GetChartVersion is a sequence of critical sections of the client's      *)
(* RWMutex (HasIndex, HasFile, DownloadIndex, the end of CacheIndex,       *)
(* LoadFromPath, getChartVersion), each an action here; between any two of *)
(* them other threads run theirs, Digest, Invalidate and Clear included.   *)
(* DownloadIndex waits for its answer with the lock held for reading.      *)
(*                                                                         *)
(* The module is a part: Dependencies composes it with the threads that    *)
(* share clients.  What an index, or a list of tags, says is abstracted to *)
(* a revision of it and the versions this has of the chart of each thread. *)
(***************************************************************************)
EXTENDS TransportPool, ChartVersions, FiniteSets

CONSTANTS
  OciRepo,    \* the clients that are of OCI registries
  RequestOf,  \* the version each thread asks for
  File,       \* index files, temporary or given to the constructor
  NoFile,     \* no path, or nothing there
  Revision,   \* contents of an index file
  Offers,     \* the versions a revision has of each thread's chart;
              \* a revision outside its domain cannot be parsed
  NoIndex     \* nil

ASSUME RepositoryAssumption ==
  /\ NoFile \notin File
  /\ NoIndex \notin Revision
  /\ OciRepo \subseteq Repo
  /\ DOMAIN Offers \subseteq Revision
  /\ \A rev \in DOMAIN Offers : Offers[rev] \in [Thread -> Seq(AVersion)]
  /\ RequestOf \in [Thread -> ARequest]

VARIABLES
  rpath,    \* r.Path
  index,    \* r.Index
  cached,   \* r.cached
  digests,  \* r.digests: the content the stored digest is of, or NoIndex
  disk,     \* what each file holds
  at,       \* where each thread is
  tmp,      \* the temporary file of CacheIndex
  picked,   \* the version each thread has got, or NoVersion
  asking    \* the client whose Digest has seen a file, or NoRepo

client == <<rpath, index, cached, digests>>
repoVars == <<client, disk, tmp, picked, asking, shared, pool>>

RepoSteps ==
  {"hasIndex", "hasFile", "download", "index", "cache", "load", "lookup", "tags", "found", "fetch",
   "fetched", "failed"}

Version == UNION {UNION {Range(Offers[rev][t]) : t \in Thread} : rev \in DOMAIN Offers}

\* The version an OCI client makes of a request for just that one.
Requested(t) == [text |-> RequestOf[t].text, place |-> 0, created |-> 0]

RepoTypeOK ==
  /\ PoolTypeOK
  /\ rpath \in [Repo -> File \cup {NoFile}]
  /\ index \in [Repo -> Revision \cup {NoIndex}]
  /\ cached \in [Repo -> BOOLEAN]
  /\ digests \in [Repo -> Revision \cup {NoIndex}]
  /\ disk \in [File -> Revision \cup {NoFile}]
  /\ tmp \in [Thread -> File \cup {NoFile}]
  /\ \A t \in Thread : picked[t] \in Version \cup {NoVersion, Requested(t)}
  /\ asking \in Repo \cup {NoRepo}

\* A client may be given the path of an index file, which need not be there.
RepoInit(given) ==
  /\ PoolInit
  /\ shared = given.shared /\ rpath = given.rpath /\ disk = given.disk
  /\ index = [r \in Repo |-> NoIndex]
  /\ cached = [r \in Repo |-> FALSE]
  /\ digests = [r \in Repo |-> NoIndex]
  /\ tmp = [t \in Thread |-> NoFile]
  /\ picked = [t \in Thread |-> NoVersion]
  /\ asking = NoRepo

-----------------------------------------------------------------------------
Goto(t, there) == at' = [at EXCEPT ![t] = there]

\* The content of the file at a client's Path, NoFile if there is none.
Content(r) == IF rpath[r] = NoFile THEN NoFile ELSE disk[rpath[r]]

\* Lock: nobody reads, which is for a while only in DownloadIndex.
Unread(r) == \A t \in Thread : RepoOf[t] = r => at[t] # "index"

(***************************************************************************)
(* GetChartVersion of an HTTP client.  It ends at "found" or at "failed".  *)
(***************************************************************************)
HasIndex(t) ==
  /\ at[t] = "hasIndex"
  /\ Goto(t, IF index[RepoOf[t]] # NoIndex THEN "lookup" ELSE "hasFile")
  /\ UNCHANGED repoVars

HasFile(t) ==
  /\ at[t] = "hasFile"
  /\ Goto(t, IF Content(RepoOf[t]) # NoFile THEN "load" ELSE "download")
  /\ UNCHANGED repoVars

\* CacheIndex makes a temporary file nobody else has, and DownloadIndex asks
\* for the index.
AskForIndex(t) ==
  /\ at[t] = "download"
  /\ \/ /\ \E f \in File :
             /\ disk[f] = NoFile
             /\ \A r \in Repo : rpath[r] # f
             /\ \A u \in Thread : tmp[u] # f
             /\ tmp' = [tmp EXCEPT ![t] = f]
        /\ NewOrIdle(t)
        /\ Goto(t, "index")
     \/ Goto(t, "failed") /\ UNCHANGED <<tmp, pool>>
  /\ UNCHANGED <<client, disk, picked, asking, shared>>

\* The rest of DownloadIndex, up to the closing of the file; this is removed
\* when any of it fails.
DownloadIndex(t) ==
  /\ at[t] = "index"
  /\ \/ \E rev \in Revision :
          /\ disk' = [disk EXCEPT ![tmp[t]] = rev]
          /\ Goto(t, "cache")
          /\ UNCHANGED tmp
     \/ /\ tmp' = [tmp EXCEPT ![t] = NoFile]
        /\ Goto(t, "failed")
        /\ UNCHANGED disk
  /\ ReleaseTransport(t)
  /\ UNCHANGED <<client, picked, asking, shared>>

\* Mutants of CacheIndex: the index, or the digests, are those of the file
\* that was at Path before.
CacheKeepsIndex(t) ==
  /\ at[t] = "cache" /\ Unread(RepoOf[t])
  /\ rpath' = [rpath EXCEPT ![RepoOf[t]] = tmp[t]]
  /\ cached' = [cached EXCEPT ![RepoOf[t]] = TRUE]
  /\ digests' = [digests EXCEPT ![RepoOf[t]] = NoIndex]
  /\ tmp' = [tmp EXCEPT ![t] = NoFile]
  /\ Goto(t, "load")
  /\ UNCHANGED <<index, disk, picked, asking, shared, pool>>

CacheKeepsDigests(t) ==
  /\ at[t] = "cache" /\ Unread(RepoOf[t])
  /\ rpath' = [rpath EXCEPT ![RepoOf[t]] = tmp[t]]
  /\ index' = [index EXCEPT ![RepoOf[t]] = NoIndex]
  /\ cached' = [cached EXCEPT ![RepoOf[t]] = TRUE]
  /\ tmp' = [tmp EXCEPT ![t] = NoFile]
  /\ Goto(t, "load")
  /\ UNCHANGED <<digests, disk, picked, asking, shared, pool>>

\* The end of CacheIndex.  What was at Path before is not removed.
CacheIndex(t) ==
  /\ at[t] = "cache" /\ Unread(RepoOf[t])
  /\ rpath' = [rpath EXCEPT ![RepoOf[t]] = tmp[t]]
  /\ index' = [index EXCEPT ![RepoOf[t]] = NoIndex]
  /\ cached' = [cached EXCEPT ![RepoOf[t]] = TRUE]
  /\ digests' = [digests EXCEPT ![RepoOf[t]] = NoIndex]
  /\ tmp' = [tmp EXCEPT ![t] = NoFile]
  /\ Goto(t, "load")
  /\ UNCHANGED <<disk, picked, asking, shared, pool>>

\* What a file says; NoIndex if it is gone or is no index.
IndexFromFile(content) == IF content \in DOMAIN Offers THEN content ELSE NoIndex

LoadFromPath(t) ==
  LET loaded == IndexFromFile(Content(RepoOf[t])) IN
  /\ at[t] = "load" /\ Unread(RepoOf[t])
  /\ index' = IF loaded = NoIndex THEN index ELSE [index EXCEPT ![RepoOf[t]] = loaded]
  /\ Goto(t, IF loaded = NoIndex THEN "failed" ELSE "lookup")
  /\ UNCHANGED <<rpath, cached, digests, disk, tmp, picked, asking, shared, pool>>

\* What getChartVersion makes of each revision of an index, and of a list of
\* tags, for each thread.
FromIndex == [rev \in DOMAIN Offers |-> [t \in Thread |-> PickOfIndex(Offers[rev][t], RequestOf[t])]]

FromTags == [rev \in DOMAIN Offers |-> [t \in Thread |-> PickOfTags(Offers[rev][t], RequestOf[t])]]

\* What a lookup comes to.
PickVersion(t, v) ==
  /\ picked' = [picked EXCEPT ![t] = v]
  /\ Goto(t, IF v = NoVersion THEN "failed" ELSE "found")
  /\ UNCHANGED <<client, disk, tmp, asking, shared, pool>>

\* getChartVersion: ErrNoChartIndex if the index is gone again.
Lookup(t) ==
  LET found == index[RepoOf[t]] IN
  /\ at[t] = "lookup"
  /\ PickVersion(t, IF found = NoIndex THEN NoVersion ELSE FromIndex[found][t])

(***************************************************************************)
(* GetChartVersion of an OCI client: what is a version itself is not       *)
(* looked for; for anything else the registry has a list of tags, or an    *)
(* error.                                                                  *)
(***************************************************************************)
OciVersion(t) ==
  /\ at[t] = "tags"
  /\ \/ RequestOf[t].exact /\ PickVersion(t, Requested(t))
     \/ ~RequestOf[t].exact /\ PickVersion(t, NoVersion)
     \/ /\ ~RequestOf[t].exact
        /\ \E rev \in DOMAIN Offers : PickVersion(t, FromTags[rev][t])

GetChartVersion(t) ==
  \/ HasIndex(t) \/ HasFile(t) \/ AskForIndex(t) \/ DownloadIndex(t) \/ CacheIndex(t)
  \/ LoadFromPath(t) \/ Lookup(t) \/ OciVersion(t)

(***************************************************************************)
(* DownloadChart, the same for both; its caller loads what it has got.     *)
(***************************************************************************)
AskForChart(t) ==
  /\ at[t] = "found"
  /\ \/ NewOrIdle(t) /\ Goto(t, "fetch")
     \/ Goto(t, "failed") /\ UNCHANGED pool
  /\ UNCHANGED <<client, disk, tmp, picked, asking, shared>>

DownloadChart(t) ==
  /\ at[t] = "fetch"
  /\ Goto(t, "fetched") \/ Goto(t, "failed")
  /\ ReleaseTransport(t)
  /\ UNCHANGED <<client, disk, tmp, picked, asking, shared>>

(***************************************************************************)
(* The other methods, called by anybody at any time.                       *)
(***************************************************************************)
\* Digest looks for the file first, and computes what is not stored under
\* the lock, from whatever is at Path then.
DigestBegins(r) ==
  /\ asking = NoRepo
  /\ Content(r) # NoFile
  /\ asking' = r
  /\ UNCHANGED <<client, disk, tmp, picked, shared, pool, at>>

DigestEnds(r) ==
  /\ asking = r /\ Unread(r)
  /\ digests' = [digests EXCEPT ![r] =
                   IF @ = NoIndex /\ Content(r) # NoFile THEN Content(r) ELSE @]
  /\ asking' = NoRepo
  /\ UNCHANGED <<rpath, index, cached, disk, tmp, picked, shared, pool, at>>

Invalidate(r) ==
  /\ Unread(r)
  /\ digests' = [digests EXCEPT ![r] = NoIndex]
  /\ UNCHANGED <<rpath, index, cached, disk, tmp, picked, asking, shared, pool, at>>

\* Clear removes the file if it is the client's own; if that fails it
\* returns with the index gone and the rest as it was.
Clear(r) ==
  /\ Unread(r)
  /\ index' = [index EXCEPT ![r] = NoIndex]
  /\ \/ /\ cached[r] /\ Content(r) # NoFile
        /\ disk' = [disk EXCEPT ![rpath[r]] = NoFile]
        /\ rpath' = [rpath EXCEPT ![r] = NoFile]
        /\ cached' = [cached EXCEPT ![r] = FALSE]
        /\ digests' = [digests EXCEPT ![r] = NoIndex]
     \/ /\ ~cached[r]
        /\ digests' = [digests EXCEPT ![r] = NoIndex]
        /\ UNCHANGED <<disk, rpath, cached>>
     \/ /\ cached[r]
        /\ UNCHANGED <<disk, rpath, cached, digests>>
  /\ UNCHANGED <<tmp, picked, asking, shared, pool, at>>

Method(r) == DigestBegins(r) \/ DigestEnds(r) \/ Invalidate(r) \/ Clear(r)

-----------------------------------------------------------------------------
\* The index is that of the file at Path, which other threads replace: no
\* lookup is answered from an index whose file has been superseded.
IndexOfTheFile ==
  \A r \in Repo : index[r] # NoIndex => index[r] = Content(r)

\* A stored digest is that of the file at Path.
DigestOfTheFile ==
  \A r \in Repo : digests[r] # NoIndex => digests[r] = Content(r)

\* A version that is not just the one asked for is the latest that will do,
\* of all that an index or a registry had; of equal ones in an index the one
\* created last.
LatestVersion ==
  \A t \in Thread : picked[t] # NoVersion /\ ~(RepoOf[t] \in OciRepo /\ RequestOf[t].exact) =>
    LET list == IF RepoOf[t] \in OciRepo THEN "tags" ELSE "index" IN
    \E rev \in DOMAIN Offers : Answers(picked[t], list, Offers[rev][t], RequestOf[t])
=============================================================================
