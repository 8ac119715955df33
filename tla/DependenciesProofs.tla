------------------------- MODULE DependenciesProofs -------------------------
(***************************************************************************)
(* A proof that a build adds to a chart all that is missing, or fails:     *)
(* CompleteOrFails, for any charts, any number of workers and slots, and   *)
(* any clients.  The invariant, DInv, says that a dependency is in the     *)
(* chart once, from when its worker has added it; that every missing one   *)
(* is waiting to be started or has a worker; and that a worker that has    *)
(* failed has told the group.                                              *)
(***************************************************************************)
EXTENDS LocalBuilder, TLAPS, FiniteSetTheorems, FunctionTheorems, WellFoundedInduction

Place == Holding \cup {"none", "report", "done", "error"}

\* What is in the chart is what the workers that have got so far have put there.
AddedOnce ==
  /\ added \in Seq(Thread)
  /\ \A i, j \in DOMAIN added : added[i] = added[j] => i = j
  /\ \A t \in Thread : t \in Range(added) <=> at[t] \in {"release", "done"}

\* Where the loop is tells which workers there can be.
Started ==
  /\ step \in {"check", "copy", "copying", "load"} => loop = "idle"
  /\ loop \in {"idle", "collect"} => \A t \in Thread : at[t] = "none"
  /\ loop \in {"start", "go", "wait"} =>
       /\ todo \subseteq Missing(chart)
       /\ \A t \in Thread : at[t] # "none" <=> t \in Missing(chart) \ todo
  /\ loop = "wait" => err \/ todo = {}
  /\ loop = "over" => \A t \in Thread : at[t] \in {"none", "done", "error"}

\* What the build returns, and when.
Returned ==
  /\ built # "none" => loop = "over"
  /\ built = "ok" => Range(added) = Missing(chart)
  /\ \A t \in Thread : at[t] = "error" => err

DInv == chart \in Charts /\ at \in [Thread -> Place] /\ AddedOnce /\ Started /\ Returned

-----------------------------------------------------------------------------
(***************************************************************************)
(* What is missing.                                                        *)
(***************************************************************************)
\* What is missing are dependencies of the chart, with as many names.
LEMMA MissingNames ==
  ASSUME NEW c \in Charts
  PROVE  /\ Missing(c) \subseteq Thread
         /\ {KeyOf[t] : t \in Missing(c)} \cap c.vendored = {}
         /\ \A s, t \in Missing(c) : KeyOf[s] = KeyOf[t] => s = t
<1>1. c.required \in Seq(Thread)
  BY DependenciesAssumption
<1>2. CASE Cardinality(c.vendored) = Len(c.required)
  BY <1>2 DEF Missing
<1>3. CASE Cardinality(c.vendored) # Len(c.required)
  <2>1. \A t \in Missing(c) : \E i \in DOMAIN c.required :
           /\ t = c.required[i] /\ KeyOf[t] \notin c.vendored
           /\ \A k \in DOMAIN c.required : k > i => KeyOf[c.required[k]] # KeyOf[t]
    BY <1>3 DEF Missing
  <2>2. \A i, j \in DOMAIN c.required : i > j \/ j > i \/ i = j
    BY <1>1
  <2> QED BY <1>1, <2>1, <2>2
<1> QED BY <1>2, <1>3

\* Unless the counts agree, every name that is not vendored is missing: that
\* of its last dependency.
LEMMA MissingCovers ==
  ASSUME NEW c \in Charts, Cardinality(c.vendored) # Len(c.required),
         NEW t \in Required(c), KeyOf[t] \notin c.vendored
  PROVE  \E s \in Missing(c) : KeyOf[s] = KeyOf[t]
<1>1. c.required \in Seq(Thread) /\ Len(c.required) \in Nat
      /\ DOMAIN c.required = 1..Len(c.required)
  BY DependenciesAssumption
<1> DEFINE n == Len(c.required)
           Same(i) == i \in 1..n /\ KeyOf[c.required[i]] = KeyOf[t]
           FromEnd == {m \in Nat : Same(n - m)}
<1>2. PICK i \in 1..n : t = c.required[i]
  BY <1>1 DEF Required
<1>3. n - i \in FromEnd
  BY <1>1, <1>2
<1>4. PICK m \in FromEnd : \A l \in FromEnd : ~(<<l, m>> \in OpToRel(<, Nat))
  <2>1. FromEnd \subseteq Nat /\ FromEnd # {}
    BY <1>3
  <2> HIDE DEF FromEnd
  <2> QED BY <2>1, NatLessThanWellFounded, WFMin
<1>5. \A l \in FromEnd : ~(l < m)
  BY <1>4 DEF OpToRel
<1>6. Same(n - m)
  OBVIOUS
<1>7. \A k \in 1..n : k > n - m => KeyOf[c.required[k]] # KeyOf[t]
  <2> SUFFICES ASSUME NEW k \in 1..n, k > n - m, KeyOf[c.required[k]] = KeyOf[t] PROVE FALSE
    OBVIOUS
  <2>1. n - k \in Nat /\ n - (n - k) = k /\ n - k < m
    BY <1>1
  <2>2. n - k \in FromEnd
    BY <2>1
  <2> QED BY <1>5, <2>1, <2>2
<1>8. c.required[n - m] \in Missing(c)
  BY <1>1, <1>6, <1>7 DEF Missing
<1> QED BY <1>6, <1>8

\* A list without repetitions is as long as the set of what is in it.
LEMMA CountList ==
  ASSUME NEW S, NEW s \in Seq(S), \A i, j \in DOMAIN s : s[i] = s[j] => i = j
  PROVE  Cardinality(Range(s)) = Len(s) /\ IsFiniteSet(Range(s))
<1>1. s \in [1..Len(s) -> Range(s)] /\ Len(s) \in Nat /\ DOMAIN s = 1..Len(s)
  BY DEF Range
<1>2. \A x \in Range(s) : \E i \in 1..Len(s) : s[i] = x
  BY <1>1 DEF Range
<1>3. s \in Bijection(1..Len(s), Range(s))
  BY <1>1, <1>2, Fun_IsBij
<1>4. IsFiniteSet(1..Len(s)) /\ Cardinality(1..Len(s)) = Len(s)
  <2>1. ASSUME NEW n \in Nat PROVE IsFiniteSet(1..n) /\ Cardinality(1..n) = n
    BY FS_Interval
  <2> QED BY <1>1, <2>1
<1> QED BY <1>3, <1>4, FS_Bijection DEF ExistsBijection

\* Names that differ are as many as what they are the names of.
LEMMA CountNames ==
  ASSUME NEW S, IsFiniteSet(S), \A s, t \in S : KeyOf[s] = KeyOf[t] => s = t
  PROVE  Cardinality({KeyOf[t] : t \in S}) = Cardinality(S)
<1> DEFINE names == {KeyOf[t] : t \in S}
           name == [t \in S |-> KeyOf[t]]
<1>1. name \in [S -> names]
  OBVIOUS
<1>2. \A s, t \in S : name[s] = name[t] => s = t
  OBVIOUS
<1>3. \A k \in names : \E t \in S : name[t] = k
  OBVIOUS
<1> HIDE DEF name, names
<1>4. name \in Bijection(S, names)
  BY <1>1, <1>2, <1>3, Fun_IsBij
<1>5. Cardinality(names) = Cardinality(S)
  BY <1>4, FS_Bijection DEF ExistsBijection
<1> QED BY <1>5 DEF names

\* So a chart to which all that is missing has been added once is complete.
LEMMA AllAddedIsComplete ==
  ASSUME DInv PROVE CompleteOrFails
<1> SUFFICES ASSUME built = "ok" PROVE CompleteOrFails
  BY DEF CompleteOrFails
<1> DEFINE names == {KeyOf[t] : t \in Range(added)}
<1>1. Range(added) = Missing(chart) /\ chart \in Charts
  BY DEF DInv, Returned
<1>2. Cardinality(Range(added)) = Len(added) /\ IsFiniteSet(Range(added))
  BY CountList DEF DInv, AddedOnce
<1>3. Cardinality(names) = Cardinality(Range(added))
  BY <1>1, <1>2, MissingNames, CountNames
<1>4. names \cap chart.vendored = {}
  BY <1>1, MissingNames
<1>5. ASSUME Cardinality(chart.vendored) # Len(chart.required)
      PROVE  {KeyOf[t] : t \in Required(chart)} \subseteq chart.vendored \cup names
  BY <1>1, <1>5, MissingCovers
<1> QED BY <1>1, <1>2, <1>3, <1>4, <1>5 DEF CompleteOrFails

-----------------------------------------------------------------------------
(***************************************************************************)
(* The invariant.                                                          *)
(***************************************************************************)
LEMMA DInitially == Init => DInv
<1> SUFFICES ASSUME Init PROVE DInv
  OBVIOUS
<1>1. given \in Situations /\ Situation(given)
  BY LocalAssumption DEF Init
<1>2. chart \in Charts
  BY <1>1 DEF Init, DepInit, Situation
<1> QED
  BY <1>2 DEF Init, DepInit, DInv, AddedOnce, Started, Returned, Place, Range

\* A worker that moves on, and neither adds a chart nor fails.
LEMMA WorkerMoves ==
  ASSUME DInv, NEW t \in Thread, at[t] # "none",
         NEW there \in Place \ {"none", "error"}, at' = [at EXCEPT ![t] = there],
         at[t] \in {"release", "done"} <=> there \in {"release", "done"},
         loop = "over" => there = "done",
         UNCHANGED <<chart, loop, todo, added, err, built, step>>
  PROVE  DInv'
<1>1. AddedOnce'
  BY DEF DInv, AddedOnce
<1>2. Started'
  BY DEF DInv, Started, Missing
<1>3. Returned'
  BY DEF DInv, Returned, Missing
<1> QED BY <1>1, <1>2, <1>3 DEF DInv

LEMMA WorkerStep ==
  ASSUME DInv, NEW t \in Thread, Worker(t), UNCHANGED local PROVE DInv'
<1>0. at \in [Thread -> Place] /\ step' = step
  BY DEF DInv, local
<1>1. ASSUME UNCHANGED <<chart, at, loop, todo, added, err, built>> PROVE DInv'
  BY <1>0, <1>1 DEF DInv, AddedOnce, Started, Returned, Missing
<1>2. ASSUME at[t] \notin {"none", "done", "error"} PROVE loop \notin {"over", "idle", "collect"}
  BY <1>2 DEF DInv, Started
<1>3. CASE CallClient(t)
  <2>1. UNCHANGED <<chart, loop, todo, added, err, built>>
    BY <1>3 DEF CallClient, depVars, group
  <2>2. at[t] \in RepoSteps /\ \E there \in RepoSteps : at' = [at EXCEPT ![t] = there]
    <3> USE DEF Goto, RepoSteps
    <3>1. CASE HasIndex(t) \/ HasFile(t) \/ AskForIndex(t)
      BY <3>1 DEF HasIndex, HasFile, AskForIndex
    <3>2. CASE DownloadIndex(t) \/ CacheIndex(t) \/ LoadFromPath(t)
      BY <3>2 DEF DownloadIndex, CacheIndex, LoadFromPath
    <3>3. CASE Lookup(t) \/ OciVersion(t)
      BY <3>3 DEF Lookup, OciVersion, PickVersion
    <3>4. CASE AskForChart(t) \/ DownloadChart(t)
      BY <3>4 DEF AskForChart, DownloadChart
    <3> QED BY <1>3, <3>1, <3>2, <3>3, <3>4 DEF CallClient, GetChartVersion
  <2>3. PICK there \in RepoSteps : at' = [at EXCEPT ![t] = there]
    BY <2>2
  <2>4. \A x \in RepoSteps : x \in Place \ {"none", "error"} /\ x \notin {"release", "done"}
    BY DEF RepoSteps, Place, Holding
  <2>5. at[t] \notin {"none", "done", "error", "release"} /\ loop # "over"
    BY <1>2, <2>2 DEF RepoSteps
  <2> QED BY <1>0, <2>1, <2>3, <2>4, <2>5, WorkerMoves
<1>4. CASE Resolve(t) \/ LoadArchive(t) \/ LoadLocal(t)
  <2>1. UNCHANGED <<chart, loop, todo, added, err, built>>
    BY <1>4 DEF Resolve, LoadArchive, LoadLocal, depVars, group
  <2>2. at[t] \in {"resolve", "fetched", "failed", "local"}
    BY <1>4 DEF Resolve, LoadArchive, LoadLocal
  <2>3. \/ UNCHANGED at
        \/ \E there \in {"failRelease", "tags", "hasIndex", "add"} : at' = [at EXCEPT ![t] = there]
    BY <1>4 DEF Resolve, LoadArchive, LoadLocal, Ask, Goto
  <2> QED BY <1>0, <1>1, <1>2, <2>1, <2>2, <2>3, WorkerMoves DEF Place, Holding, RepoSteps
<1>5. CASE Release(t)
  <2>1. UNCHANGED <<chart, loop, todo, added, err, built>>
    BY <1>5 DEF Release, depVars, group
  <2> QED BY <1>0, <1>2, <1>5, <2>1, WorkerMoves DEF Release, Goto, Place
<1>6. CASE Report(t)
  <2>1. /\ at[t] = "report" /\ at' = [at EXCEPT ![t] = "error"] /\ err' = TRUE
        /\ UNCHANGED <<chart, loop, todo, added, built>>
    BY <1>6 DEF Report, Goto
  <2>2. AddedOnce'
    BY <1>0, <2>1 DEF DInv, AddedOnce
  <2>3. Started' /\ Returned'
    BY <1>0, <1>2, <2>1 DEF DInv, Started, Returned, Missing
  <2> QED BY <1>0, <2>1, <2>2, <2>3 DEF DInv, Place
<1>7. CASE Add(t)
  <2>1. /\ at[t] = "add" /\ at' = [at EXCEPT ![t] = "release"] /\ added' = Append(added, t)
        /\ UNCHANGED <<chart, loop, todo, err, built>>
    BY <1>7 DEF Add, Goto, group
  <2>2. t \notin Range(added) /\ added \in Seq(Thread)
    BY <2>1 DEF DInv, AddedOnce
  <2>3. Range(added') = Range(added) \cup {t}
    BY <2>1, <2>2 DEF Range
  <2>4. \A i, j \in DOMAIN added' : added'[i] = added'[j] => i = j
    BY <2>1, <2>2 DEF DInv, AddedOnce, Range
  <2>5. AddedOnce'
    BY <1>0, <2>1, <2>2, <2>3, <2>4 DEF DInv, AddedOnce
  <2>6. loop \notin {"over", "idle", "collect"}
    BY <1>2, <2>1
  <2>7. Started' /\ Returned'
    BY <1>0, <2>1, <2>6 DEF DInv, Started, Returned, Missing
  <2> QED BY <1>0, <2>1, <2>5, <2>7 DEF DInv, Place, Holding
<1> QED BY <1>3, <1>4, <1>5, <1>6, <1>7 DEF Worker

LEMMA LoopStep ==
  ASSUME DInv, Loop, UNCHANGED local PROVE DInv'
<1>0. at \in [Thread -> Place] /\ step' = step /\ chart \in Charts
  BY DEF DInv, local
<1>1. CASE Collect
  <2>1. added = <<>> \/ \A t \in Thread : t \notin Range(added)
    BY <1>1 DEF Collect, DInv, AddedOnce, Started
  <2>2. Range(added) = {}
    BY <2>1 DEF DInv, AddedOnce, Range
  <2>3. Missing(chart) \subseteq Thread
    BY <1>0, MissingNames
  <2>4. AddedOnce' /\ Started'
    BY <1>0, <1>1, <2>3 DEF Collect, DInv, AddedOnce, Started, Missing
  <2>5. Returned'
    BY <1>1, <2>2 DEF Collect, DInv, Returned, Missing
  <2> QED BY <1>0, <1>1, <2>4, <2>5 DEF Collect, DInv
<1>2. CASE Acquire \/ StopStarting
  BY <1>0, <1>2 DEF Acquire, StopStarting, DInv, AddedOnce, Started, Returned, Missing
<1>3. ASSUME NEW t \in Thread, StartWorker(t) PROVE DInv'
  <2>1. at[t] = "none" /\ \E there \in {"local", "resolve"} : at' = [at EXCEPT ![t] = there]
    BY <1>3 DEF StartWorker, DInv, Started
  <2>2. AddedOnce' /\ at' \in [Thread -> Place]
    BY <1>0, <1>3, <2>1 DEF StartWorker, DInv, AddedOnce, Place, Holding
  <2>3. Started'
    BY <1>0, <1>3, <2>1 DEF StartWorker, DInv, Started, Missing
  <2>4. Returned'
    BY <1>0, <1>3, <2>1 DEF StartWorker, DInv, Returned, Missing
  <2> QED BY <1>3, <2>2, <2>3, <2>4 DEF StartWorker, DInv
<1>4. CASE Wait
  <2>1. /\ loop = "wait" /\ loop' = "over" /\ built' = (IF err THEN "error" ELSE "ok")
        /\ \A t \in Thread : at[t] \in {"none", "done", "error"}
        /\ UNCHANGED <<at, chart, todo, added, err>>
    BY <1>4 DEF Wait
  <2>2. Missing(chart) \subseteq Thread
    BY <1>0, MissingNames
  <2>3. Range(added) \subseteq Thread
    BY DEF DInv, AddedOnce, Range
  <2>4. ASSUME ~err PROVE Range(added) = Missing(chart)
    <3>1. \A t \in Thread : t \in Missing(chart) <=> at[t] = "done"
      BY <2>1, <2>4 DEF DInv, Started, Returned
    <3> QED BY <2>1, <2>2, <2>3, <3>1 DEF DInv, AddedOnce
  <2>5. AddedOnce' /\ Started'
    BY <1>0, <2>1 DEF DInv, AddedOnce, Started
  <2>6. Returned'
    BY <2>1, <2>4 DEF DInv, Returned, Missing
  <2> QED BY <1>0, <2>1, <2>5, <2>6 DEF DInv
<1> QED BY <1>1, <1>2, <1>3, <1>4 DEF Loop

\* What the build does before and after touches none of this, but that it
\* starts the loop, once.
LEMMA BuildKeepsDInv ==
  ASSUME DInv, Build PROVE DInv'
<1>1. UNCHANGED <<at, todo, chart, added, err, built>>
  BY DEF Build, CheckReference, CreateCopy, Copy, LoadChart, EndDependencies, PackageChart,
         CopyPackage, Fail, Proceed, Done, Parts, depVars, group
<1>2. AddedOnce' /\ (chart \in Charts)' /\ (at \in [Thread -> Place])'
  BY <1>1 DEF DInv, AddedOnce
<1>3. CASE UNCHANGED loop /\ (step \in {"check", "copy"} \/ step' \notin {"check", "copy", "copying", "load"})
  BY <1>1, <1>2, <1>3 DEF DInv, Started, Returned, Missing
<1>4. CASE step = "load" /\ step' = "dependencies" /\ loop' = "collect"
  BY <1>1, <1>2, <1>4 DEF DInv, Started, Returned, Missing
<1>5. CASE LoadChart
  BY <1>3, <1>4, <1>5 DEF LoadChart, Fail, Proceed, Parts, depVars, group
<1>6. CASE CheckReference \/ CreateCopy \/ Copy \/ EndDependencies \/ PackageChart \/ CopyPackage
  <2>1. UNCHANGED loop
    BY <1>6 DEF CheckReference, CreateCopy, Copy, EndDependencies, PackageChart, CopyPackage,
                Fail, Proceed, Done, Parts, depVars, group
  <2>2. step \in {"check", "copy"} \/ step' \notin {"check", "copy", "copying", "load"}
    BY <1>6 DEF CheckReference, CreateCopy, Copy, EndDependencies, PackageChart, CopyPackage,
                Fail, Proceed, Done
  <2> QED BY <1>3, <2>1, <2>2
<1> QED BY <1>5, <1>6 DEF Build

LEMMA DInvStep == DInv /\ [Next]_vars => DInv'
<1> SUFFICES ASSUME DInv, [Next]_vars PROVE DInv'
  OBVIOUS
<1>1. ASSUME UNCHANGED <<chart, at, loop, todo, added, err, built, step>> PROVE DInv'
  BY <1>1 DEF DInv, AddedOnce, Started, Returned, Missing
<1>2. CASE UNCHANGED vars
  BY <1>1, <1>2 DEF vars, depVars, group, local
<1>3. CASE Cancel /\ UNCHANGED local
  BY <1>1, <1>3 DEF Cancel, local
<1>4. CASE CallMethod /\ UNCHANGED local
  BY <1>1, <1>4 DEF CallMethod, Method, DigestBegins, DigestEnds, Invalidate, Clear, depVars,
                    group, local
<1>5. CASE Next
  BY <1>2, <1>3, <1>4, <1>5, WorkerStep, LoopStep, BuildKeepsDInv DEF Next, Finished
<1> QED BY <1>2, <1>5

\* A build of the dependencies that returns no error has added every missing
\* chart, once, under a name that was not there, whichever workers failed or
\* were refused a slot on the way; so the chart is complete then.
THEOREM BuildsAllOrFails == Spec => []CompleteOrFails
<1>1. Spec => []DInv
  BY DInitially, DInvStep, PTL DEF Spec
<1> QED BY <1>1, AllAddedIsComplete, PTL
=============================================================================
