--------------------------- MODULE ChartVersions ---------------------------
(***************************************************************************)
(* Which of the versions of a chart answers a request: getChartVersion of  *)
(* internal/helm/repository/chart_repository.go, on the entries of an      *)
(* index, and getLastMatchingVersionOrConstraint of                        *)
(* oci_chart_repository.go, on the tags of a registry.                     *)
(*                                                                         *)
(* A version is a record of its text, its place in the order of semantic   *)
(* versions (0 if it is none; build metadata does not count), and when it  *)
(* was created.  A request is its text, the places its constraint admits   *)
(* (none if it is no constraint; a pre-release only if it names one), and  *)
(* whether it is a version itself.                                         *)
(***************************************************************************)
EXTENDS Naturals, Sequences, SequencesExt

CONSTANT NoVersion  \* an error

AVersion == [text : STRING, place : Nat, created : Nat]

ARequest == [text : STRING, admits : SUBSET (Nat \ {0}), exact : BOOLEAN]

\* Mutant of FirstOfIndex: the comparison is not reversed.
FirstOfIndexUnreversed(left, right) ==
  IF left.place # right.place THEN left.place < right.place
  ELSE left.created < right.created

\* The less function given to sort.SliceStable, "Reverse" of being lower or
\* older.  Of two equal versions each is less than the other.
FirstOfIndex(left, right) ==
  ~ IF left.place # right.place THEN left.place < right.place
    ELSE left.created < right.created

\* The less function of sort.Reverse(semver.Collection).
FirstOfTags(left, right) == right.place < left.place

\* Which list it is that is sorted: the entries of an index, or tags.
First(list, left, right) ==
  IF list = "index" THEN FirstOfIndex(left, right) ELSE FirstOfTags(left, right)

\* Insertion, from the right end, as the sort package does for slices of up to
\* 12 elements (Sort) or 20 (SliceStable); longer ones are not modelled.
Insert(list, sorted, v) ==
  LET passed == {n \in 0..Len(sorted) :
                   \A i \in 1..Len(sorted) : i > Len(sorted) - n => First(list, v, sorted[i])}
      at == Len(sorted) - (CHOOSE n \in passed : \A m \in passed : m <= n) + 1
  IN  InsertAt(sorted, at, v)

Admitted(v, request) == v.place # 0 /\ v.place \in request.admits

\* Those of a list that are admitted, sorted.
Sort(list, versions, request) ==
  FoldLeft(LAMBDA sorted, v : IF Admitted(v, request) THEN Insert(list, sorted, v) ELSE sorted,
           <<>>, versions)

\* The first one with the requested text, or else the first of the admitted
\* ones once they are sorted.
Pick(list, versions, request) ==
  LET exact == SelectInSeq(versions, LAMBDA v : request.text # "" /\ v.text = request.text)
      matched == Sort(list, versions, request)
  IN  CASE exact # 0 -> versions[exact]
        [] exact = 0 /\ matched # <<>> -> Head(matched)
        [] OTHER -> NoVersion

PickOfIndex(entries, request) == Pick("index", entries, request)

PickOfTags(tags, request) == Pick("tags", tags, request)

-----------------------------------------------------------------------------
\* The version asked for, or else the latest of those that will do; in an
\* index, of equal ones the last created.
Answers(v, list, versions, request) ==
  /\ v \in Range(versions)
  /\ \/ request.text # "" /\ v.text = request.text
     \/ /\ \A w \in Range(versions) : request.text = "" \/ w.text # request.text
        /\ v.place \in request.admits
        /\ \A w \in Range(versions) :
             w.place \in request.admits =>
               \/ w.place < v.place
               \/ w.place = v.place /\ (list = "index" => w.created <= v.created)
=============================================================================
