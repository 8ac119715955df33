--------------------------- MODULE MCLocalBuilder ---------------------------
(***************************************************************************)
(* Instances of LocalBuilder for TLC.  d1 and d2 are dependencies that     *)
(* have one HTTP repository, d3 and d4 an OCI registry, one is local.      *)
(***************************************************************************)
EXTENDS LocalBuilder, TLC

CONSTANTS d1, d2, d3, d4, neighbour, http, oci, f1, f2, f3, all, some, bad

MCRepoOf == (d1 :> http) @@ (d2 :> http) @@ (d3 :> oci) @@ (d4 :> oci) @@ (neighbour :> NoRepo)
MCKeyOf == (d1 :> "one") @@ (d2 :> "two") @@ (d3 :> "two") @@ (d4 :> "four") @@ (neighbour :> "three")

\* A version, its place, when it was created.  One differs from another by its
\* build metadata only; the last is none.
V(text, place, created) == [text |-> text, place |-> place, created |-> created]
V1 == V("1.0.0", 1, 2)
V2 == V("2.0.0", 2, 1)
V2Later == V("2.0.0+b", 2, 3)
VNext == V("3.0.0-rc", 3, 4)
VNone == V("latest", 0, 0)

\* Anything stable, and just one version.
AnyStable == [text |-> "*", admits |-> {1, 2}, exact |-> FALSE]
One == [text |-> "2.0.0", admits |-> {2}, exact |-> TRUE]

MCRequestOf ==
  (d1 :> AnyStable) @@ (d2 :> One) @@ (d3 :> AnyStable) @@ (d4 :> One) @@ (neighbour :> AnyStable)

MCThread == {d1, d2, d3, d4, neighbour}

MCOffers ==
  (all :> [t \in MCThread |-> <<V1, V2, VNext, V2Later, VNone>>])
  @@ (some :> [t \in MCThread |-> IF t = d2 THEN <<>> ELSE <<V2, V2Later, V1>>])

\* Nothing is vendored, or one of the two; or something else that makes the
\* counts agree.  One wants two of one name; the last, two of different clients.
Same == [vendored |-> {}, required |-> <<d1, d2>>]

Apart == [vendored |-> {}, required |-> <<d1, d3>>]

Counted == [vendored |-> {"other"}, required |-> <<neighbour>>]

MCCharts ==
  {Same, Counted, Apart,
   [vendored |-> {"one"}, required |-> <<d1, neighbour, d3>>],
   [vendored |-> {"three"}, required |-> <<d2, d3, d4>>]}

Absent == [r \in {http, oci} |-> "absent"]
Nothing == [f \in {f1, f2, f3} |-> NoFile]

\* A plain build of a chart, and what may be different about it.
Plain(c) ==
  [dir |-> TRUE, force |-> FALSE, manager |-> TRUE, slots |-> 2, far |-> FALSE, metadata |-> "none",
   valuesFiles |-> "none", cachedChart |-> NoArchive, before |-> NoArchive, chart |-> c,
   downloaders |-> Absent, shared |-> {}, rpath |-> [r \in {http, oci} |-> NoFile], disk |-> Nothing]

Whole(version) == [version |-> version, values |-> "own", charts |-> {"other"}]

MCSituations ==
  \* Every chart, with a client that is made on demand, or one that is known
  \* already and has the path of a file.
  {Plain(c) : c \in MCCharts}
  \cup {[Plain(c) EXCEPT !.downloaders[http] = "client", !.rpath[http] = f1, !.disk[f1] = content] :
          c \in MCCharts, content \in {NoFile, some, bad}}
  \* Clients whose downloads find their transport in one place, and a single
  \* slot, or no two dependencies of one of them.
  \cup {[Plain(c) EXCEPT !.slots = 1, !.shared = {http, oci}] : c \in MCCharts}
  \cup {[Plain(Apart) EXCEPT !.shared = {http, oci}]}
  \* Everything else, with nothing to add.
  \cup {[Plain(Counted) EXCEPT !.dir = dir, !.force = force, !.manager = manager, !.far = far,
                               !.metadata = metadata, !.valuesFiles = valuesFiles,
                               !.cachedChart = cachedChart, !.before = before] :
          dir \in BOOLEAN, force \in BOOLEAN, manager \in BOOLEAN, far \in BOOLEAN,
          metadata \in {"none", "fit", "unfit"}, valuesFiles \in {"none", "fit", "unfit"},
          cachedChart \in {NoArchive, Torn, Whole("plain"), Whole("meta"), Whole("other")},
          before \in {NoArchive, Whole("plain")}}
=============================================================================
