---------------------------- MODULE SecureLoader ----------------------------
(***************************************************************************)
(* How a chart is loaded from a directory that may hold links: Load of     *)
(* internal/helm/chart/secureloader, its walk, and its ignore rules.       *)
(*                                                                         *)
(* The walk follows links by name, so that one file is loaded under every  *)
(* name that leads to it, and a link to a directory above itself leads     *)
(* ever deeper.  Every name is first held against the ignore rules, then   *)
(* what it resolves to against the root directory.                         *)
(*                                                                         *)
(* Places of the file tree are numbered so that a directory comes before   *)
(* its entries, and the entries are in the order of their names.  The      *)
(* .helmignore of the chart is read before the walk and is not among the   *)
(* places.                                                                 *)
(***************************************************************************)
EXTENDS Naturals, Sequences, FiniteSets, SequencesExt

CONSTANTS
  Place,      \* the places of the file tree, numbered from 1
  Parent,     \* the directory of each place, 0 for the top of the tree
  NameOf,     \* its name there
  Root,       \* the directory that loading may not leave
  ChartPlace, \* the place of the chart in it
  Trees,      \* what may be at the places: [kind, target, closed], see Tree
  IgnoreFiles,\* what .helmignore may hold: sequences of lines,
              \* which are none when there is no such file
  DotFile,    \* the names that begin with a dot
  MaxLinks    \* how many links of one path the kernel follows

Kind == {"none", "dir", "file", "irregular", "big", "link"}

\* A place holds something only if its directory is one; a link leads to a
\* place, or to 0, which is nowhere; what is closed cannot be read.
Tree(t) ==
  /\ t.kind \in [Place -> Kind] /\ t.target \in [Place -> Place \cup {0}]
  /\ t.closed \subseteq Place
  /\ \A p \in Place : t.kind[p] # "none" /\ Parent[p] # 0 => t.kind[Parent[p]] = "dir"

ASSUME LoaderAssumption ==
  /\ IsFiniteSet(Place) /\ Place = 1..Cardinality(Place)
  /\ Parent \in [Place -> Place \cup {0}] /\ \A p \in Place : Parent[p] < p
  /\ Root \in Place /\ ChartPlace \in Place
  /\ \A t \in Trees : Tree(t) /\ t.kind[Root] = "dir"
  /\ MaxLinks \in Nat \ {0}

VARIABLES
  tree,     \* the file tree, which nobody changes
  aliased,  \* whether root is named by a path that has a link in it
  rules,    \* the lines of .helmignore
  todo,     \* what is still to be visited: names below the chart, the place
            \* they resolve to, and how many links they pass
  files,    \* what has been read: names and place
  status    \* where the load is, and its result

input == <<tree, aliased, rules>>
vars == <<input, todo, files, status>>

Names == {NameOf[p] : p \in Place}

Ends == {"loaded", "archive", "failed"}

TypeOK ==
  /\ tree \in Trees /\ aliased \in BOOLEAN /\ rules \in IgnoreFiles
  /\ \A i \in DOMAIN todo :
       todo[i].path \in Seq(Names) /\ todo[i].place \in Place /\ todo[i].links \in Nat
  /\ \A f \in files : f.path \in Seq(Names) /\ tree.kind[f.place] = "file"
  /\ status \in {"open", "rules", "walk"} \cup Ends

Init ==
  /\ tree \in Trees /\ aliased \in BOOLEAN /\ rules \in IgnoreFiles
  /\ todo = <<>> /\ files = {}
  /\ status = "open"

-----------------------------------------------------------------------------
(***************************************************************************)
(* The file tree.                                                          *)
(***************************************************************************)
Entries(p) == {q \in Place : Parent[q] = p /\ tree.kind[q] # "none"}

\* The i-th of them, in the order of their names.
Entry(p, i) == CHOOSE q \in Entries(p) : Cardinality({r \in Entries(p) : r <= q}) = i

Links == {p \in Place : tree.kind[p] = "link"}

\* Where a place leads through up to as many links as there are.
Leads(p) ==
  LET next == [q \in Place \cup {0} |-> IF q \in Links THEN tree.target[q] ELSE q]
      after[n \in 0..Cardinality(Links)] == IF n = 0 THEN p ELSE next[after[n - 1]]
  IN  after

\* filepath.EvalSymlinks: 0 for a link to nowhere, and for links in a circle.
EvalSymlinks(p) ==
  LET end == Leads(p)[Cardinality(Links)]
  IN  IF end # 0 /\ tree.kind[end] \notin {"none", "link"} THEN end ELSE 0

\* How many links the kernel follows there.
Hops(p) == Cardinality(Range(Leads(p)) \cap Links)

\* The places in root, at any depth.
InsideRoot ==
  LET below(ps) == ps \cup {p \in Place : Parent[p] \in ps}
      depth[n \in 0..Cardinality(Place)] == IF n = 0 THEN {Root} ELSE below(depth[n - 1])
  IN  depth[Cardinality(Place)]

(***************************************************************************)
(* Ignore rules.  A line is a comment, a pattern, or one that fails to     *)
(* parse.  A pattern without a slash is held against the last name of a    *)
(* path, any other against all of it; glob has what it matches.            *)
(***************************************************************************)
Patterns(lines) == {l \in Range(lines) : l.line = "pattern"}

ParseFails(lines) == \E l \in Range(lines) : l.line = "broken"

\* templates/.?*
Defaults ==
  [line |-> "pattern", negate |-> FALSE, mustDir |-> FALSE, base |-> FALSE,
   glob |-> {<<"templates", n>> : n \in DotFile}]

Matches(p, path) == IF p.base THEN path[Len(path)] \in p.glob ELSE path \in p.glob

\* Whether a pattern ends the evaluation; what it then says is always to ignore.
Decides(p, path, isDir) ==
  IF p.negate THEN (p.mustDir /\ ~isDir) \/ ~Matches(p, path)
  ELSE (p.mustDir => isDir) /\ Matches(p, path)

\* Ignore, as the walk calls it: the chart itself, whose path is empty, is not
\* ignored; a link is judged by what it resolves to.
Ignored(e) ==
  e.path # <<>> /\ \E p \in Patterns(rules) \cup {Defaults} :
      Decides(p, e.path, tree.kind[e.place] = "dir")

-----------------------------------------------------------------------------
(***************************************************************************)
(* Load.                                                                   *)
(***************************************************************************)
\* The chart path, joined to root with its links resolved below root: a
\* directory is walked, anything else is left to Helm's loader of archives.
Loader ==
  /\ status = "open"
  /\ status' = CASE tree.kind[ChartPlace] = "none" -> "failed"
                 [] tree.kind[ChartPlace] = "dir" -> "rules"
                 [] OTHER -> "archive"
  /\ UNCHANGED <<input, todo, files>>

\* The name the walk begins with.
TheChart == [path |-> <<>>, place |-> ChartPlace, links |-> 0]

\* secureLoadIgnoreRules; the walk begins with the chart itself.
LoadIgnoreRules ==
  /\ status = "rules"
  /\ \/ /\ ~ParseFails(rules)
        /\ status' = "walk"
        /\ todo' = <<TheChart>>
     \/ /\ ParseFails(rules)
        /\ status' = "failed"
        /\ UNCHANGED todo
  /\ UNCHANGED <<input, files>>

Fail == status' = "failed" /\ UNCHANGED <<input, todo, files>>

At(kinds) == status = "walk" /\ todo # <<>> /\ tree.kind[Head(todo).place] \in kinds

\* Mutants of FollowLink: what cannot be resolved is handed on, or tried again.
FollowAnyway ==
  /\ At({"link"})
  /\ todo' = <<[Head(todo) EXCEPT !.place = EvalSymlinks(@), !.links = @ + Hops(Head(todo).place)]>>
             \o Tail(todo)
  /\ UNCHANGED <<input, files, status>>

FollowForEver ==
  /\ At({"link"}) /\ EvalSymlinks(Head(todo).place) # 0
  /\ FollowAnyway

\* symwalk of a link: the name stays, the place is what it resolves to.  The
\* ignore rules do not come into it, so a link to nowhere fails the load.
FollowLink ==
  /\ At({"link"})
  /\ LET e == Head(todo)
         place == EvalSymlinks(e.place)
     IN  \/ /\ place # 0
            /\ todo' = <<[e EXCEPT !.place = place, !.links = @ + Hops(e.place)]>> \o Tail(todo)
            /\ UNCHANGED <<input, files, status>>
         \/ place = 0 /\ Fail

\* isSecureAbsolutePath.  What a link resolves to is named without links, and
\* does not begin with a name of root that has some.
Secure(e) == e.place \in InsideRoot /\ (aliased => e.links = 0)

\* The chart's own directory passes unseen.
Refused(e) == e.path # <<>> /\ ~Secure(e)

\* readDirNames and os.Lstat of each of them, in the order of the names; the
\* kernel refuses a path of too many links.  An error about the chart's own
\* directory is not looked at: there are no files then.
Readable(e) == e.links <= MaxLinks /\ e.place \notin tree.closed

ReadDir(e) ==
  \/ /\ Readable(e)
     /\ todo' = [i \in 1..Cardinality(Entries(e.place)) |->
                   LET p == Entry(e.place, i) IN
                   [path |-> Append(e.path, NameOf[p]), place |-> p, links |-> e.links]]
                \o Tail(todo)
     /\ UNCHANGED <<input, files, status>>
  \/ /\ ~Readable(e) /\ e.path = <<>>
     /\ todo' = Tail(todo)
     /\ UNCHANGED <<input, files, status>>
  \/ ~Readable(e) /\ e.path # <<>> /\ Fail

\* Mutant of VisitDir: filepath.SkipDir, returned for an ignored directory,
\* ends the walk of the directory that this one is in.
SkipRest ==
  /\ At({"dir"})
  /\ LET e == Head(todo) IN
     \/ /\ Ignored(e)
        /\ todo' = SelectSeq(todo, LAMBDA o : Len(o.path) # Len(e.path))
        /\ UNCHANGED <<input, files, status>>
     \/ ~Ignored(e) /\ ~Refused(e) /\ ReadDir(e)
     \/ ~Ignored(e) /\ Refused(e) /\ Fail

\* The walk function for a directory, and symwalk's descent into it.
VisitDir ==
  /\ At({"dir"})
  /\ LET e == Head(todo) IN
     \/ /\ Ignored(e)
        /\ todo' = Tail(todo)
        /\ UNCHANGED <<input, files, status>>
     \/ ~Ignored(e) /\ ~Refused(e) /\ ReadDir(e)
     \/ ~Ignored(e) /\ Refused(e) /\ Fail

\* Mutant of VisitFile: whether a file is fit is asked before the rules are.
CheckBeforeIgnore ==
  /\ At({"file", "irregular", "big"})
  /\ LET e == Head(todo)
         fit == Secure(e) /\ tree.kind[e.place] = "file" /\ e.place \notin tree.closed
     IN  \/ /\ fit
            /\ todo' = Tail(todo)
            /\ files' = IF Ignored(e) THEN files
                        ELSE files \cup {[path |-> e.path, place |-> e.place]}
            /\ UNCHANGED <<input, status>>
         \/ ~fit /\ Fail

\* The walk function for anything else: files that lie inside root, are
\* regular, not too big and readable are read.
VisitFile ==
  /\ At({"file", "irregular", "big"})
  /\ LET e == Head(todo)
         fit == Secure(e) /\ tree.kind[e.place] = "file" /\ e.place \notin tree.closed
     IN  \/ /\ Ignored(e)
            /\ todo' = Tail(todo)
            /\ UNCHANGED <<input, files, status>>
         \/ /\ ~Ignored(e) /\ fit
            /\ todo' = Tail(todo)
            /\ files' = files \cup {[path |-> e.path, place |-> e.place]}
            /\ UNCHANGED <<input, status>>
         \/ ~Ignored(e) /\ ~fit /\ Fail

\* loader.LoadFiles, Helm's: a chart has a Chart.yaml.
LoadFiles ==
  /\ status = "walk" /\ todo = <<>>
  /\ status' = IF \E f \in files : f.path = <<"Chart.yaml">> THEN "loaded" ELSE "failed"
  /\ UNCHANGED <<input, todo, files>>

SecureLoadDir == LoadIgnoreRules \/ FollowLink \/ VisitDir \/ VisitFile \/ LoadFiles

Load == Loader \/ SecureLoadDir

Finished == status \in Ends /\ UNCHANGED vars

Next == Load \/ Finished

Spec == Init /\ [][Next]_vars /\ WF_vars(Load)

-----------------------------------------------------------------------------
(***************************************************************************)
(* Properties.                                                             *)
(***************************************************************************)
\* The names right below one, their links resolved: the place is 0 where a
\* link leads nowhere.
Below(e) ==
  {[path |-> Append(e.path, NameOf[p]), place |-> EvalSymlinks(p), links |-> e.links + Hops(p)] :
     p \in Entries(e.place)}

Open(e) == e.place # 0 /\ tree.kind[e.place] = "dir" /\ Readable(e) /\ ~Ignored(e)

\* Every name that leads somewhere from the chart, through links too, but not
\* through an ignored directory.
Named ==
  LET bound == Cardinality(Place) * (MaxLinks + 2)
      more(es) == es \cup UNION {Below(e) : e \in {x \in es : Open(x)}}
      names[n \in 0..bound] == IF n = 0 THEN {TheChart} ELSE more(names[n - 1])
  IN  names[bound]

Wanted == {e \in Named : e.place # 0 /\ tree.kind[e.place] # "dir" /\ ~Ignored(e)}

\* A name the load stops at, although no rule keeps it from being loaded.
Unfit(e) ==
  LET kind == tree.kind[e.place] IN
  /\ ~Ignored(e)
  /\ \/ e.place \notin InsideRoot
     \/ aliased /\ e.links > 0
     \/ kind \in {"irregular", "big"}
     \/ e.place \in tree.closed
     \/ kind = "dir" /\ e.links > MaxLinks

\* The walk reads no file outside root, whatever links lead there, and a load
\* that succeeds has every file of the chart under each of its names, but those
\* that are ignored or lie in an ignored directory: skipping a directory, or a
\* link to one, skips nothing beside it.
LoadsTheChart ==
  /\ \A f \in files : f.place \in InsideRoot
  /\ status = "loaded" => files = {[path |-> e.path, place |-> e.place] : e \in Wanted}

\* A load fails for a name that is not ignored, for a link to nowhere (which
\* cannot be ignored), or because there is no chart: ignoring a path lets the
\* user "opt-out from including certain paths" that would fail it.
FailsForAReason ==
  status = "failed" =>
    \/ tree.kind[ChartPlace] = "none"
    \/ ParseFails(rules)
    \/ \A e \in Wanted : e.path # <<"Chart.yaml">>
    \/ \E e \in Named : e.place = 0
    \/ \E e \in Named : e.place # 0 /\ Unfit(e)

\* Every load ends, also in a tree whose links lead back up.
WalkEnds == <>(status \in Ends)
=============================================================================
