--------------------------- MODULE MCSecureLoader ---------------------------
(***************************************************************************)
(* Instances of SecureLoader for TLC: a chart with a templates directory   *)
(* and something called "link", beside a directory inside root and one     *)
(* outside of it.                                                          *)
(*                                                                         *)
(*   1 root    2 root/chart   3 root/shared   4 chart/Chart.yaml           *)
(*   5 chart/link   6 chart/templates   7 templates/.hidden                *)
(*   8 templates/page   9 shared/note   10 outside   11 outside/secret     *)
(***************************************************************************)
EXTENDS SecureLoader, TLC

MCPlace == 1..11
MCParent == <<0, 1, 1, 2, 2, 2, 6, 6, 3, 0, 10>>
MCNameOf == <<"root", "chart", "shared", "Chart.yaml", "link", "templates", ".hidden", "page",
              "note", "outside", "secret">>

\* A tree in which the places that vary are as given.
MCTree(chart, yaml, link, templates, page, to, closed) ==
  [kind |-> [<<"dir", chart, "dir", yaml, link, templates, "file", page, "file", "dir", "file">>
             EXCEPT ![4] = IF chart = "dir" THEN @ ELSE "none",
                    ![5] = IF chart = "dir" THEN @ ELSE "none",
                    ![6] = IF chart = "dir" THEN @ ELSE "none",
                    ![7] = IF chart = "dir" /\ templates = "dir" THEN @ ELSE "none",
                    ![8] = IF chart = "dir" /\ templates = "dir" THEN @ ELSE "none"],
   target |-> [p \in MCPlace |-> IF p = 5 THEN to.link ELSE IF p = 6 THEN 3 ELSE IF p = 8 THEN to.page ELSE 0],
   closed |-> closed]

\* link leads to the chart, to itself, to what is inside and outside root, to
\* the other link, or nowhere; page to the secret or back to link.
MCTrees ==
  {MCTree("dir", yaml, link, templates, page, [link |-> to, page |-> page_to], {}) :
     yaml \in {"file", "none"}, link \in {"link", "none"}, templates \in {"dir", "link"},
     page \in {"file", "irregular", "link"}, to \in {0, 2, 3, 5, 8, 9, 10, 11}, page_to \in {5, 11}}
  \cup {MCTree("dir", "file", "file", "dir", "big", [link |-> 0, page |-> 0], closed) :
          closed \in {{}, {4}, {6}, {2}}}
  \cup {MCTree(chart, "none", "none", "none", "none", [link |-> 0, page |-> 0], {}) :
          chart \in {"none", "file", "irregular"}}

Pattern(negate, mustDir, base, glob) ==
  [line |-> "pattern", negate |-> negate, mustDir |-> mustDir, base |-> base, glob |-> glob]

MCIgnoreFiles ==
  {<<>>,
   <<Pattern(FALSE, FALSE, TRUE, {"link"})>>,
   <<[line |-> "comment"], Pattern(FALSE, TRUE, TRUE, {"link", "templates"})>>,
   <<Pattern(FALSE, FALSE, FALSE, {<<"templates", "page">>, <<"link", "note">>})>>,
   <<Pattern(TRUE, FALSE, TRUE, {"Chart.yaml", "link", "note"})>>,
   <<Pattern(TRUE, TRUE, TRUE, {"templates"}), Pattern(FALSE, FALSE, TRUE, {"page"})>>,
   <<Pattern(FALSE, FALSE, TRUE, {"link"}), [line |-> "broken"]>>}
=============================================================================
