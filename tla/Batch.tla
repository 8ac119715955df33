-------------------------------- MODULE Batch --------------------------------
(***************************************************************************)
(* What Run promises of a batch of paths, whatever it runs at the same     *)
(* time: each path is built once; what the built ones declare makes one    *)
(* index; when it is complete it stays as it is, and each release in it,   *)
(* and no other, is built once; whatever is built is written once, in any  *)
(* order, or its writing fails.                                            *)
(*                                                                         *)
(* One thing may come in between: the batch is given up, for an error, and *)
(* from then on what has not been built need not be.                       *)
(***************************************************************************)
EXTENDS Naturals, Sequences

CONSTANTS Path, Release, Declares

VARIABLES
  stage,     \* whether paths or releases are built, or the batch is over
  result,    \* of each path and release: none, built or failed
  index,     \* the releases found
  gaveUp,    \* whether the batch has been given up
  output,    \* what has been written, in order
  unwritten  \* what could not be

vars == <<stage, result, index, gaveUp, output, unwritten>>

Init ==
  /\ stage = "paths" /\ gaveUp = FALSE
  /\ result = [i \in Path \cup Release |-> "none"]
  /\ index = {} /\ output = <<>> /\ unwritten = {}

Settle(i, to) ==
  /\ result[i] = "none" /\ to \in {"built", "failed"}
  /\ result' = [result EXCEPT ![i] = to]
  /\ UNCHANGED <<stage, index, gaveUp, output, unwritten>>

BuildPath(p, to) == stage = "paths" /\ Settle(p, to)

BuildRelease(r, to) == stage = "releases" /\ r \in index /\ Settle(r, to)

\* The releases of a path are found, or only some of them.
Collect(p) ==
  /\ stage = "paths" /\ result[p] = "built"
  /\ \/ index' = index \cup Declares[p] /\ UNCHANGED gaveUp
     \/ /\ \E some \in SUBSET Declares[p] : index' = index \cup some
        /\ gaveUp' = TRUE
  /\ UNCHANGED <<stage, result, output, unwritten>>

\* Every path has been built, or has failed, and all releases are found.
BeginReleases ==
  /\ stage = "paths"
  /\ ~gaveUp => \A p \in Path : \/ result[p] = "failed"
                                \/ result[p] = "built" /\ Declares[p] \subseteq index
  /\ stage' = "releases"
  /\ UNCHANGED <<result, index, gaveUp, output, unwritten>>

Written == {output[i] : i \in DOMAIN output} \cup unwritten

Write(i) ==
  /\ stage # "over" /\ result[i] = "built" /\ i \notin Written
  /\ \/ output' = Append(output, i) /\ UNCHANGED unwritten
     \/ unwritten' = unwritten \cup {i} /\ UNCHANGED output
  /\ UNCHANGED <<stage, result, index, gaveUp>>

GiveUp ==
  /\ stage # "over"
  /\ gaveUp' = TRUE
  /\ UNCHANGED <<stage, result, index, output, unwritten>>

\* Everything built has been written, and every release has been built, or failed.
End ==
  /\ stage = "releases"
  /\ \A i \in Path \cup Release : result[i] = "built" => i \in Written
  /\ ~gaveUp => \A r \in index : result[r] # "none"
  /\ stage' = "over"
  /\ UNCHANGED <<result, index, gaveUp, output, unwritten>>

Next ==
  \/ \E p \in Path : (\E to \in {"built", "failed"} : BuildPath(p, to)) \/ Collect(p)
  \/ \E r \in Release, to \in {"built", "failed"} : BuildRelease(r, to)
  \/ \E i \in Path \cup Release : Write(i)
  \/ BeginReleases \/ GiveUp \/ End

Spec == Init /\ [][Next]_vars
=============================================================================
