----------------------------- MODULE MCKustomize -----------------------------
(***************************************************************************)
(* Instances of Kustomize for TLC: a directory root with subdirectories    *)
(* left, which has a subdirectory leaf, and right; and the temporary       *)
(* directory of a path that is a file.                                     *)
(***************************************************************************)
EXTENDS Kustomize, TLC

CONSTANTS t1, t2, root, left, leaf, right, tmp

MCParent == (root :> NoDir) @@ (left :> root) @@ (leaf :> left) @@ (right :> root)
              @@ (tmp :> NoDir)

\* t1 builds the whole tree, or what is on the left of it; t2 the same path,
\* one inside it, or one beside it.
Nestings == {(t1 :> root) @@ (t2 :> t) : t \in {root, left, leaf}}
Siblings == {(t1 :> left) @@ (t2 :> right)}
FileAndRoot == {(t1 :> root) @@ (t2 :> tmp)}
AnyPaths == Nestings \cup Siblings \cup FileAndRoot

\* The user has no kustomization, a kustomization.yaml on the left or in
\* right, or a kustomization.yml in leaf; leaf may have no manifest.
SomeTrees ==
  {[yaml |-> y, other |-> o, files |-> f] :
     y \in {{}, {right}, {left}}, o \in {{}, {leaf}}, f \in {Dir, Dir \ {leaf}}}
Bare == {[yaml |-> {}, other |-> {}, files |-> Dir]}
=============================================================================
