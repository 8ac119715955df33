----------------------------- MODULE MCPipeline -----------------------------
(***************************************************************************)
(* Instances of Pipeline for TLC: two paths that share a HelmRelease.      *)
(***************************************************************************)
EXTENDS Pipeline, TLC

CONSTANTS p1, p2, r1, r2

MCPath == {p1, p2}
MCRelease == {r1, r2}
MCDeclares == (p1 :> {r1, r2}) @@ (p2 :> {r2})

\* The tasks that may panic: all but the writer.
Builders == MCPath \cup MCRelease \cup {"collector"}
=============================================================================
