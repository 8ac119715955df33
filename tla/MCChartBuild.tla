---------------------------- MODULE MCChartBuild ----------------------------
(***************************************************************************)
(* Instances of ChartBuild for TLC.  Process a builds three releases of    *)
(* the chart redis and one of nginx, of the same repository; process b     *)
(* builds another release of redis.  A run takes some of these releases.   *)
(***************************************************************************)
EXTENDS ChartBuild, TLC

CONSTANTS a, b, r1, r2, r3, r4, r5, redis, nginx, v1, v2

MCProcOf == [r \in Release |-> IF r = r4 THEN b ELSE a]
MCChartOf == [r \in Release |-> IF r = r3 THEN nginx ELSE redis]
OneChartOf == [r \in Release |-> redis]
MCRepoOf == [c \in Chart |-> "repo"]

\* All releases name the same values files; only r2 names some; r2 names
\* others than the rest.
SameValues == [r \in Release |-> v1]
OneHasValues == [r \in Release |-> IF r = r2 THEN v1 ELSE Plain]
OwnValues == [r \in Release |-> IF r = r2 THEN v1 ELSE v2]

Same == {SameValues}
SameOrOne == {SameValues, OneHasValues}
One == {OneHasValues}
Different == {OwnValues}
=============================================================================
