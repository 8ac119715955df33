---------------------------- MODULE MCValueCache ----------------------------
(***************************************************************************)
(* Instances of ValueCache for TLC: three callers, so that one builds, one *)
(* waits and one interferes.  A run needs no more channels than there are  *)
(* callers and keys, since only those refer to one.                        *)
(***************************************************************************)
EXTENDS ValueCache, FiniteSets, Integers

\* A channel can always be made (the bound on Lock is never what stops a step).
ASSUME EnoughLocks == Cardinality(Lock) >= Cardinality(Caller) + Cardinality(Key)
=============================================================================
