----------------------------- MODULE MCDocStore -----------------------------
(***************************************************************************)
(* Instances of DocStore for TLC.                                           *)
(***************************************************************************)
EXTENDS DocStore, TLC

\* Every update is one byte long, every snapshot two.
Sizes == [j \in Jobs |-> IF j \in Snapshots THEN 2 ELSE 1]

Symmetry == Permutations(Updates) \cup Permutations(Snapshots) \cup Permutations(Joiners)
=============================================================================
