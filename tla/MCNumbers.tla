------------------------------ MODULE MCNumbers ------------------------------
(***************************************************************************)
(* Instances of Numbers for TLC.                                           *)
(***************************************************************************)
EXTENDS Numbers, TLC

\* Neither documents nor clerks differ from one another.
Symmetry == Permutations(Docs) \cup Permutations(Clerks)
=============================================================================
