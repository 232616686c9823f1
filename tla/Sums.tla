-------------------------------- MODULE Sums --------------------------------
(***************************************************************************)
(* The sum of f over the finite set S, as SQL's SUM and the loops of the   *)
(* code take it over the rows they select.                                 *)
(***************************************************************************)
EXTENDS Integers, FiniteSetsExt

Total(f, S) == MapThenSumSet(LAMBDA x : f[x], S)
=============================================================================
