---------------------------- MODULE MCSettlement ----------------------------
(***************************************************************************)
(* Instances of Settlement for TLC. Documents, payments and clients are    *)
(* interchangeable within their kind.                                      *)
(***************************************************************************)
EXTENDS Settlement, TLC

\* The invoice and a bill are looked at together only in the small: totals of
\* one cent, one request in flight and two payments.
Focus ==
  (\E d \in Bills : docs[d].state # "absent") =>
    /\ \A d \in Docs : docs[d].total <= 1
    /\ Cardinality({c \in Clients : req[c] # Idle}) <= 1
    /\ Cardinality({p \in Payments : payments[p].status # "absent"}) <= 2

Symmetry == Permutations(Invoices) \cup Permutations(Bills)
              \cup Permutations(Payments) \cup Permutations(Clients)
=============================================================================
