----------------------------- MODULE MCCashBook -----------------------------
(***************************************************************************)
(* Instances of CashBook for TLC.                                          *)
(***************************************************************************)
EXTENDS CashBook, TLC

CONSTANTS r1, r2

\* Two loans of one family: one half repaid, one settled; the second page
\* leaves the CIN out.
Family ==
  (r1 :> [who |-> [name |-> "A", cin |-> "1", phone |-> "p"], net |-> <<3>>, paid |-> 1]) @@
  (r2 :> [who |-> [name |-> "A", cin |-> Unknown, phone |-> "p"], net |-> <<1>>, paid |-> 1])

BothFiles == {<<r1>>, <<r1, r2>>, <<r2>>}
Strangers == {[name |-> "B", phone |-> "p"]}
TwoLines == {[net |-> <<2, 1>>, total |-> 4, units |-> 2]}

\* A gift: a stock line at no price.
Gift == {[net |-> <<0>>, total |-> 0, units |-> 1]}

FourLines == {[net |-> <<9, 9, 8, 8>>, total |-> 34, units |-> 0]}

NoFiles == {}
\* What is looked at together: a sale with its state changes, two imports that
\* race and what is collected on them, or a sale to a customer of one import.
Touched == {b \in Batches : \E r \in Refs : inv[<<r, b>>].state # "none"}
Focus ==
  LET sold == {s \in Sales : inv[s].state # "none"}
  IN /\ Cardinality(Touched) + Cardinality(sold) <= 2
     /\ Touched # {} => Len(pays) <= 1
     /\ (\E c \in Cashiers : held[c].op = "state") => Touched = {}

Symmetry == Permutations(Cashiers)
=============================================================================
