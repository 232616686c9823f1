---------------------------- MODULE MCPurchasing ----------------------------
(***************************************************************************)
(* Instances of Purchasing for TLC. Line ids are allocated afresh, clients *)
(* and documents of a kind are interchangeable.                            *)
(***************************************************************************)
EXTENDS Purchasing, TLC

OneAtOne == {[qty |-> 1, price |-> 1]}
TwoAtOne == {[qty |-> 2, price |-> 1]}
\* Goods cost more, landed, than the order says.
ReceivedAtThree == {[qty |-> 1, cost |-> 3]}
ReceivedAtTwoCosts == {[qty |-> 1, cost |-> 1], [qty |-> 1, cost |-> 3]}

\* Most properties say nothing once a request has written what it would no
\* longer read.
Fresh == ~stale

Symmetry == Permutations(Clients) \cup Permutations(Receipts) \cup Permutations(Bills)
              \cup Permutations(Lines)
=============================================================================
