------------------------------- MODULE MCStock -------------------------------
(***************************************************************************)
(* Instances of Stock for TLC. Documents, movements, units and clients are *)
(* interchangeable within their kind.                                      *)
(***************************************************************************)
EXTENDS Stock, TLC

\* One bulk line, the same goods on two lines, a unit, both, nothing.
OneLine == [bulk |-> 1, largest |-> 1, count |-> 0]
TwoLines == [bulk |-> 2, largest |-> 1, count |-> 0]
AUnit == [bulk |-> 0, largest |-> 0, count |-> 1]
Both == [bulk |-> 1, largest |-> 1, count |-> 1]

MixedLines == {OneLine, AUnit}
AllLines == {TwoLines, Both, NoLines}

Symmetry == Permutations(Deliveries) \cup Permutations(Receipts)
              \cup Permutations(Manuals) \cup Permutations(Units)
              \cup Permutations(Clients)
=============================================================================
