------------------------------ MODULE MCLedger ------------------------------
(***************************************************************************)
(* Instances of Ledger for TLC: two consecutive years, a period in the    *)
(* first, and journal lines of a sale, of an entry with two accounts on    *)
(* either side, of a draft that does not balance and of one on a header.   *)
(***************************************************************************)
EXTENDS Reports, LedgerJournal, TLC

CONSTANTS y1, y2, p1

\* Consecutive years, the ordinary calendar.
DisjointYears == (y1 :> [start |-> 1, end |-> 2]) @@ (y2 :> [start |-> 3, end |-> 4])

OnePeriod == p1 :> [year |-> y1, start |-> 1, end |-> 2]

Line(asset, revenue, expense, header) ==
  [a \in Accounts |-> CASE a = "asset" -> asset [] a = "revenue" -> revenue
                        [] a = "expense" -> expense [] a = "header" -> header
                        [] OTHER -> 0]

Sale == Line(1, -1, 0, 0)
\* Two accounts on either side.
Mixed == [Line(1, -1, 1, 0) EXCEPT !["retained"] = -1]
SaleAndMistakes == {Sale, Mixed, Line(1, 0, 0, 0), Line(1, 0, 0, -1)}

\* The calendar being set up, a period in it and retired accounts are looked at
\* with at most two entries in being, years are created before any, and a draft
\* that must not be posted is looked at alone, and so is an entry with two accounts on either side.
Made == {i \in Ids : entries[i].status # "absent"}
SettingUp == \E c \in Clients : req[c].op \in {"createYear", "createPeriod"}
Mistaken == \E i \in Ids : entries[i].lines["header"] # 0 \/ ~Balanced(entries[i].lines)
Split == \E i \in Ids : entries[i].lines["retained"] # 0 /\ entries[i].lines["asset"] # 0
Focus ==
  /\ (\E y \in Years : years[y] = "absent") \/ SettingUp => Made = {}
  /\ inactive # {} \/ (\E p \in Periods : periods[p] # "absent") => Cardinality(Made) <= 2
  /\ inactive # {} \/ Mistaken \/ Split => \A p \in Periods : periods[p] = "absent"
  /\ Mistaken \/ Split => inactive = {}
  /\ Mistaken => Cardinality(Made) = 1
  /\ Split => Cardinality(Made) <= 2

Symmetry == Permutations(Ids) \cup Permutations(Clients)
=============================================================================
