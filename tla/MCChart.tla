------------------------------ MODULE MCChart ------------------------------
(***************************************************************************)
(* Instances of Chart for TLC: a chart of a bank account, with a header or *)
(* without, and two accounts that a later feature needs.                   *)
(***************************************************************************)
EXTENDS Chart, TLC

Header == [code |-> "1000", type |-> "asset", group |-> TRUE, parent |-> 0, column |-> Nobody]
Bank == [code |-> "1020", type |-> "asset", group |-> FALSE, parent |-> 1, column |-> "bank"]
Stock == [code |-> "1150", type |-> "asset", group |-> FALSE, parent |-> 0, column |-> "inventory"]
Goods == [code |-> "5150", type |-> "asset", group |-> FALSE, parent |-> 0, column |-> "cogs"]

Small == <<Header, Bank>>
Lone == <<[Bank EXCEPT !.parent = 0]>>

None == <<>>
Phase7 == <<<<Stock, Goods>>>>

Edited == {{"bank"}, {"inventory"}}
Pairs == {{"bank"}, {"register"}}

\* An edit of an account changes one of the fields at most of what it found, or
\* of what became of it since.
EditsOf(fields) ==
  \A e \in Editors : editing[e].op = "account" =>
    LET u == editing[e]
        a == account[u.id]
        Kept(f) == CASE f = "parent" -> u.parent = a.parent
                     [] f = "code" -> u.code = a.code
                     [] f = "type" -> u.type = a.type
                     [] f = "group" -> u.group = a.group
    IN  Exists(u.id) =>
          \E f \in fields : \A g \in {"parent", "code", "type", "group"} \ {f} : Kept(g)

\* One field at a time.
OneField == EditsOf({"parent", "code", "type", "group"})

\* What a start looks at: the codes and columns of one organization, which no
\* two requests edit at once. No entries.
OneStart ==
  /\ EditsOf({"code"}) /\ drafted = {} /\ posted = {}
  /\ \A o, p \in present : o = p
  /\ \A i \in AccountIds : Exists(i) => account[i].org \in present /\ account[i].parent = Unset
  /\ \A d, e \in Editors : editing[d] # NoEdit /\ editing[e] # NoEdit => d = e
  /\ \A e \in Editors : editing[e].op = "defaults" =>
       DOMAIN editing[e].new = {"inventory"}

\* What crosses organizations once the server serves: parents, the bank and
\* a line, of three accounts; an edit of each kind in flight, a draft beside none.
Crossing ==
  /\ startup.phase = "serving"
  /\ EditsOf({"parent"}) /\ made < MaxAccounts
  /\ \A i \in AccountIds : Exists(i) => account[i].code # "5150"
  /\ \A i, j \in AccountIds : account[i].code = "1150" /\ account[j].code = "1150" => i = j
  /\ \A i, j \in drafted \cup posted : i = j
  /\ drafted # {} => \A e \in Editors : editing[e] = NoEdit
  /\ \A d, e \in Editors :
       editing[d] # NoEdit /\ editing[e] # NoEdit /\ d # e => editing[d].op # editing[e].op
  /\ \A e \in Editors : editing[e].op = "defaults" => DOMAIN editing[e].new = {"bank"}

\* One or the other; no headers, cash only.
Focus ==
  /\ OneStart \/ Crossing
  /\ \A o \in Organizations : methods[o] = "cash_only"
  /\ \A e \in Editors : editing[e].op = "defaults" => editing[e].mode = "keep"
  /\ \A i \in AccountIds : ~account[i].group

Symmetry == Permutations(Organizations) \cup Permutations(Editors)
=============================================================================
