----------------------------- MODULE LoanLines -----------------------------
(***************************************************************************)
(* How the Cash Book splits one invoice's total and payments over its      *)
(* lines (allocateInvoiceLines, db/dashboard.go). Lines come in            *)
(* loanLineOrder, the largest first; amounts are whole cents.              *)
(***************************************************************************)
EXTENDS Integers, Sequences, Sums

Larger(a, b) == IF a > b THEN a ELSE b
Smaller(a, b) == IF a < b THEN a ELSE b

\* The tuple f is, so that its values are computed once.
Tuple(f) == f \o <<>>

MulDiv(a, b, c) == IF c = 0 THEN 0 ELSE (a * b) \div c

\* Each line's share of the invoice total by net value; the last line that has
\* any value takes what the divisions left.
LineAmounts(net, total) ==
  LET lines == DOMAIN net
      value == [k \in lines |-> Larger(net[k], 0)]
      weight == IF Total(value, lines) = 0 THEN [k \in lines |-> 1] ELSE value
      share == Tuple([k \in lines |-> MulDiv(total, weight[k], Total(weight, lines))])
      last == Max({k \in lines : weight[k] > 0})
  IN [share EXCEPT ![last] = total - Total(share, lines \ {last})]

\* A spread under way: what each slot has, what is left, the slots still in it.
Spread == [shares : Seq(Nat), left : Nat, active : SUBSET Nat]

\* The cents a division left over go one each to the slots with room, in order,
\* pass after pass; with no room left the last slot takes the rest.
TopUpPass(caps) == [st \in Spread |->
  LET open == {k \in DOMAIN caps : st.shares[k] < caps[k]}
      lucky == {k \in open : Cardinality({j \in open : j < k}) < st.left}
  IN IF st.left = 0 THEN st
     ELSE IF open = {} THEN [st EXCEPT !.shares[Len(caps)] = @ + st.left, !.left = 0]
     ELSE [shares |-> Tuple([k \in DOMAIN caps |->
                        IF k \in lucky THEN st.shares[k] + 1 ELSE st.shares[k]]),
           left |-> st.left - Cardinality(lucky), active |-> st.active]]

\* A round of allocateCapped: every active slot takes its proportion of what is
\* left, up to its cap; while some slot fills up, the rest goes round again.
PourRound(weights, caps) == [st \in Spread |->
  LET weight == [k \in DOMAIN caps |-> Larger(weights[k], 1)]
      portion == [k \in DOMAIN caps |-> MulDiv(st.left, weight[k], Total(weight, st.active))]
      full == {k \in st.active : portion[k] >= caps[k] - st.shares[k]}
      next == Tuple([k \in DOMAIN caps |->
                 IF k \in st.active THEN st.shares[k] + Smaller(portion[k], caps[k] - st.shares[k])
                 ELSE st.shares[k]])
  IN IF st.left = 0 THEN st
     ELSE [shares |-> next, left |-> st.left - (Total(next, st.active) - Total(st.shares, st.active)),
           active |-> IF full = {} THEN {} ELSE st.active \ full]]

\* step done n times over.
Repeated(step, n, st) ==
  LET round[k \in 0..n] == IF k = 0 THEN st ELSE step[round[k - 1]] IN round[n]

\* Each round fills a slot or is the last, and each pass places a cent or more.
\* A function, so that TLC computes what is passed to it once.
AllocateCapped == [job \in [total : Nat, weights : Seq(Nat), caps : Seq(Nat)] |->
  LET caps == job.caps
      poured == Repeated(PourRound(job.weights, caps), Len(caps),
                  [shares |-> Tuple([k \in DOMAIN caps |-> 0]), left |-> job.total,
                   active |-> {k \in DOMAIN caps : caps[k] > 0}])
  IN Repeated(TopUpPass(caps), poured.left, poured).shares]

\* What each line has been paid: what named it, and its share of the payments
\* of the whole invoice; a share its own payments leave no room for moves on.
LinePaid(amounts, direct, whole) ==
  LET lines == DOMAIN amounts
      spread == AllocateCapped[[total |-> whole, weights |-> amounts, caps |-> amounts]]
      taken == Tuple([k \in lines |-> Smaller(spread[k], Larger(amounts[k] - direct[k], 0))])
      rooms == Tuple([k \in lines |-> Larger(amounts[k] - direct[k] - taken[k], 0)])
      moved == AllocateCapped[[total |-> Total(spread, lines) - Total(taken, lines),
                               weights |-> amounts, caps |-> rooms]]
  IN Tuple([k \in lines |-> direct[k] + taken[k] + moved[k]])
=============================================================================
