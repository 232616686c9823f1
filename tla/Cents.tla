-------------------------------- MODULE Cents --------------------------------
(***************************************************************************)
(* Money: amounts are whole cents, and what is computed from them is an    *)
(* exact fraction <<n, d>>, d > 0, rounded once, half away from zero       *)
(* (db/invoice_totals.go, db/exchange_rate.go).                            *)
(***************************************************************************)
EXTENDS Integers

roundHalfUp(r) ==
  IF r[1] >= 0 THEN (2 * r[1] + r[2]) \div (2 * r[2])
  ELSE -((2 * (-r[1]) + r[2]) \div (2 * r[2]))

\* A document in the organization's own currency has no rate.
NoRate == <<1, 1>>
convertCents(cents, rate) == roundHalfUp(<<cents * rate[1], rate[2]>>)

Frac(n) == <<n, 1>>
Plus(r, s) == <<r[1] * s[2] + s[1] * r[2], r[2] * s[2]>>
Minus(r, s) == <<r[1] * s[2] - s[1] * r[2], r[2] * s[2]>>
Times(r, s) == <<r[1] * s[1], r[2] * s[2]>>
Over(r, s) == IF s[1] > 0 THEN <<r[1] * s[2], r[2] * s[1]>> ELSE <<-(r[1] * s[2]), r[2] * (-s[1])>>
LessEq(r, s) == r[1] * s[2] <= s[1] * r[2]
Abs(n) == IF n < 0 THEN -n ELSE n
Distance(r, s) == LET d == Minus(r, s) IN <<Abs(d[1]), d[2]>>
=============================================================================
