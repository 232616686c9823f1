------------------------------- MODULE Reports -------------------------------
(***************************************************************************)
(* The accounting reports of db/gl_reports.go over the ledger: trial       *)
(* balance, profit and loss, balance sheet, an account's balance and its   *)
(* day by day movements. Every one is computed on read from the journal    *)
(* lines; one sums by fiscal year, the others by date, and the profit and  *)
(* loss leaves the closing entries out.                                    *)
(***************************************************************************)
EXTENDS Ledger

\* Mutant of Counted: an entry that was reversed no longer counts.
CountedPosted(i) == entries[i].status = "posted"

\* WHERE status IN ('posted', 'reversed')
Counted(i) == entries[i].status \in {"posted", "reversed"}

Positive(n) == IF n > 0 THEN n ELSE 0

\* SUM(debit) and SUM(credit) of an account over some entries.
Columns(ids, a) ==
  [debit  |-> Total([i \in ids |-> Positive(Moved(a)[i])], ids),
   credit |-> Total([i \in ids |-> Positive(-Moved(a)[i])], ids)]

\* GetTrialBalance of a fiscal year; of a period, which a date resolves to.
Yearly(y) == {i \in Ids : Counted(i) /\ entries[i].year = y}
TrialBalance(y) == [a \in Accounts |-> Columns(Yearly(y), a)]

\* getAccountActivity between two dates; closing entries are those whose
\* source document is a year.
Window(from, to) == {i \in Ids : Counted(i) /\ from <= entries[i].date /\ entries[i].date <= to}
Operating(from, to) == {i \in Window(from, to) : entries[i].doc \notin Years}

\* SUM(debit) - SUM(credit), for assets and expenses, and the other way round.
Debits(ids, a) == Total(Moved(a), ids)
Credits(ids, a) == -Debits(ids, a)

ProfitAndLoss(from, to) ==
  LET revenue == Credits(Operating(from, to), "revenue")
      expenses == Debits(Operating(from, to), "expense")
  IN [revenue |-> revenue, expenses |-> expenses, netIncome |-> revenue - expenses]

\* Cumulative from inception, with what no closing has moved yet folded into
\* equity.
BalanceSheet(asOf) ==
  LET ids == Window(0, asOf)
      earnings == Credits(ids, "revenue") - Debits(ids, "expense")
  IN [assets |-> Debits(ids, "asset"), currentEarnings |-> earnings,
      equity |-> Credits(ids, "retained") + earnings]

\* A header account has no balance of its own (resolveCashReportAccount).
AccountBalance(a, asOf) == Debits(Window(0, asOf), a)

\* dailyCashMovements: a row per day, the balance carried from row to row.
DailyMovements(a, from, to) ==
  LET closing[d \in (from - 1)..to] ==
        IF d < from
          THEN AccountBalance(a, d)
          ELSE LET moved == Columns(Window(d, d), a) IN closing[d - 1] + moved.debit - moved.credit
  IN [d \in from..to |-> [opening |-> closing[d - 1], moved |-> Columns(Window(d, d), a),
                          closing |-> closing[d]]]

\* GenerateFEC: a row per journal line; an account's rows, told from one
\* another by journal and number.
Fec(y, a) == {<<entries[i].journal, entries[i].number, entries[i].lines[a]>> :
                i \in {k \in Yearly(y) : entries[k].lines[a] # 0}}

\* The line that is alone on its side of an entry, against which GenerateDATEV
\* books the others. Without one it takes the clearing account, for all of them.
Side(lines, sign) == {a \in Accounts : sign * lines[a] > 0}
Anchor(lines) ==
  LET alone == {s \in {1, -1} : Cardinality(Side(lines, s)) = 1}
  IN IF alone = {} THEN "clearing" ELSE CHOOSE a \in Side(lines, Max(alone)) : TRUE

\* What GenerateDATEV's bookings of one entry, of each account against the
\* anchor, bring on an account.
Booked(lines, a) ==
  LET against == Anchor(lines)
  IN IF a = against
       THEN -Total(lines, {k \in Accounts \ {against} : lines[k] # 0})
       ELSE IF a \in Accounts THEN lines[a] ELSE 0

\* What an importer of a year's bookings ends with on an account.
Datev(y, a) == Total([i \in Ids |-> Booked(entries[i].lines, a)], Yearly(y))

\* What the closing entry of a year carried to retained earnings.
Closings(y) == {i \in Ids : Counted(i) /\ entries[i].doc = y}
Carried(y) == Credits(Closings(y), "retained")

\* The reports agree with each other and with the year-end close, whatever was
\* reversed, deleted or closed meanwhile: a year's profit is what its closing
\* carried to equity, or its trial balance still shows it while the year is
\* open; the balance sheet balances on every day; and the daily rows, from
\* the first of any year, end at what it shows (gl_reports.go, CloseFiscalYear). Neither
\* export loses or repeats an amount: the lines of the FEC, told apart by their
\* numbers, and the bookings of DATEV come to each account's balance, and nothing
\* stays on the clearing account (GenerateFEC, GenerateDATEV). No report reads
\* req, and Fail empties it and nothing else: one look at rest is enough.
ReportsAgree ==
  (\A c \in Clients : req[c] = Idle) =>
    /\ \A y \in Years :
         LET profit == ProfitAndLoss(YearSpan[y].start, YearSpan[y].end).netIncome
             revenue == TrialBalance(y)["revenue"]
             expense == TrialBalance(y)["expense"]
             left == revenue.credit - revenue.debit + expense.credit - expense.debit
         IN /\ years[y] = "closed" => left = 0 /\ profit = Carried(y)
            /\ years[y] = "open" => left = profit
    /\ \A d \in Dates : LET sheet == BalanceSheet(d) IN sheet.assets = sheet.equity
    /\ \A y \in Years :
         DailyMovements("asset", YearSpan[y].start, Max(Dates))[Max(Dates)].closing
           = BalanceSheet(Max(Dates)).assets
    /\ \A y \in Years :
         /\ \A a \in Accounts :
              LET net == Debits(Yearly(y), a)
              IN Total([row \in Fec(y, a) |-> row[3]], Fec(y, a)) = net /\ Datev(y, a) = net
         /\ Datev(y, "clearing") = 0
=============================================================================
