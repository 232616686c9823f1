------------------------------- MODULE Journal -------------------------------
(***************************************************************************)
(* What the general ledger promises its reader: a book that is only ever   *)
(* added to. An entry is entered once, numbered next in its year's         *)
(* journal, and corrected only by entering its mirror; a document has one  *)
(* entry that stands; a year is opened once and closed once, and nothing   *)
(* is entered in it afterwards. Drafts, requests in flight, fiscal periods *)
(* and retired accounts are not part of the promise.                       *)
(***************************************************************************)
EXTENDS Integers

CONSTANTS
  Ids,            \* names of entries
  Accounts,
  Years,
  BalancedLines,  \* movements of the accounts that sum to zero
  None

VARIABLES
  book,           \* the entries made: number 0 for one not made yet
  year            \* absent, open or closed

Blank == [number |-> 0]

Entered(i) == book[i].number > 0
Standing(doc) == {i \in Ids : Entered(i) /\ book[i].doc = doc
                                /\ book[i].reversalOf = None /\ book[i].status = "posted"}

Mirrored(lines) == [a \in Accounts |-> -lines[a]]

\* n continues the numbers of a year's journal.
Continues(y, j, n) ==
  LET Taken(m) == \E k \in Ids : /\ Entered(k) /\ book[k].year = y
                                 /\ book[k].journal = j /\ book[k].number = m
  IN ~Taken(n) /\ \A m \in 1..(n - 1) : Taken(m)

\* Entry i is made, balanced, in an open year; nothing else changes but rest.
Adds(i, rest) ==
  LET e == book'[i]
  IN /\ ~Entered(i) /\ Entered(i)'
     /\ year[e.year] = "open" /\ e.lines \in BalancedLines /\ e.status = "posted"
     /\ Continues(e.year, e.journal, e.number)
     /\ \A k \in rest : book'[k] = book[k]

\* For a document without a standing entry. The entry of a year's own closing
\* is made as the year closes.
Enter(i) ==
  LET e == book'[i]
  IN /\ Adds(i, Ids \ {i})
     /\ e.reversalOf = None
     /\ e.doc # None => Standing(e.doc) = {}
     /\ e.doc \in Years => year'[e.doc] = "closed"

\* Entry k is corrected by its mirror, entry i.
Correct(k, i) ==
  LET e == book'[i]
  IN /\ Entered(k) /\ book[k].status = "posted"
     /\ Adds(i, Ids \ {i, k})
     /\ e.reversalOf = k /\ e.lines = Mirrored(book[k].lines)
     /\ e.journal = book[k].journal /\ e.doc = book[k].doc
     /\ book'[k] = [book[k] EXCEPT !.status = "reversed"]

Calendar ==
  \A y \in Years : \/ year'[y] = year[y]
                   \/ year[y] = "absent" /\ year'[y] = "open"
                   \/ year[y] = "open" /\ year'[y] = "closed"

Init ==
  /\ book = [i \in Ids |-> Blank]
  /\ \A y \in Years : year[y] \in {"absent", "open"}

Next ==
  /\ Calendar
  /\ \/ UNCHANGED book
     \/ \E i \in Ids : Enter(i)
     \/ \E k \in Ids, i \in Ids : Correct(k, i)

Spec == Init /\ [][Next]_<<book, year>>
=============================================================================
