---------------------------- MODULE LedgerJournal ----------------------------
(***************************************************************************)
(* The ledger as its reader sees it: Ledger implements Journal.            *)
(***************************************************************************)
EXTENDS Ledger

\* Recorded entries, without their dates; drafts and deleted drafts are blank.
Book ==
  [i \in Ids |->
     IF Recorded(i)
       THEN [number |-> entries[i].number, year |-> entries[i].year, journal |-> entries[i].journal,
             lines |-> entries[i].lines, doc |-> entries[i].doc,
             reversalOf |-> entries[i].reversalOf, status |-> entries[i].status]
       ELSE [number |-> 0]]

J == INSTANCE Journal WITH book <- Book, year <- years,
                           BalancedLines <- {l \in Lines : Balanced(l)}

\* Every behaviour of the handlers is one of the book: what is on the books is
\* never changed, renumbered, entered twice or put into a closed year, however
\* drafts, reversals, deletions and closings overlap (design decision 8, F48).
KeepsTheBook == J!Spec
=============================================================================
