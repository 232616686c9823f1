------------------------------- MODULE Ledger -------------------------------
(***************************************************************************)
(* The general ledger of one organization: fiscal years and periods        *)
(* (db/fiscal_period.go), journal entries (db/journal_entry.go), automatic *)
(* postings and reversals of source documents (db/gl_posting.go) and the   *)
(* year-end close (db/fiscal_year_closing.go).                             *)
(*                                                                         *)
(* db/db.go opens SQLite with one write connection, so a transaction, and  *)
(* a statement outside one, is atomic. What interleaves is a handler that  *)
(* first reads and then writes: such a handler is two actions here, the    *)
(* read leaving what it learned in req[c] of the client c that called it,  *)
(* the write running later against whatever the ledger has become.         *)
(* Reversals and closings happen between those two steps of other clients. *)
(***************************************************************************)
EXTENDS Integers, FiniteSets, Sums

CONSTANTS
  Ids,          \* journal entry ids (fresh nanoids): the bound on entries made
  Years,        \* fiscal years, named: UNIQUE(organizationId, name)
  Periods,      \* fiscal periods, named: UNIQUE(organizationId, name)
  Journals,     \* the organization's journals
  MiscJournal,  \* the journal year-end closings post into
  DocJournal,   \* the journal automatic postings go to (sales, purchases...)
  Docs,         \* source documents: (sourceDocumentType, sourceDocumentId)
  Clients,      \* requests that may be in flight at once
  Dates,        \* the days of the calendar
  PostingDates, \* the dates a request may carry: a bound
  YearSpan,     \* [Years -> [start, end]]: the dates a year is created with
  PeriodSpan,   \* [Periods -> [year, start, end]], likewise
  MaxMoney,     \* |amount| that still fits: SQLite's SUM fails on overflow
  LineChoices,  \* the journal lines a request may carry, as net movements
  HasRetainedEarnings, \* organizations.retainedEarningsAccountId is set
  SeededYears,  \* years and periods that are already open when the
  SeededPeriods,\*   behaviour starts
  Toggled,      \* accounts an administrator (de)activates: a bound
  None          \* SQL NULL, and the id of no entry

VARIABLES
  entries,      \* journal_entries with their lines, by id
  years,        \* status of each fiscal year
  periods,      \* status of each fiscal period
  inactive,     \* accounts with isActive = 0
  req           \* what each client's handler has read and not yet written

vars == <<entries, years, periods, inactive, req>>

-----------------------------------------------------------------------------
(* Data.                                                                   *)

Money == -MaxMoney..MaxMoney

\* The kinds of account the ledger's rules tell apart; "header" is an account
\* with isGroup = 1, on which nothing may be posted.
Accounts == {"asset", "revenue", "expense", "retained", "header"}

\* The journal_lines of one entry: debit minus credit on each kind of account.
Lines == [Accounts -> Money]

Statuses == {"absent", "draft", "posted", "reversed", "deleted"}

\* A year is its own source document when its closing entry is posted
\* (SourceDocClosing, year.ID).
SourceDocs == Docs \cup Years \cup {None}

Entry == [status     : Statuses,
          year       : Years \cup {None},
          journal    : Journals \cup {None},
          date       : Dates \cup {0},
          number     : Nat,              \* 0 is NULL
          lines      : Lines,
          doc        : SourceDocs,
          reversalOf : Ids \cup {None}]

ZeroLines == [a \in Accounts |-> 0]

NoEntry == [status |-> "absent", year |-> None, journal |-> None, date |-> 0,
            number |-> 0, lines |-> ZeroLines, doc |-> None, reversalOf |-> None]

Idle == [op |-> "idle", arg |-> None]

Request == {Idle}
      \cup [op : {"deleteEntry", "reverseEntry"}, arg : Ids]
      \cup [op : {"createYear", "closeYear"}, arg : Years]
      \cup [op : {"createPeriod", "openPeriod", "closePeriod"}, arg : Periods]

ASSUME ConstantsAssumption ==
  /\ MaxMoney \in Nat
  /\ IsFiniteSet(Dates) /\ Dates \subseteq Nat \ {0} /\ PostingDates \subseteq Dates
  /\ {MiscJournal, DocJournal} \subseteq Journals
  /\ SeededYears \subseteq Years /\ SeededPeriods \subseteq Periods
  /\ Toggled \subseteq Accounts
  /\ YearSpan \in [Years -> [start : Dates, end : Dates]]
  /\ \A y \in Years : YearSpan[y].start < YearSpan[y].end
  /\ PeriodSpan \in [Periods -> [year : Years, start : Dates, end : Dates]]
  /\ LineChoices \subseteq Lines \ {ZeroLines}
  /\ HasRetainedEarnings \in BOOLEAN
  /\ None \notin Ids \cup Years \cup Periods \cup Journals \cup Docs
  /\ Docs \cap Years = {}

-----------------------------------------------------------------------------
(* Fiscal calendar.                                                        *)

Covers(span, date) == span.start <= date /\ date <= span.end
Overlap(s, t) == s.start <= t.end /\ t.start <= s.end

OpenYear(y) == years[y] = "open"

\* The open years that cover date, the most recently started first: a tie is
\* SQLite's to break.
ResolvedYears(date) ==
  LET open == {y \in Years : OpenYear(y) /\ Covers(YearSpan[y], date)}
  IN  {y \in open : \A z \in open : YearSpan[z].start <= YearSpan[y].start}

PeriodsCovering(y, date, status) ==
  {p \in Periods : /\ PeriodSpan[p].year = y
                   /\ Covers(PeriodSpan[p], date)
                   /\ periods[p] = status}

\* An open period admits the date; failing that, a closed one refuses it;
\* a date no period covers is admitted.
PeriodAdmits(y, date) ==
  \/ PeriodsCovering(y, date, "open") # {}
  \/ PeriodsCovering(y, date, "closed") = {}

\* resolveFiscalPeriodForDateOpts: the years a posting dated date may land in.
ResolvedFor(date, allowClosedPeriod) ==
  {y \in ResolvedYears(date) : allowClosedPeriod \/ PeriodAdmits(y, date)}

-----------------------------------------------------------------------------
(* Journal entries.                                                        *)

Recorded(i) == entries[i].status \in {"posted", "reversed"}

Balanced(lines) ==
  lines["asset"] + lines["revenue"] + lines["expense"]
                 + lines["retained"] + lines["header"] = 0

Mirror(lines) == [a \in Accounts |-> -lines[a]]

\* The entry numbers already taken in a year's journal: NULL is not one.
Numbers(y, j) ==
  {entries[i].number : i \in {k \in Ids : /\ entries[k].year = y
                                          /\ entries[k].journal = j
                                          /\ entries[k].number > 0}}

\* Mutant of NextNumber: scoped to status = 'posted'.
NextNumberOfPosted(y, j) ==
  Cardinality({k \in Ids : /\ entries[k].year = y
                           /\ entries[k].journal = j
                           /\ entries[k].status = "posted"}) + 1

\* COALESCE(MAX(entryNumber), 0) + 1
NextNumber(y, j) ==
  IF Numbers(y, j) = {} THEN 1
  ELSE (CHOOSE m \in Numbers(y, j) : \A n \in Numbers(y, j) : n <= m) + 1

\* Mutant of Finalizable: the year's status is not looked at.
FinalizableInAnyYear(e, enforceActiveAccounts) ==
  /\ e.lines["header"] = 0
  /\ enforceActiveAccounts => \A a \in inactive : e.lines[a] = 0
  /\ Balanced(e.lines)

\* allocateAndFinalizeEntryTx: what it refuses, and what it makes of e.
Finalizable(e, enforceActiveAccounts) ==
  /\ OpenYear(e.year)
  /\ e.lines["header"] = 0
  /\ enforceActiveAccounts => \A a \in inactive : e.lines[a] = 0
  /\ Balanced(e.lines)

Finalized(e) ==
  [e EXCEPT !.status = "posted", !.number = NextNumber(e.year, e.journal)]

\* The live posted entry of a document: findPostedEntryForSourceDocumentTx.
LiveEntries(doc) ==
  {i \in Ids : /\ entries[i].doc = doc
               /\ entries[i].status = "posted"
               /\ entries[i].reversalOf = None}

Fresh(i) == entries[i].status = "absent"

\* postAutoEntryTxEnforcing: insert with its source document, then finalize.
AutoEntryAdmitted(id, e, enforceActiveAccounts) ==
  /\ Fresh(id)
  /\ e.year \in ResolvedFor(e.date, e.doc \in Years)
  /\ Finalizable(e, enforceActiveAccounts)

PostAutoEntry(id, e, enforceActiveAccounts) ==
  /\ AutoEntryAdmitted(id, e, enforceActiveAccounts)
  /\ entries' = [entries EXCEPT ![id] = Finalized(e)]

\* The reversal of entry i, to be dated date in year y.
ReversalOf(i, y, date) ==
  [status |-> "draft", year |-> y, journal |-> entries[i].journal,
   date |-> date, number |-> 0, lines |-> Mirror(entries[i].lines),
   doc |-> entries[i].doc, reversalOf |-> i]

\* Mutant of ReversalAdmitted: retired accounts are refused here too.
ReversalAdmittedEnforcing(i, id, y, date) ==
  /\ entries[i].status = "posted" /\ Fresh(id)
  /\ y \in ResolvedFor(date, FALSE)
  /\ Finalizable(ReversalOf(i, y, date), TRUE)

\* reverseEntryTx: the mirror entry is posted, then the original is marked,
\* which fails (and rolls back) unless it is still posted.
ReversalAdmitted(i, id, y, date) ==
  /\ entries[i].status = "posted" /\ Fresh(id)
  /\ y \in ResolvedFor(date, FALSE)
  /\ Finalizable(ReversalOf(i, y, date), FALSE)

ReverseEntry(i, id, date) ==
  \E y \in Years :
    /\ ReversalAdmitted(i, id, y, date)
    /\ entries' = [entries EXCEPT ![id] = Finalized(ReversalOf(i, y, date)),
                                  ![i].status = "reversed"]

-----------------------------------------------------------------------------
(* Requests: a two-step handler parks what it read, then writes or fails.  *)

Park(c, op, arg) == /\ req[c] = Idle
                    /\ req' = [req EXCEPT ![c] = [op |-> op, arg |-> arg]]

Resume(c, op, arg) == /\ req[c] = [op |-> op, arg |-> arg]
                      /\ req' = [req EXCEPT ![c] = Idle]

\* A parked handler may be refused by its write, fail in SQL or lose its
\* process: the transaction rolls back and nothing was written.
Fail(c) ==
  /\ req[c] # Idle
  /\ req' = [req EXCEPT ![c] = Idle]
  /\ UNCHANGED <<entries, years, periods, inactive>>

-----------------------------------------------------------------------------
(* Journal entry handlers.                                                 *)

CreateJournalEntry(id, journal, date, lines) ==
  /\ Fresh(id)
  /\ \E y \in ResolvedFor(date, FALSE) :
       entries' = [entries EXCEPT ![id] =
         [status |-> "draft", year |-> y, journal |-> journal, date |-> date,
          number |-> 0, lines |-> lines, doc |-> None, reversalOf |-> None]]
  /\ UNCHANGED <<years, periods, inactive, req>>

\* The year is the one resolved when the draft was created.
PostJournalEntry(id) ==
  /\ entries[id].status = "draft"
  /\ Finalizable(entries[id], TRUE)
  /\ entries' = [entries EXCEPT ![id] = Finalized(entries[id])]
  /\ UNCHANGED <<years, periods, inactive, req>>

DeleteJournalEntryRead(c, id) ==
  /\ entries[id].status = "draft"
  /\ Park(c, "deleteEntry", id)
  /\ UNCHANGED <<entries, years, periods, inactive>>

\* Mutant of DeleteJournalEntryWrite: DELETE ... WHERE id = ?
DeleteJournalEntryById(c, id) ==
  /\ Resume(c, "deleteEntry", id)
  /\ entries' = [entries EXCEPT ![id] = [NoEntry EXCEPT !.status = "deleted"]]
  /\ UNCHANGED <<years, periods, inactive>>

\* DELETE ... WHERE id = ? AND status = 'draft'
DeleteJournalEntryWrite(c, id) ==
  /\ Resume(c, "deleteEntry", id)
  /\ entries[id].status = "draft"
  /\ entries' = [entries EXCEPT ![id] = [NoEntry EXCEPT !.status = "deleted"]]
  /\ UNCHANGED <<years, periods, inactive>>

\* A manual entry only: a document's entry is undone through the document.
ReverseJournalEntry(i, id, date) ==
  /\ entries[i].doc = None
  /\ ReverseEntry(i, id, date)
  /\ UNCHANGED <<years, periods, inactive, req>>

\* A document handler posts the document's entry, having found in the same
\* transaction that the document has no live one.
PostDocument(doc, id, date, lines) ==
  /\ LiveEntries(doc) = {}
  /\ \E y \in Years :
       PostAutoEntry(id, [status |-> "draft", year |-> y, journal |-> DocJournal,
                          date |-> date, number |-> 0, lines |-> lines,
                          doc |-> doc, reversalOf |-> None], TRUE)
  /\ UNCHANGED <<years, periods, inactive, req>>

\* A document handler reads the document's live entry before its transaction
\* (VoidPayment, UpdateInvoiceState) and reverses it in the transaction.
ReverseDocumentRead(c, i) ==
  /\ entries[i].doc \in Docs
  /\ i \in LiveEntries(entries[i].doc)
  /\ Park(c, "reverseEntry", i)
  /\ UNCHANGED <<entries, years, periods, inactive>>

ReverseDocumentWrite(c, i, id, date) ==
  /\ Resume(c, "reverseEntry", i)
  /\ ReverseEntry(i, id, date)
  /\ UNCHANGED <<years, periods, inactive>>

-----------------------------------------------------------------------------
(* Fiscal calendar handlers.                                               *)

CreateFiscalYearCheck(c, y) ==
  /\ \A z \in Years : OpenYear(z) => ~Overlap(YearSpan[y], YearSpan[z])
  /\ Park(c, "createYear", y)
  /\ UNCHANGED <<entries, years, periods, inactive>>

\* The overlap is not looked at again; only the name is unique.
CreateFiscalYearInsert(c, y) ==
  /\ Resume(c, "createYear", y)
  /\ years[y] = "absent"
  /\ years' = [years EXCEPT ![y] = "open"]
  /\ UNCHANGED <<entries, periods, inactive>>

CreateFiscalPeriodCheck(c, p) ==
  LET y == PeriodSpan[p].year IN
  /\ OpenYear(y)
  /\ YearSpan[y].start <= PeriodSpan[p].start /\ PeriodSpan[p].end <= YearSpan[y].end
  /\ PeriodSpan[p].start < PeriodSpan[p].end
  /\ \A q \in Periods : /\ PeriodSpan[q].year = y
                        /\ periods[q] # "absent"
                        => ~Overlap(PeriodSpan[p], PeriodSpan[q])
  /\ Park(c, "createPeriod", p)
  /\ UNCHANGED <<entries, years, periods, inactive>>

CreateFiscalPeriodInsert(c, p) ==
  /\ Resume(c, "createPeriod", p)
  /\ periods[p] = "absent"
  /\ periods' = [periods EXCEPT ![p] = "open"]
  /\ UNCHANGED <<entries, years, inactive>>

UpdateFiscalPeriodStatusRead(c, p, op) ==
  /\ periods[p] # "absent"
  /\ years[PeriodSpan[p].year] # "closed"
  /\ Park(c, op, p)
  /\ UNCHANGED <<entries, years, periods, inactive>>

\* UPDATE ... WHERE id = ?: the year is not looked at again.
UpdateFiscalPeriodStatusWrite(c, p) ==
  /\ \/ /\ Resume(c, "openPeriod", p)
        /\ periods' = [periods EXCEPT ![p] = "open"]
     \/ /\ Resume(c, "closePeriod", p)
        /\ periods' = [periods EXCEPT ![p] = "closed"]
  /\ UNCHANGED <<entries, years, inactive>>

CloseFiscalYearRead(c, y) ==
  /\ OpenYear(y)
  /\ Park(c, "closeYear", y)
  /\ UNCHANGED <<entries, years, periods, inactive>>

\* What each entry moves on account a.
Moved(a) == [i \in Ids |-> entries[i].lines[a]]

\* What the entries recorded in year y moved on account a.
Activity(y, a) == Total(Moved(a), {i \in Ids : Recorded(i) /\ entries[i].year = y})

\* Zero every revenue and expense account and carry the net to equity.
ClosingLines(y) ==
  [a \in Accounts |-> CASE a \in {"revenue", "expense"} -> -Activity(y, a)
                        [] a = "retained" -> Activity(y, "revenue") + Activity(y, "expense")
                        [] OTHER -> 0]

\* The closing entry of year y, in the year z its last day resolves to.
ClosingOf(y, z) ==
  [status |-> "draft", year |-> z, journal |-> MiscJournal, date |-> YearSpan[y].end,
   number |-> 0, lines |-> ClosingLines(y), doc |-> y, reversalOf |-> None]

ClosingAdmitted(y, z, id) ==
  /\ ClosingLines(y) \in Lines
  /\ ClosingLines(y)["retained"] # 0 => HasRetainedEarnings
  /\ AutoEntryAdmitted(id, ClosingOf(y, z), FALSE)

PostClosingEntry(y, id) ==
  \E z \in Years : /\ ClosingAdmitted(y, z, id)
                   /\ PostAutoEntry(id, ClosingOf(y, z), FALSE)

\* One transaction: the closing entry first, while the year is still open,
\* then the year and every period of it that is open.
CloseFiscalYearCommit(c, y, id) ==
  /\ Resume(c, "closeYear", y)
  /\ OpenYear(y)
  /\ IF ClosingLines(y) = ZeroLines THEN UNCHANGED entries
                                    ELSE PostClosingEntry(y, id)
  /\ years' = [years EXCEPT ![y] = "closed"]
  /\ periods' = [p \in Periods |-> IF PeriodSpan[p].year = y /\ periods[p] = "open"
                                   THEN "closed" ELSE periods[p]]
  /\ UNCHANGED inactive

\* UpdateAccount with the account's type and group unchanged: isActive flips.
SetAccountActive(a) ==
  /\ inactive' = IF a \in inactive THEN inactive \ {a} ELSE inactive \cup {a}
  /\ UNCHANGED <<entries, years, periods, req>>

-----------------------------------------------------------------------------

Init ==
  /\ entries = [i \in Ids |-> NoEntry]
  /\ years = [y \in Years |-> IF y \in SeededYears THEN "open" ELSE "absent"]
  /\ periods = [p \in Periods |-> IF p \in SeededPeriods THEN "open" ELSE "absent"]
  /\ inactive = {}
  /\ req = [c \in Clients |-> Idle]

JournalNext ==
  \/ \E id \in Ids, j \in Journals, d \in PostingDates, l \in LineChoices :
       CreateJournalEntry(id, j, d, l)
  \/ \E id \in Ids : PostJournalEntry(id)
  \/ \E i \in Ids, id \in Ids, d \in PostingDates : ReverseJournalEntry(i, id, d)
  \/ \E c \in Clients, id \in Ids :
       DeleteJournalEntryRead(c, id) \/ DeleteJournalEntryWrite(c, id)

DocumentNext ==
  \/ \E doc \in Docs, id \in Ids, d \in PostingDates, l \in LineChoices :
       PostDocument(doc, id, d, l)
  \/ \E c \in Clients, i \in Ids : ReverseDocumentRead(c, i)
  \/ \E c \in Clients, i \in Ids, id \in Ids, d \in PostingDates :
       ReverseDocumentWrite(c, i, id, d)

CalendarNext ==
  \/ \E c \in Clients, y \in Years :
       \/ CreateFiscalYearCheck(c, y) \/ CreateFiscalYearInsert(c, y)
       \/ CloseFiscalYearRead(c, y)
       \/ \E id \in Ids : CloseFiscalYearCommit(c, y, id)
  \/ \E c \in Clients, p \in Periods :
       \/ CreateFiscalPeriodCheck(c, p) \/ CreateFiscalPeriodInsert(c, p)
       \/ \E op \in {"openPeriod", "closePeriod"} : UpdateFiscalPeriodStatusRead(c, p, op)
       \/ UpdateFiscalPeriodStatusWrite(c, p)
  \/ \E a \in Toggled : SetAccountActive(a)

Next ==
  \/ JournalNext
  \/ DocumentNext
  \/ CalendarNext
  \/ \E c \in Clients : Fail(c)

Spec == Init /\ [][Next]_vars

-----------------------------------------------------------------------------
(* Properties.                                                             *)

\* Every variable keeps its type.
TypeOK ==
  /\ entries \in [Ids -> Entry]
  /\ years \in [Years -> {"absent", "open", "closed"}]
  /\ periods \in [Periods -> {"absent", "open", "closed"}]
  /\ inactive \subseteq Accounts
  /\ req \in [Clients -> Request]

\* FEC's requirement (allocateAndFinalizeEntryTx, DeleteJournalEntry's F50): in
\* each year's journal the recorded entries are numbered 1, 2, ... n with no
\* number repeated or missing, whatever was reversed or deleted meanwhile.
GaplessNumbers ==
  \A i \in Ids : Recorded(i) =>
    /\ entries[i].number > 0
    /\ \A k \in Ids \ {i} : ~ /\ Recorded(k)
                              /\ entries[k].year = entries[i].year
                              /\ entries[k].journal = entries[i].journal
                              /\ entries[k].number = entries[i].number
    /\ \A m \in 1..entries[i].number :
         \E k \in Ids : /\ Recorded(k)
                        /\ entries[k].year = entries[i].year
                        /\ entries[k].journal = entries[i].journal
                        /\ entries[k].number = m

\* "Posted entries are never updated or deleted" (ReverseJournalEntry): a step
\* may only mark a posted entry reversed, and only together with posting the
\* entry that mirrors it; once reversed it never changes.
RecordedIsImmutable ==
  \A i \in Ids : Recorded(i) =>
    \/ entries'[i] = entries[i]
    \/ /\ entries[i].status = "posted"
       /\ entries'[i] = [entries[i] EXCEPT !.status = "reversed"]
       /\ \E k \in Ids : /\ Fresh(k)
                         /\ entries'[k].status = "posted"
                         /\ entries'[k].reversalOf = i
                         /\ entries'[k].lines = Mirror(entries[i].lines)

\* RecordedIsImmutable of every step.
PostedNeverChanges == [][RecordedIsImmutable]_vars

\* F48: an entry is reversed exactly when one recorded entry reverses it, and
\* that entry undoes it line by line, in its journal, for its document. A
\* double void can therefore not undo a document twice.
ReversalsPair ==
  /\ \A i \in Ids : entries[i].status = "reversed" <=>
                        \E k \in Ids : Recorded(k) /\ entries[k].reversalOf = i
  /\ \A k \in Ids : Recorded(k) /\ entries[k].reversalOf # None =>
       LET i == entries[k].reversalOf IN
       /\ entries[k].lines = Mirror(entries[i].lines)
       /\ entries[k].journal = entries[i].journal
       /\ entries[k].doc = entries[i].doc
       /\ \A m \in Ids : Recorded(m) /\ entries[m].reversalOf = i => m = k

\* Idempotent posting (design decision 8, F48, F49): no document, and no year
\* being closed, ever has two live entries.
OneLiveEntry ==
  \A doc \in SourceDocs \ {None} :
    \A i \in LiveEntries(doc), k \in LiveEntries(doc) : i = k

\* CloseFiscalYear's comment: an entry's fiscalYearId and its date agree, so
\* summing by year and summing by date range are the same.
EntryWithinItsYear ==
  \A i \in Ids : entries[i].status \notin {"absent", "deleted"} =>
    /\ entries[i].year \in Years
    /\ years[entries[i].year] # "absent"
    /\ Covers(YearSpan[entries[i].year], entries[i].date)

\* "Zeroes every revenue/expense account with activity posted into this
\* specific year": nothing a client had in flight when the year closed, and
\* no later reversal, leaves income in a closed year.
ClosedYearZeroed ==
  \A y \in Years : years[y] = "closed" =>
    Activity(y, "revenue") = 0 /\ Activity(y, "expense") = 0

\* A closed year is sealed: no step adds an entry to it or takes one away,
\* through a stranded draft, a late reversal or a second close.
SealedYears ==
  \A y \in Years : years[y] = "closed" =>
    /\ years'[y] = "closed"
    /\ \A i \in Ids : (Recorded(i) /\ entries[i].year = y)
                     <=> (Recorded(i)' /\ entries'[i].year = y)

\* SealedYears of every step.
ClosedYearsStaySealed == [][SealedYears]_vars

\* A closed period (with no open one over the same date) is entered only by
\* the year's own closing entry or by a draft saved before it closed.
ClosedPeriodsAdmitOnlyDrafts ==
  [][\A i \in Ids : ~Recorded(i) /\ Recorded(i)' =>
       \/ entries[i].status = "draft"
       \/ entries'[i].doc \in Years
       \/ PeriodAdmits(entries'[i].year, entries'[i].date)]_vars

\* F97: retiring accounts strands nothing. Whatever accounts are retired, an
\* entry that stands can be reversed on any day that is open for posting, and a
\* year that is open can be closed: postings of documents refuse retired
\* accounts, what undoes or closes them must not.
DeactivationStrandsNothing ==
  (\E id \in Ids : Fresh(id)) =>
    /\ \A i \in Ids, d \in Dates :
         entries[i].status = "posted" /\ ResolvedFor(d, FALSE) # {}
           => \E id \in Ids, y \in Years : ReversalAdmitted(i, id, y, d)
    /\ \A y \in Years :
         OpenYear(y) /\ ClosingLines(y) \in Lines /\ HasRetainedEarnings
           => \E id \in Ids, z \in Years : ClosingAdmitted(y, z, id)
=============================================================================
