---------------------------- MODULE LedgerProofs ----------------------------
(***************************************************************************)
(* What holds of the ledger for every set of entries, years, periods,      *)
(* documents, clients and dates. Every step changes the entries in one of  *)
(* five ways (lemma EntryChange); the inductive invariant IInv is proved   *)
(* once against those five; the theorems follow from it, and at the end    *)
(* the refinement of Journal.                                              *)
(***************************************************************************)
EXTENDS Reports, LedgerJournal, SumsProofs

-----------------------------------------------------------------------------
(* The inductive invariant.                                                *)

Exists(i) == entries[i].status \notin {"absent", "deleted"}

\* An entry that is not recorded has no number, document or original; one
\* that exists is in a journal and, by EntryWithinItsYear, in a year.
UnrecordedIsBlank ==
  /\ \A i \in Ids : ~Recorded(i) => /\ entries[i].number = 0
                                    /\ entries[i].doc = None
                                    /\ entries[i].reversalOf = None
  /\ \A i \in Ids : Exists(i) => entries[i].journal \in Journals

\* GaplessNumbers is not inductive: that the next number continues 1..n needs
\* that the numbers taken are all of 1..n for one n.
NumbersAreInterval ==
  /\ \A y \in Years, j \in Journals : \E n \in Nat : Numbers(y, j) = 1..n
  /\ \A i, k \in Ids : /\ entries[i].number > 0
                       /\ entries[k].number = entries[i].number
                       /\ entries[k].year = entries[i].year
                       /\ entries[k].journal = entries[i].journal
                       => i = k
  /\ \A i \in Ids : Recorded(i) => entries[i].number > 0

\* A year that has a closing entry is closed, so it gets no second one.
ClosingMeansClosed ==
  \A y \in Years : LiveEntries(y) # {} => years[y] = "closed"

IInv == /\ TypeOK
        /\ UnrecordedIsBlank
        /\ EntryWithinItsYear
        /\ NumbersAreInterval
        /\ ClosingMeansClosed
        /\ OneLiveEntry
        /\ ReversalsPair

-----------------------------------------------------------------------------
(* The ways a step may change the entries.                                 *)

InOpenYear(e) == /\ e.year \in Years
                 /\ OpenYear(e.year)
                 /\ Covers(YearSpan[e.year], e.date)

IsDraft(e) == /\ e \in Entry
              /\ e.status = "draft"
              /\ e.number = 0
              /\ e.journal \in Journals
              /\ InOpenYear(e)

Inserts(id, e) == /\ Fresh(id)
                  /\ IsDraft(e)
                  /\ e.doc = None /\ e.reversalOf = None
                  /\ entries' = [entries EXCEPT ![id] = e]

Deletes(id) == /\ entries[id].status = "draft"
               /\ entries' = [entries EXCEPT ![id] = [NoEntry EXCEPT !.status = "deleted"]]

Posts(id, e) == /\ Fresh(id) \/ (entries[id] = e /\ e.doc = None)
                /\ IsDraft(e)
                /\ Balanced(e.lines) /\ e.lines["header"] = 0
                /\ e.reversalOf = None
                /\ e.doc # None => LiveEntries(e.doc) = {}
                /\ e.doc \in Years => years'[e.doc] = "closed"
                /\ \/ entries[id].status = "draft" \/ e.doc \in Years
                   \/ PeriodAdmits(e.year, e.date)
                /\ entries' = [entries EXCEPT ![id] = Finalized(e)]

Reverses(i, id, e) == /\ Fresh(id)
                      /\ entries[i].status = "posted"
                      /\ IsDraft(e)
                      /\ Balanced(e.lines) /\ e.lines["header"] = 0
                      /\ e.reversalOf = i
                      /\ e.lines = Mirror(entries[i].lines)
                      /\ e.journal = entries[i].journal
                      /\ e.doc = entries[i].doc
                      /\ PeriodAdmits(e.year, e.date)
                      /\ entries' = [entries EXCEPT ![id] = Finalized(e),
                                                    ![i].status = "reversed"]

EntriesChange ==
  \/ UNCHANGED entries
  \/ \E id \in Ids : Deletes(id)
  \/ \E id \in Ids, e \in Entry : Inserts(id, e)
  \/ \E id \in Ids, e \in Entry : Posts(id, e)
  \/ \E i, id \in Ids, e \in Entry : Reverses(i, id, e)

-----------------------------------------------------------------------------
(* Lemmas about the operators.                                             *)

\* MAX + 1 continues an interval.
LEMMA NextNumberContinues ==
  ASSUME NEW y, NEW j, NEW n \in Nat, Numbers(y, j) = 1..n
  PROVE  NextNumber(y, j) = n + 1
<1>1. CASE n = 0
  BY <1>1 DEF NextNumber
<1>2. CASE n > 0
  <2>1. n \in 1..n /\ \A m \in 1..n : m <= n
    BY <1>2
  <2>2. (CHOOSE m \in 1..n : \A k \in 1..n : k <= m) = n
    <3> DEFINE P(m) == m \in 1..n /\ \A k \in 1..n : k <= m
    <3>1. P(n) /\ \A m : P(m) => m = n
      BY <2>1
    <3> QED BY <3>1
  <2> QED BY <1>2, <2>2 DEF NextNumber
<1> QED BY <1>1, <1>2

\* A date resolves to an open year that covers it.
LEMMA ResolvedIsOpen ==
  ASSUME NEW date, NEW allow, NEW y \in ResolvedFor(date, allow)
  PROVE  y \in Years /\ OpenYear(y) /\ Covers(YearSpan[y], date)
BY DEF ResolvedFor, ResolvedYears

\* Swapping debit and credit stays within the representable amounts.
LEMMA MirrorType == ASSUME NEW l \in Lines PROVE Mirror(l) \in Lines
<1>1. \A a \in Accounts : -l[a] \in Money
  BY ConstantsAssumption DEF Lines, Money
<1> QED BY <1>1 DEF Mirror, Lines

-----------------------------------------------------------------------------
(* Type of the calendar, the accounts and the parked requests.             *)

CalendarType ==
  /\ years \in [Years -> {"absent", "open", "closed"}]
  /\ periods \in [Periods -> {"absent", "open", "closed"}]
  /\ inactive \subseteq Accounts
  /\ req \in [Clients -> Request]

\* Every handler leaves them well typed.
LEMMA CalendarTypeStep ==
  ASSUME TypeOK, [Next]_vars PROVE CalendarType'
<1> USE DEF TypeOK, CalendarType
<1>1. ASSUME NEW c \in Clients, NEW op, NEW arg,
             [op |-> op, arg |-> arg] \in Request, Park(c, op, arg)
      PROVE  req' \in [Clients -> Request]
  BY <1>1 DEF Park
<1>2. ASSUME NEW c \in Clients, NEW op, NEW arg, Resume(c, op, arg)
      PROVE  req' \in [Clients -> Request]
  BY <1>2 DEF Resume, Request
<1>3. CASE JournalNext
  <2>1. ASSUME NEW c \in Clients, NEW id \in Ids, DeleteJournalEntryRead(c, id)
        PROVE  CalendarType'
    <3>1. [op |-> "deleteEntry", arg |-> id] \in Request
      BY DEF Request
    <3> QED BY <1>1, <2>1, <3>1 DEF DeleteJournalEntryRead
  <2>2. ASSUME NEW c \in Clients, NEW id \in Ids, DeleteJournalEntryWrite(c, id)
        PROVE  CalendarType'
    BY <1>2, <2>2 DEF DeleteJournalEntryWrite
  <2> QED
    BY <1>3, <2>1, <2>2 DEF JournalNext, CreateJournalEntry, PostJournalEntry,
                            ReverseJournalEntry
<1>4. CASE DocumentNext
  <2>1. ASSUME NEW c \in Clients, NEW i \in Ids, ReverseDocumentRead(c, i)
        PROVE  CalendarType'
    <3>1. [op |-> "reverseEntry", arg |-> i] \in Request
      BY DEF Request
    <3> QED BY <1>1, <2>1, <3>1 DEF ReverseDocumentRead
  <2>2. ASSUME NEW c \in Clients, NEW i \in Ids, NEW id \in Ids, NEW d,
               ReverseDocumentWrite(c, i, id, d)
        PROVE  CalendarType'
    BY <1>2, <2>2 DEF ReverseDocumentWrite
  <2> QED BY <1>4, <2>1, <2>2 DEF DocumentNext, PostDocument
<1>5. CASE CalendarNext
  <2>1. ASSUME NEW c \in Clients, NEW y \in Years,
               \/ CreateFiscalYearCheck(c, y) \/ CreateFiscalYearInsert(c, y)
               \/ CloseFiscalYearRead(c, y)
               \/ \E id \in Ids : CloseFiscalYearCommit(c, y, id)
        PROVE  CalendarType'
    <3>1. /\ [op |-> "createYear", arg |-> y] \in Request
          /\ [op |-> "closeYear", arg |-> y] \in Request
      BY DEF Request
    <3>2. CASE CreateFiscalYearCheck(c, y)
      BY <1>1, <3>1, <3>2 DEF CreateFiscalYearCheck
    <3>3. CASE CreateFiscalYearInsert(c, y)
      BY <1>2, <3>3 DEF CreateFiscalYearInsert
    <3>4. CASE CloseFiscalYearRead(c, y)
      BY <1>1, <3>1, <3>4 DEF CloseFiscalYearRead
    <3>5. CASE \E id \in Ids : CloseFiscalYearCommit(c, y, id)
      BY <1>2, <3>5 DEF CloseFiscalYearCommit
    <3> QED BY <2>1, <3>2, <3>3, <3>4, <3>5
  <2>2. ASSUME NEW c \in Clients, NEW p \in Periods,
               \/ CreateFiscalPeriodCheck(c, p) \/ CreateFiscalPeriodInsert(c, p)
               \/ UpdateFiscalPeriodStatusRead(c, p, "openPeriod")
               \/ UpdateFiscalPeriodStatusRead(c, p, "closePeriod")
               \/ UpdateFiscalPeriodStatusWrite(c, p)
        PROVE  CalendarType'
    <3>1. /\ [op |-> "createPeriod", arg |-> p] \in Request
          /\ [op |-> "openPeriod", arg |-> p] \in Request
          /\ [op |-> "closePeriod", arg |-> p] \in Request
      BY DEF Request
    <3>2. CASE CreateFiscalPeriodCheck(c, p)
      BY <1>1, <3>1, <3>2 DEF CreateFiscalPeriodCheck
    <3>3. CASE CreateFiscalPeriodInsert(c, p)
      BY <1>2, <3>3 DEF CreateFiscalPeriodInsert
    <3>4. CASE \/ UpdateFiscalPeriodStatusRead(c, p, "openPeriod")
               \/ UpdateFiscalPeriodStatusRead(c, p, "closePeriod")
      BY <1>1, <3>1, <3>4 DEF UpdateFiscalPeriodStatusRead
    <3>5. CASE UpdateFiscalPeriodStatusWrite(c, p)
      BY <1>2, <3>5 DEF UpdateFiscalPeriodStatusWrite
    <3> QED BY <2>2, <3>2, <3>3, <3>4, <3>5
  <2>3. ASSUME NEW a \in Toggled, SetAccountActive(a) PROVE CalendarType'
    BY <2>3, ConstantsAssumption DEF SetAccountActive
  <2> QED BY <1>5, <2>1, <2>2, <2>3 DEF CalendarNext
<1>6. ASSUME NEW c \in Clients, Fail(c) PROVE CalendarType'
  BY <1>6 DEF Fail, Request
<1>7. CASE UNCHANGED vars
  BY <1>7 DEF vars
<1> QED BY <1>3, <1>4, <1>5, <1>6, <1>7 DEF Next

-----------------------------------------------------------------------------
(* Every step changes the entries in one of the five ways.                 *)

\* A reversal, manual or of a document, is a Reverses step.
LEMMA ReverseEntryReverses ==
  ASSUME IInv, NEW i \in Ids, NEW id \in Ids, NEW date \in Dates,
         ReverseEntry(i, id, date)
  PROVE  \E e \in Entry : Reverses(i, id, e)
<1>1. PICK y \in ResolvedFor(date, FALSE) :
        /\ Fresh(id)
        /\ entries[i].status = "posted"
        /\ Balanced(ReversalOf(i, y, date).lines) /\ ReversalOf(i, y, date).lines["header"] = 0
        /\ entries' = [entries EXCEPT ![id] = Finalized(ReversalOf(i, y, date)),
                                      ![i].status = "reversed"]
  BY DEF ReverseEntry, ReversalAdmitted, Finalizable
<1> DEFINE e == ReversalOf(i, y, date)
<1>2. y \in Years /\ OpenYear(y) /\ Covers(YearSpan[y], date)
  BY <1>1, ResolvedIsOpen
<1>3. entries[i] \in Entry /\ entries[i].journal \in Journals
  BY <1>1 DEF IInv, TypeOK, UnrecordedIsBlank, Exists
<1>4. Mirror(entries[i].lines) \in Lines
  BY <1>3, MirrorType DEF Entry
<1>5. IsDraft(e)
  BY <1>2, <1>3, <1>4 DEF IsDraft, InOpenYear, ReversalOf, Entry, Statuses, SourceDocs
<1>6. PeriodAdmits(y, date) /\ e.year = y /\ e.date = date
  BY DEF ResolvedFor, ReversalOf
<1>7. Reverses(i, id, e)
  BY <1>1, <1>5, <1>6 DEF Reverses, ReversalOf
<1> QED BY <1>5, <1>7 DEF IsDraft

\* An automatic posting of a document with no live entry is a Posts step.
LEMMA PostAutoEntryPosts ==
  ASSUME IInv, NEW id \in Ids, NEW enforce, NEW doc \in SourceDocs \ {None},
         NEW y \in Years, NEW j \in Journals, NEW date \in Dates, NEW l \in Lines,
         LiveEntries(doc) = {}, doc \in Years => years'[doc] = "closed",
         PostAutoEntry(id, [status |-> "draft", year |-> y, journal |-> j,
                            date |-> date, number |-> 0, lines |-> l,
                            doc |-> doc, reversalOf |-> None], enforce)
  PROVE  \E e \in Entry : Posts(id, e)
<1> DEFINE e == [status |-> "draft", year |-> y, journal |-> j, date |-> date,
                 number |-> 0, lines |-> l, doc |-> doc, reversalOf |-> None]
<1>1. e \in Entry
  BY DEF Entry, Statuses
<1>2. y \in ResolvedFor(date, doc \in Years)
  BY DEF PostAutoEntry, AutoEntryAdmitted
<1>3. IsDraft(e)
  BY <1>1, <1>2, ResolvedIsOpen DEF IsDraft, InOpenYear
<1>4. doc \in Years \/ PeriodAdmits(y, date)
  BY <1>2 DEF ResolvedFor
<1>5. Posts(id, e)
  BY <1>3, <1>4 DEF Posts, PostAutoEntry, AutoEntryAdmitted, Finalizable
<1> QED BY <1>1, <1>5

LEMMA EntryChange ==
  ASSUME IInv, [Next]_vars PROVE EntriesChange
<1>0. PostingDates \subseteq Dates /\ Dates \subseteq Nat \ {0}
  BY ConstantsAssumption
<1>1. ASSUME NEW id \in Ids, NEW j \in Journals, NEW d \in PostingDates,
             NEW l \in LineChoices, CreateJournalEntry(id, j, d, l)
      PROVE  EntriesChange
  <2>1. PICK y \in ResolvedFor(d, FALSE) :
          /\ Fresh(id)
          /\ entries' = [entries EXCEPT ![id] =
               [status |-> "draft", year |-> y, journal |-> j, date |-> d,
                number |-> 0, lines |-> l, doc |-> None, reversalOf |-> None]]
    BY <1>1 DEF CreateJournalEntry
  <2> DEFINE e == [status |-> "draft", year |-> y, journal |-> j, date |-> d,
                   number |-> 0, lines |-> l, doc |-> None, reversalOf |-> None]
  <2>2. y \in Years /\ OpenYear(y) /\ Covers(YearSpan[y], d)
    BY <2>1, ResolvedIsOpen
  <2>3. e \in Entry
    BY <1>0, <2>2, ConstantsAssumption DEF Entry, Statuses, SourceDocs
  <2>4. Inserts(id, e)
    BY <2>1, <2>2, <2>3 DEF Inserts, IsDraft, InOpenYear
  <2> QED BY <2>3, <2>4 DEF EntriesChange
<1>2. ASSUME NEW id \in Ids, PostJournalEntry(id) PROVE EntriesChange
  <2> DEFINE e == entries[id]
  <2>1. e.status = "draft" /\ OpenYear(e.year) /\ Balanced(e.lines) /\ e.lines["header"] = 0
    BY <1>2 DEF PostJournalEntry, Finalizable
  <2>2. /\ e \in Entry /\ e.number = 0 /\ e.doc = None /\ e.reversalOf = None
        /\ e.journal \in Journals
    BY <2>1 DEF IInv, TypeOK, UnrecordedIsBlank, Recorded, Exists
  <2>3. IsDraft(e)
    BY <2>1, <2>2 DEF IInv, EntryWithinItsYear, IsDraft, InOpenYear
  <2>4. None \notin Years
    BY ConstantsAssumption
  <2>5. Posts(id, e)
    BY <1>2, <2>1, <2>2, <2>3, <2>4 DEF Posts, PostJournalEntry
  <2> QED BY <2>2, <2>5 DEF EntriesChange
<1>3. ASSUME NEW i \in Ids, NEW id \in Ids, NEW d \in PostingDates,
             ReverseJournalEntry(i, id, d)
      PROVE  EntriesChange
  BY <1>0, <1>3, ReverseEntryReverses DEF ReverseJournalEntry, EntriesChange
<1>4. ASSUME NEW c \in Clients, NEW id \in Ids, DeleteJournalEntryWrite(c, id)
      PROVE  EntriesChange
  BY <1>4 DEF DeleteJournalEntryWrite, Deletes, EntriesChange
<1>5. ASSUME NEW doc \in Docs, NEW id \in Ids, NEW d \in PostingDates,
             NEW l \in LineChoices, PostDocument(doc, id, d, l)
      PROVE  EntriesChange
  <2>1. doc \in SourceDocs \ {None} /\ doc \notin Years /\ l \in Lines
        /\ DocJournal \in Journals /\ d \in Dates
    BY <1>0, ConstantsAssumption DEF SourceDocs
  <2> QED BY <1>5, <2>1, PostAutoEntryPosts DEF PostDocument, EntriesChange
<1>6. ASSUME NEW c \in Clients, NEW i \in Ids, NEW id \in Ids,
             NEW d \in PostingDates, ReverseDocumentWrite(c, i, id, d)
      PROVE  EntriesChange
  BY <1>0, <1>6, ReverseEntryReverses DEF ReverseDocumentWrite, EntriesChange
<1>7. ASSUME NEW c \in Clients, NEW y \in Years, NEW id \in Ids,
             CloseFiscalYearCommit(c, y, id)
      PROVE  EntriesChange
  <2>1. years'[y] = "closed" /\ OpenYear(y)
    BY <1>7 DEF CloseFiscalYearCommit, IInv, TypeOK
  <2>2. LiveEntries(y) = {}
    BY <2>1 DEF IInv, ClosingMeansClosed, OpenYear
  <2>3. CASE PostClosingEntry(y, id)
    <3>1. /\ y \in SourceDocs \ {None}
          /\ MiscJournal \in Journals
          /\ YearSpan[y].end \in Dates
      BY ConstantsAssumption DEF SourceDocs
    <3>2. ClosingLines(y) \in Lines
      BY <2>3 DEF PostClosingEntry, ClosingAdmitted
    <3> QED
      BY <2>1, <2>2, <2>3, <3>1, <3>2, PostAutoEntryPosts
         DEF PostClosingEntry, ClosingOf, EntriesChange
  <2> QED BY <1>7, <2>3 DEF CloseFiscalYearCommit, EntriesChange
<1>8. ASSUME UNCHANGED entries PROVE EntriesChange
  BY <1>8 DEF EntriesChange
<1>9. CASE JournalNext
  BY <1>1, <1>2, <1>3, <1>4, <1>8, <1>9 DEF JournalNext, DeleteJournalEntryRead
<1>10. CASE DocumentNext
  BY <1>5, <1>6, <1>8, <1>10 DEF DocumentNext, ReverseDocumentRead
<1>11. CASE CalendarNext
  BY <1>7, <1>8, <1>11 DEF CalendarNext, CreateFiscalYearCheck,
       CreateFiscalYearInsert, CloseFiscalYearRead, CreateFiscalPeriodCheck,
       CreateFiscalPeriodInsert, UpdateFiscalPeriodStatusRead,
       UpdateFiscalPeriodStatusWrite, SetAccountActive
<1> QED BY <1>8, <1>9, <1>10, <1>11 DEF Next, Fail, vars

-----------------------------------------------------------------------------
(* Each conjunct of IInv is preserved.                                     *)

\* Two entries that differ at most in their status and number.
SameContent(a, b) == /\ a.year = b.year /\ a.journal = b.journal
                     /\ a.date = b.date /\ a.lines = b.lines
                     /\ a.doc = b.doc /\ a.reversalOf = b.reversalOf

\* allocateAndFinalizeEntryTx makes a posted entry, numbered after the last.
LEMMA FinalizedEntry ==
  ASSUME IInv, NEW e, IsDraft(e)
  PROVE  /\ NextNumber(e.year, e.journal) \in Nat \ {0}
         /\ Finalized(e) \in Entry
         /\ Finalized(e).status = "posted"
         /\ Finalized(e).number = NextNumber(e.year, e.journal)
         /\ SameContent(Finalized(e), e)
<1>1. PICK n \in Nat : Numbers(e.year, e.journal) = 1..n
  BY DEF IInv, NumbersAreInterval, IsDraft, InOpenYear
<1>2. NextNumber(e.year, e.journal) = n + 1
  BY <1>1, NextNumberContinues
<1>3. e \in Entry
  BY DEF IsDraft
<1>4. NextNumber(e.year, e.journal) \in Nat \ {0}
  BY <1>2
<1>5. Finalized(e) \in Entry
  <2> DEFINE next == NextNumber(e.year, e.journal)
  <2>1. next \in Nat /\ "posted" \in Statuses
    BY <1>4 DEF Statuses
  <2> HIDE DEF next
  <2>2. [e EXCEPT !.status = "posted", !.number = next] \in Entry
    BY <1>3, <2>1 DEF Entry
  <2> QED BY <2>2 DEF Finalized, next
<1>6. /\ Finalized(e).status = "posted"
      /\ Finalized(e).number = NextNumber(e.year, e.journal)
      /\ SameContent(Finalized(e), e)
  BY <1>3 DEF Finalized, Entry, SameContent
<1> QED BY <1>4, <1>5, <1>6

\* The entries stay well typed.
LEMMA EntriesTypeStep ==
  ASSUME IInv, EntriesChange PROVE entries' \in [Ids -> Entry]
<1> USE DEF IInv, TypeOK
<1>1. ASSUME NEW id \in Ids, Deletes(id) PROVE entries' \in [Ids -> Entry]
  <2>1. [NoEntry EXCEPT !.status = "deleted"] \in Entry
    BY ConstantsAssumption
       DEF NoEntry, Entry, Statuses, SourceDocs, ZeroLines, Lines, Money
  <2> QED BY <1>1, <2>1 DEF Deletes
<1>2. ASSUME NEW id \in Ids, NEW e \in Entry, Inserts(id, e)
      PROVE  entries' \in [Ids -> Entry]
  BY <1>2 DEF Inserts
<1>3. ASSUME NEW id \in Ids, NEW e \in Entry, Posts(id, e)
      PROVE  entries' \in [Ids -> Entry]
  <2>1. Finalized(e) \in Entry
    BY <1>3, FinalizedEntry DEF Posts
  <2> QED BY <1>3, <2>1 DEF Posts
<1>4. ASSUME NEW i \in Ids, NEW id \in Ids, NEW e \in Entry, Reverses(i, id, e)
      PROVE  entries' \in [Ids -> Entry]
  <2>1. Finalized(e) \in Entry
    BY <1>4, FinalizedEntry DEF Reverses
  <2>2. [entries[i] EXCEPT !.status = "reversed"] \in Entry
    BY DEF Entry, Statuses
  <2>3. id # i
    BY <1>4 DEF Reverses, Fresh
  <2> QED BY <1>4, <2>1, <2>2, <2>3 DEF Reverses
<1> QED BY <1>1, <1>2, <1>3, <1>4 DEF EntriesChange

\* What a Posts or a Reverses step leaves: entry id is new and finalized, and
\* every other entry keeps all but, for a reversed one, its status.
Adds(id, e) ==
  /\ entries'[id] = Finalized(e)
  /\ \A k \in Ids \ {id} :
       /\ Recorded(k)' <=> Recorded(k)
       /\ Exists(k)' <=> Exists(k)
       /\ SameContent(entries'[k], entries[k])
       /\ entries'[k].number = entries[k].number

LEMMA PostsAdds ==
  ASSUME IInv, NEW id \in Ids, NEW e \in Entry, Posts(id, e)
  PROVE  Adds(id, e) /\ ~Recorded(id) /\ IsDraft(e)
BY DEF Posts, Adds, IInv, TypeOK, Recorded, Exists, Fresh, IsDraft, SameContent

LEMMA ReversesAdds ==
  ASSUME IInv, NEW i \in Ids, NEW id \in Ids, NEW e \in Entry, Reverses(i, id, e)
  PROVE  /\ Adds(id, e) /\ ~Recorded(id) /\ IsDraft(e)
         /\ id # i
         /\ entries'[i] = [entries[i] EXCEPT !.status = "reversed"]
         /\ \A k \in Ids \ {id, i} : entries'[k] = entries[k]
<1>1. id # i
  BY DEF Reverses, Fresh
<1>2. /\ entries'[id] = Finalized(e)
      /\ entries'[i] = [entries[i] EXCEPT !.status = "reversed"]
      /\ \A k \in Ids \ {id, i} : entries'[k] = entries[k]
  BY <1>1 DEF Reverses, IInv, TypeOK
<1>3. entries[i] \in Entry /\ entries[i].status = "posted"
  BY DEF Reverses, IInv, TypeOK
<1>4. /\ SameContent(entries'[i], entries[i])
      /\ entries'[i].number = entries[i].number
  BY <1>2, <1>3 DEF Entry, SameContent
<1>5. entries'[i].status = "reversed"
  BY <1>2, <1>3 DEF Entry
<1>6. (Recorded(i)' <=> Recorded(i)) /\ (Exists(i)' <=> Exists(i))
  BY <1>3, <1>5 DEF Recorded, Exists
<1>7. ~Recorded(id) /\ IsDraft(e)
  BY DEF Reverses, Recorded, Fresh
<1> QED BY <1>1, <1>2, <1>4, <1>6, <1>7 DEF Adds, Recorded, Exists, SameContent

\* Blank while unrecorded.
LEMMA UnrecordedStep ==
  ASSUME IInv, EntriesChange PROVE UnrecordedIsBlank'
<1> USE DEF UnrecordedIsBlank
<1>1. ASSUME NEW id \in Ids, Deletes(id) PROVE UnrecordedIsBlank'
  BY <1>1 DEF Deletes, IInv, TypeOK, NoEntry, Recorded, Exists
<1>2. ASSUME NEW id \in Ids, NEW e \in Entry, Inserts(id, e)
      PROVE  UnrecordedIsBlank'
  BY <1>2 DEF Inserts, IsDraft, IInv, TypeOK, Recorded, Exists
<1>3. ASSUME NEW id \in Ids, NEW e \in Entry, Adds(id, e), IsDraft(e)
      PROVE  UnrecordedIsBlank'
  <2>1. Finalized(e).status = "posted" /\ Finalized(e).journal \in Journals
    BY <1>3, FinalizedEntry DEF IsDraft, SameContent
  <2>2. Recorded(id)' /\ entries'[id].journal \in Journals
    BY <1>3, <2>1 DEF Adds, Recorded
  <2> QED BY <1>3, <2>2 DEF Adds, IInv, SameContent
<1>4. ASSUME UNCHANGED entries PROVE UnrecordedIsBlank'
  BY <1>4 DEF IInv, Recorded, Exists
<1> QED
  BY <1>1, <1>2, <1>3, <1>4, PostsAdds, ReversesAdds DEF EntriesChange

\* No step closes a year twice, reopens one or removes one.
LEMMA YearsGrow ==
  ASSUME TypeOK, [Next]_vars
  PROVE  \A y \in Years : /\ years[y] # "absent" => years'[y] # "absent"
                          /\ years[y] = "closed" => years'[y] = "closed"
<1> USE DEF TypeOK
<1>1. CASE UNCHANGED years
  BY <1>1
<1>2. ASSUME NEW c \in Clients, NEW y \in Years, CreateFiscalYearInsert(c, y)
      PROVE  years[y] = "absent" /\ years' = [years EXCEPT ![y] = "open"]
  BY <1>2 DEF CreateFiscalYearInsert
<1>3. ASSUME NEW c \in Clients, NEW y \in Years, NEW id \in Ids,
             CloseFiscalYearCommit(c, y, id)
      PROVE  years' = [years EXCEPT ![y] = "closed"]
  BY <1>3 DEF CloseFiscalYearCommit
<1>4. CASE JournalNext
  BY <1>1, <1>4 DEF JournalNext, CreateJournalEntry, PostJournalEntry,
     ReverseJournalEntry, DeleteJournalEntryRead, DeleteJournalEntryWrite
<1>5. CASE DocumentNext
  BY <1>1, <1>5 DEF DocumentNext, PostDocument, ReverseDocumentRead, ReverseDocumentWrite
<1>6. CASE CalendarNext
  BY <1>1, <1>2, <1>3, <1>6 DEF CalendarNext, CreateFiscalYearCheck,
     CloseFiscalYearRead, CreateFiscalPeriodCheck, CreateFiscalPeriodInsert,
     UpdateFiscalPeriodStatusRead, UpdateFiscalPeriodStatusWrite, SetAccountActive
<1> QED BY <1>1, <1>4, <1>5, <1>6 DEF Next, Fail, vars

\* An entry that exists stays in a year that exists and covers its date.
LEMMA WithinYearStep ==
  ASSUME IInv, EntriesChange,
         \A y \in Years : years[y] # "absent" => years'[y] # "absent"
  PROVE  EntryWithinItsYear'
<1> USE DEF EntryWithinItsYear, Exists
<1>1. ASSUME NEW id \in Ids, Deletes(id) PROVE EntryWithinItsYear'
  BY <1>1 DEF Deletes, IInv, TypeOK, NoEntry
<1>2. ASSUME NEW id \in Ids, NEW e \in Entry, Inserts(id, e)
      PROVE  EntryWithinItsYear'
  BY <1>2 DEF Inserts, IsDraft, InOpenYear, OpenYear, IInv, TypeOK
<1>3. ASSUME NEW id \in Ids, NEW e \in Entry, Adds(id, e), IsDraft(e)
      PROVE  EntryWithinItsYear'
  <2>1. entries'[id].year = e.year /\ entries'[id].date = e.date
    BY <1>3, FinalizedEntry DEF Adds, SameContent
  <2>2. /\ e.year \in Years /\ years[e.year] # "absent"
        /\ Covers(YearSpan[e.year], e.date)
    BY <1>3 DEF IsDraft, InOpenYear, OpenYear
  <2> QED BY <1>3, <2>1, <2>2 DEF Adds, IInv, SameContent
<1>4. ASSUME UNCHANGED entries PROVE EntryWithinItsYear'
  BY <1>4 DEF IInv
<1> QED
  BY <1>1, <1>2, <1>3, <1>4, PostsAdds, ReversesAdds DEF EntriesChange

\* Finalizing an entry appends one number to its year's journal.
LEMMA NumbersGrow ==
  ASSUME IInv, NEW id \in Ids, NEW e, IsDraft(e), ~Recorded(id), Adds(id, e)
  PROVE  NumbersAreInterval'
<1> DEFINE Y == e.year
           K == e.journal
<1>1. PICK n \in Nat : Numbers(Y, K) = 1..n
  BY DEF IInv, NumbersAreInterval, IsDraft, InOpenYear
<1>2. /\ entries'[id].number = n + 1
      /\ entries'[id].year = Y
      /\ entries'[id].journal = K
      /\ entries[id].number = 0
      /\ Recorded(id)'
  <2>1. NextNumber(Y, K) = n + 1
    BY <1>1, NextNumberContinues
  <2> QED BY <2>1, FinalizedEntry DEF Adds, SameContent, IInv, UnrecordedIsBlank, Recorded
<1>3. \A k \in Ids \ {id} : /\ entries'[k].number = entries[k].number
                            /\ entries'[k].year = entries[k].year
                            /\ entries'[k].journal = entries[k].journal
                            /\ Recorded(k)' <=> Recorded(k)
  BY DEF Adds, SameContent
<1>4. \A k \in Ids : entries[k].number \in Nat
  BY DEF IInv, TypeOK, Entry
<1>5. \A y \in Years, j \in Journals :
        Numbers(y, j)' = IF y = Y /\ j = K THEN Numbers(y, j) \cup {n + 1}
                                           ELSE Numbers(y, j)
  BY <1>2, <1>3 DEF Numbers
<1>6. \A y \in Years, j \in Journals : \E m \in Nat : Numbers(y, j)' = 1..m
  <2> TAKE y \in Years, j \in Journals
  <2>1. CASE y = Y /\ j = K
    <3>1. Numbers(y, j)' = (1..n) \cup {n + 1}
      BY <1>1, <1>5, <2>1
    <3>2. (1..n) \cup {n + 1} = 1..(n + 1) /\ n + 1 \in Nat
      OBVIOUS
    <3> QED BY <3>1, <3>2
  <2>2. CASE ~(y = Y /\ j = K)
    BY <1>5, <2>2 DEF IInv, NumbersAreInterval
  <2> QED BY <2>1, <2>2
<1>7. \A k \in Ids \ {id} :
        ~ /\ entries'[k].number = n + 1
          /\ entries'[k].year = Y
          /\ entries'[k].journal = K
  <2> SUFFICES ASSUME NEW k \in Ids \ {id}, entries[k].number = n + 1,
                      entries[k].year = Y, entries[k].journal = K
               PROVE  FALSE
    BY <1>3
  <2>1. n + 1 \in Numbers(Y, K)
    BY DEF Numbers
  <2> QED BY <1>1, <2>1
<1>8. \A i, k \in Ids : /\ entries'[i].number > 0
                        /\ entries'[k].number = entries'[i].number
                        /\ entries'[k].year = entries'[i].year
                        /\ entries'[k].journal = entries'[i].journal
                        => i = k
  BY <1>2, <1>3, <1>7 DEF IInv, NumbersAreInterval
<1>9. \A i \in Ids : Recorded(i)' => entries'[i].number > 0
  BY <1>2, <1>3 DEF IInv, NumbersAreInterval
<1> QED BY <1>6, <1>8, <1>9 DEF NumbersAreInterval

\* A step that records nothing leaves the numbers as they are.
LEMMA NumbersKept ==
  ASSUME IInv, NEW id \in Ids, ~Recorded(id), ~Recorded(id)', entries'[id].number = 0,
         \A k \in Ids \ {id} : entries'[k] = entries[k]
  PROVE  NumbersAreInterval'
<1>1. entries[id].number = 0
  BY DEF IInv, UnrecordedIsBlank
<1>2. \A k \in Ids : /\ entries'[k].number = entries[k].number
                     /\ entries[k].number > 0 => entries'[k] = entries[k]
                     /\ Recorded(k)' <=> Recorded(k)
  BY <1>1 DEF Recorded
<1>3. \A y \in Years, j \in Journals : Numbers(y, j)' = Numbers(y, j)
  BY <1>2 DEF Numbers
<1> QED BY <1>2, <1>3 DEF IInv, NumbersAreInterval

LEMMA NumbersStep ==
  ASSUME IInv, EntriesChange PROVE NumbersAreInterval'
<1>1. ASSUME NEW id \in Ids, Deletes(id) PROVE NumbersAreInterval'
  <2>1. /\ ~Recorded(id) /\ ~Recorded(id)' /\ entries'[id].number = 0
        /\ \A k \in Ids \ {id} : entries'[k] = entries[k]
    BY <1>1 DEF Deletes, IInv, TypeOK, Recorded, NoEntry
  <2> QED BY <2>1, NumbersKept
<1>2. ASSUME NEW id \in Ids, NEW e \in Entry, Inserts(id, e)
      PROVE  NumbersAreInterval'
  <2>1. /\ ~Recorded(id) /\ ~Recorded(id)' /\ entries'[id].number = 0
        /\ \A k \in Ids \ {id} : entries'[k] = entries[k]
    BY <1>2 DEF Inserts, IsDraft, Fresh, IInv, TypeOK, Recorded
  <2> QED BY <2>1, NumbersKept
<1>3. ASSUME UNCHANGED entries PROVE NumbersAreInterval'
  BY <1>3 DEF IInv, NumbersAreInterval, Numbers, Recorded
<1> QED
  BY <1>1, <1>2, <1>3, PostsAdds, ReversesAdds, NumbersGrow DEF EntriesChange

\* Live entries come from Posts steps only.
LEMMA LiveStep ==
  ASSUME IInv, EntriesChange,
         \A y \in Years : years[y] = "closed" => years'[y] = "closed"
  PROVE  OneLiveEntry' /\ ClosingMeansClosed'
<1> USE DEF OneLiveEntry, ClosingMeansClosed
<1>1. ASSUME \A doc \in SourceDocs \ {None} : LiveEntries(doc)' \subseteq LiveEntries(doc)
      PROVE  OneLiveEntry' /\ ClosingMeansClosed'
  BY <1>1, ConstantsAssumption DEF IInv, SourceDocs
<1>2. ASSUME NEW id \in Ids, Deletes(id) PROVE OneLiveEntry' /\ ClosingMeansClosed'
  <2>1. \A doc : LiveEntries(doc)' \subseteq LiveEntries(doc)
    BY <1>2 DEF Deletes, LiveEntries, NoEntry, IInv, TypeOK
  <2> QED BY <1>1, <2>1
<1>3. ASSUME NEW id \in Ids, NEW e \in Entry, Inserts(id, e)
      PROVE  OneLiveEntry' /\ ClosingMeansClosed'
  <2>1. \A doc : LiveEntries(doc)' \subseteq LiveEntries(doc)
    BY <1>3 DEF Inserts, IsDraft, LiveEntries, IInv, TypeOK
  <2> QED BY <1>1, <2>1
<1>4. ASSUME NEW id \in Ids, NEW e \in Entry, Posts(id, e)
      PROVE  OneLiveEntry' /\ ClosingMeansClosed'
  <2>1. /\ entries'[id].doc = e.doc
        /\ \A k \in Ids \ {id} : entries'[k] = entries[k]
    BY <1>4, FinalizedEntry DEF Posts, SameContent, IInv, TypeOK
  <2>2. \A doc \in SourceDocs \ {None} :
          LiveEntries(doc)' \subseteq IF doc = e.doc THEN {id} ELSE LiveEntries(doc)
    <3> TAKE doc \in SourceDocs \ {None}
    <3>1. doc = e.doc => LiveEntries(doc) = {}
      BY <1>4 DEF Posts
    <3> QED BY <2>1, <3>1 DEF LiveEntries
  <2>3. OneLiveEntry'
    BY <2>2 DEF IInv
  <2>4. \A y \in Years : LiveEntries(y)' # {} => y = e.doc \/ LiveEntries(y) # {}
    BY <2>2, ConstantsAssumption DEF SourceDocs
  <2> QED BY <1>4, <2>3, <2>4 DEF Posts, IInv
<1>5. ASSUME NEW i \in Ids, NEW id \in Ids, NEW e \in Entry, Reverses(i, id, e)
      PROVE  OneLiveEntry' /\ ClosingMeansClosed'
  <2>1. /\ entries'[id].reversalOf = i /\ i # None
        /\ entries'[i].status = "reversed"
        /\ \A k \in Ids \ {id, i} : entries'[k] = entries[k]
    <3>1. /\ Adds(id, e) /\ IsDraft(e)
          /\ entries'[i] = [entries[i] EXCEPT !.status = "reversed"]
          /\ \A k \in Ids \ {id, i} : entries'[k] = entries[k]
      BY <1>5, ReversesAdds
    <3>2. entries'[id].reversalOf = e.reversalOf
      BY <3>1, FinalizedEntry DEF Adds, SameContent
    <3>3. e.reversalOf = i /\ i # None
      BY <1>5, ConstantsAssumption DEF Reverses
    <3>4. entries[i] \in Entry
      BY DEF IInv, TypeOK
    <3>5. entries'[i].status = "reversed"
      BY <3>1, <3>4 DEF Entry
    <3> QED BY <3>1, <3>2, <3>3, <3>5
  <2>2. \A doc : LiveEntries(doc)' \subseteq LiveEntries(doc)
    BY <2>1 DEF LiveEntries
  <2> QED BY <1>1, <2>2
<1>6. ASSUME UNCHANGED entries PROVE OneLiveEntry' /\ ClosingMeansClosed'
  BY <1>1, <1>6 DEF LiveEntries
<1> QED BY <1>2, <1>3, <1>4, <1>5, <1>6 DEF EntriesChange

\* Reversal entries come from Reverses steps, one for each reversed original.
LEMMA ReversalsStep ==
  ASSUME IInv, EntriesChange PROVE ReversalsPair'
<1> USE DEF ReversalsPair
<1>0. None \notin Ids
  BY ConstantsAssumption
<1>1. ASSUME NEW id \in Ids, ~Recorded(id), entries'[id].reversalOf = None,
             entries'[id].status # "reversed",
             \A k \in Ids \ {id} : entries'[k] = entries[k]
      PROVE  ReversalsPair'
  <2>1. \A k \in Ids : entries'[k].reversalOf # None \/ entries[k].reversalOf # None
                      => k # id
    BY <1>1 DEF IInv, UnrecordedIsBlank
  <2>2. \A k \in Ids : Recorded(k) /\ entries[k].reversalOf # None
                      => /\ entries[k].reversalOf \in Ids
                         /\ entries[entries[k].reversalOf].status = "reversed"
                         /\ entries[k].reversalOf # id
    BY <1>1, <1>0 DEF IInv, TypeOK, Entry, Recorded
  <2>3. \A k \in Ids : Recorded(k)' /\ entries'[k].reversalOf # None
                      <=> Recorded(k) /\ entries[k].reversalOf # None
    BY <1>1, <2>1 DEF Recorded
  <2>4. \A k \in Ids : entries'[k].status = "reversed" <=> entries[k].status = "reversed"
    BY <1>1 DEF Recorded
  <2>5. \A k \in Ids : entries'[k].reversalOf # None => entries'[k] = entries[k]
    BY <1>1
  <2> QED BY <1>0, <1>1, <2>1, <2>2, <2>3, <2>4, <2>5 DEF IInv
<1>2. ASSUME NEW id \in Ids, Deletes(id) PROVE ReversalsPair'
  <2>1. /\ ~Recorded(id) /\ entries'[id].reversalOf = None
        /\ entries'[id].status # "reversed"
        /\ \A k \in Ids \ {id} : entries'[k] = entries[k]
    BY <1>2 DEF Deletes, NoEntry, Recorded, IInv, TypeOK
  <2> QED BY <1>1, <2>1
<1>3. ASSUME NEW id \in Ids, NEW e \in Entry, Inserts(id, e) PROVE ReversalsPair'
  <2>1. /\ ~Recorded(id) /\ entries'[id].reversalOf = None
        /\ entries'[id].status # "reversed"
        /\ \A k \in Ids \ {id} : entries'[k] = entries[k]
    BY <1>3 DEF Inserts, IsDraft, Fresh, Recorded, IInv, TypeOK
  <2> QED BY <1>1, <2>1
<1>4. ASSUME NEW id \in Ids, NEW e \in Entry, Posts(id, e) PROVE ReversalsPair'
  <2>1. Adds(id, e) /\ ~Recorded(id) /\ IsDraft(e)
    BY <1>4, PostsAdds
  <2>2. /\ entries'[id].reversalOf = None /\ entries'[id].status # "reversed"
        /\ \A k \in Ids \ {id} : entries'[k] = entries[k]
    BY <1>4, <2>1, FinalizedEntry DEF Posts, Adds, SameContent, IInv, TypeOK
  <2> QED BY <1>1, <2>1, <2>2
<1>5. ASSUME NEW i \in Ids, NEW id \in Ids, NEW e \in Entry, Reverses(i, id, e)
      PROVE  ReversalsPair'
  <2>1. /\ Adds(id, e) /\ ~Recorded(id) /\ IsDraft(e) /\ id # i
        /\ entries'[i] = [entries[i] EXCEPT !.status = "reversed"]
        /\ \A k \in Ids \ {id, i} : entries'[k] = entries[k]
    BY <1>5, ReversesAdds
  <2>2. /\ entries[i] \in Entry /\ entries[i].status = "posted"
        /\ e.reversalOf = i /\ e.lines = Mirror(entries[i].lines)
        /\ e.journal = entries[i].journal /\ e.doc = entries[i].doc
    BY <1>5 DEF Reverses, IInv, TypeOK
  <2>3. /\ entries'[id].status = "posted" /\ entries'[id].reversalOf = i
        /\ entries'[id].lines = Mirror(entries[i].lines)
        /\ entries'[id].journal = entries[i].journal
        /\ entries'[id].doc = entries[i].doc
    BY <2>1, <2>2, FinalizedEntry DEF Adds, SameContent
  <2>4. entries'[i].status = "reversed" /\ SameContent(entries'[i], entries[i])
    BY <2>1, <2>2 DEF Entry, SameContent
  <2>5. \A k \in Ids : Recorded(k) => entries[k].reversalOf # i
    BY <2>2, <1>0 DEF IInv
  <2>6. \A k \in Ids \ {id} : /\ Recorded(k)' <=> Recorded(k)
                              /\ SameContent(entries'[k], entries[k])
    BY <2>1 DEF Adds
  <2>7. \A k \in Ids \ {id, i} : entries'[k].status = "reversed"
                                 <=> entries[k].status = "reversed"
    BY <2>1
  <2>8. \A k \in Ids : Recorded(k) /\ entries[k].reversalOf # None
                      => /\ entries[k].reversalOf \in Ids
                         /\ entries[k].reversalOf # id
    BY <2>1 DEF IInv, TypeOK, Entry, Recorded
  <2>9. Recorded(id)' /\ ~Recorded(id) /\ entries[id].status # "reversed"
    BY <2>1, <2>3 DEF Recorded
  <2>10. \A m \in Ids : entries'[m].status = "reversed" <=>
                           \E k \in Ids : Recorded(k)' /\ entries'[k].reversalOf = m
    <3> TAKE m \in Ids
    <3>1. CASE m = i
      BY <2>3, <2>4, <2>9, <3>1
    <3>2. CASE m = id
      BY <1>0, <2>1, <2>3, <2>6, <2>8, <3>2 DEF SameContent
    <3>3. CASE m # i /\ m # id
      BY <2>3, <2>6, <2>7, <2>9, <3>3 DEF IInv, SameContent
    <3> QED BY <3>1, <3>2, <3>3
  <2>11. ASSUME NEW k \in Ids, Recorded(k)', entries'[k].reversalOf # None
         PROVE  LET r == entries'[k].reversalOf IN
                /\ entries'[k].lines = Mirror(entries'[r].lines)
                /\ entries'[k].journal = entries'[r].journal
                /\ entries'[k].doc = entries'[r].doc
                /\ \A m \in Ids : Recorded(m)' /\ entries'[m].reversalOf = r => m = k
    <3>1. CASE k = id
      BY <2>1, <2>3, <2>4, <2>5, <2>6, <3>1 DEF SameContent
    <3>2. CASE k # id
      <4> DEFINE r == entries[k].reversalOf
      <4>1. Recorded(k) /\ r # None /\ SameContent(entries'[k], entries[k])
        BY <2>6, <2>11, <3>2 DEF SameContent
      <4>2. r \in Ids /\ r # id /\ r # i
        BY <2>5, <2>8, <4>1
      <4>3. SameContent(entries'[r], entries[r]) /\ entries'[k].reversalOf = r
        BY <2>6, <4>1, <4>2 DEF SameContent
      <4>4. /\ entries[k].lines = Mirror(entries[r].lines)
            /\ entries[k].journal = entries[r].journal
            /\ entries[k].doc = entries[r].doc
            /\ \A m \in Ids : Recorded(m) /\ entries[m].reversalOf = r => m = k
        BY <4>1 DEF IInv
      <4>5. \A m \in Ids : Recorded(m)' /\ entries'[m].reversalOf = r => m = k
        BY <2>3, <2>6, <4>2, <4>4 DEF SameContent
      <4> QED BY <4>1, <4>3, <4>4, <4>5 DEF SameContent
    <3> QED BY <3>1, <3>2
  <2> QED BY <2>10, <2>11
<1>6. ASSUME UNCHANGED entries PROVE ReversalsPair'
  BY <1>6 DEF IInv, Recorded
<1> QED BY <1>2, <1>3, <1>4, <1>5, <1>6 DEF EntriesChange

-----------------------------------------------------------------------------
(* The invariant and the theorems.                                         *)

LEMMA IInvInit == Init => IInv
<1> SUFFICES ASSUME Init PROVE IInv
  OBVIOUS
<1>1. NoEntry \in Entry
  BY ConstantsAssumption
     DEF NoEntry, Entry, Statuses, SourceDocs, ZeroLines, Lines, Money
<1>2. \A i \in Ids : entries[i] = NoEntry
  BY DEF Init
<1>3. TypeOK
  BY <1>1 DEF Init, TypeOK, Idle, Request
<1>4. NumbersAreInterval
  <2>1. \A y, j : Numbers(y, j) = {}
    BY <1>2 DEF Numbers, NoEntry
  <2>2. {} = 1..0 /\ 0 \in Nat
    OBVIOUS
  <2>3. \A i \in Ids : entries[i].number = 0 /\ ~Recorded(i)
    BY <1>2 DEF Recorded, NoEntry
  <2>4. \A y \in Years, j \in Journals : \E n \in Nat : Numbers(y, j) = 1..n
    <3>1. \A y \in Years, j \in Journals : Numbers(y, j) = 1..0
      BY <2>1, <2>2
    <3> QED BY <3>1, <2>2
  <2> QED BY <2>3, <2>4 DEF NumbersAreInterval
<1>5. \A doc : LiveEntries(doc) = {}
  BY <1>2 DEF LiveEntries, NoEntry
<1>6. UnrecordedIsBlank /\ EntryWithinItsYear /\ ReversalsPair
  BY <1>2 DEF UnrecordedIsBlank, EntryWithinItsYear, ReversalsPair, NoEntry,
              Recorded, Exists
<1> QED BY <1>3, <1>4, <1>5, <1>6 DEF IInv, OneLiveEntry, ClosingMeansClosed

LEMMA IInvStep == IInv /\ [Next]_vars => IInv'
<1> SUFFICES ASSUME IInv, [Next]_vars PROVE IInv'
  OBVIOUS
<1>1. EntriesChange
  BY EntryChange
<1>2. TypeOK'
  <2>1. TypeOK
    BY DEF IInv
  <2> QED BY <1>1, <2>1, EntriesTypeStep, CalendarTypeStep DEF TypeOK, CalendarType
<1>3. \A y \in Years : /\ years[y] # "absent" => years'[y] # "absent"
                       /\ years[y] = "closed" => years'[y] = "closed"
  BY YearsGrow DEF IInv
<1> QED
  BY <1>1, <1>2, <1>3, UnrecordedStep, WithinYearStep, NumbersStep, LiveStep,
     ReversalsStep DEF IInv

\* The inductive invariant holds of every reachable state.
THEOREM LedgerInvariant == Spec => []IInv
BY IInvInit, IInvStep, PTL DEF Spec

\* Type correctness of the ledger.
THEOREM LedgerTypeOK == Spec => []TypeOK
<1>1. IInv => TypeOK
  BY DEF IInv
<1> QED BY <1>1, LedgerInvariant, PTL

\* Entry numbers are gapless and unique in every year's journal.
THEOREM LedgerGapless == Spec => []GaplessNumbers
<1>1. ASSUME IInv PROVE GaplessNumbers
  <2> SUFFICES ASSUME NEW i \in Ids, Recorded(i)
               PROVE  /\ entries[i].number > 0
                      /\ \A k \in Ids \ {i} : ~ /\ Recorded(k)
                                                /\ entries[k].year = entries[i].year
                                                /\ entries[k].journal = entries[i].journal
                                                /\ entries[k].number = entries[i].number
                      /\ \A m \in 1..entries[i].number :
                           \E k \in Ids : /\ Recorded(k)
                                          /\ entries[k].year = entries[i].year
                                          /\ entries[k].journal = entries[i].journal
                                          /\ entries[k].number = m
    BY DEF GaplessNumbers
  <2> DEFINE y == entries[i].year
             j == entries[i].journal
  <2>1. y \in Years /\ j \in Journals /\ entries[i].number \in Nat
    BY <1>1 DEF IInv, TypeOK, Entry, EntryWithinItsYear, UnrecordedIsBlank,
                Recorded, Exists
  <2>2. entries[i].number > 0
    BY <1>1 DEF IInv, NumbersAreInterval
  <2>3. PICK n \in Nat : Numbers(y, j) = 1..n
    BY <1>1, <2>1 DEF IInv, NumbersAreInterval
  <2>4. entries[i].number \in Numbers(y, j)
    BY <2>2 DEF Numbers
  <2>5. \A m \in 1..entries[i].number : m \in Numbers(y, j)
    BY <2>1, <2>3, <2>4
  <2>6. \A k \in Ids : entries[k].number > 0 => Recorded(k)
    BY <1>1 DEF IInv, UnrecordedIsBlank
  <2>7. \A m \in 1..entries[i].number :
          \E k \in Ids : /\ Recorded(k)
                         /\ entries[k].year = y
                         /\ entries[k].journal = j
                         /\ entries[k].number = m
    BY <2>5, <2>6 DEF Numbers
  <2>8. \A k \in Ids \ {i} : ~ /\ Recorded(k)
                               /\ entries[k].year = y
                               /\ entries[k].journal = j
                               /\ entries[k].number = entries[i].number
    BY <1>1, <2>2 DEF IInv, NumbersAreInterval
  <2> QED BY <2>2, <2>7, <2>8
<1> QED BY <1>1, LedgerInvariant, PTL

\* Every reversed entry has exactly one mirror, and only those have one.
THEOREM LedgerReversalsPair == Spec => []ReversalsPair
<1>1. IInv => ReversalsPair
  BY DEF IInv
<1> QED BY <1>1, LedgerInvariant, PTL

\* No document and no closed year has two live entries.
THEOREM LedgerOneLiveEntry == Spec => []OneLiveEntry
<1>1. IInv => OneLiveEntry
  BY DEF IInv
<1> QED BY <1>1, LedgerInvariant, PTL

\* Every entry is dated within the year it belongs to.
THEOREM LedgerWithinYear == Spec => []EntryWithinItsYear
<1>1. IInv => EntryWithinItsYear
  BY DEF IInv
<1> QED BY <1>1, LedgerInvariant, PTL

\* A recorded entry never changes but to be reversed by its mirror.
THEOREM LedgerImmutable == Spec => PostedNeverChanges
<1>1. ASSUME IInv, [Next]_vars PROVE RecordedIsImmutable
  <2>1. ASSUME NEW id \in Ids, ~Recorded(id),
               \A k \in Ids \ {id} : entries'[k] = entries[k]
        PROVE  RecordedIsImmutable
    BY <2>1 DEF RecordedIsImmutable
  <2>2. ASSUME NEW id \in Ids, Deletes(id) PROVE RecordedIsImmutable
    BY <1>1, <2>1, <2>2 DEF Deletes, Recorded, IInv, TypeOK
  <2>3. ASSUME NEW id \in Ids, NEW e \in Entry, Inserts(id, e)
        PROVE  RecordedIsImmutable
    BY <1>1, <2>1, <2>3 DEF Inserts, Fresh, Recorded, IInv, TypeOK
  <2>4. ASSUME NEW id \in Ids, NEW e \in Entry, Posts(id, e)
        PROVE  RecordedIsImmutable
    <3>1. ~Recorded(id) /\ \A k \in Ids \ {id} : entries'[k] = entries[k]
      BY <1>1, <2>4, PostsAdds DEF Posts, IInv, TypeOK
    <3> QED BY <2>1, <3>1
  <2>5. ASSUME NEW i \in Ids, NEW id \in Ids, NEW e \in Entry, Reverses(i, id, e)
        PROVE  RecordedIsImmutable
    <3>1. /\ Adds(id, e) /\ ~Recorded(id) /\ IsDraft(e)
          /\ entries'[i] = [entries[i] EXCEPT !.status = "reversed"]
          /\ \A k \in Ids \ {id, i} : entries'[k] = entries[k]
      BY <1>1, <2>5, ReversesAdds
    <3>2. /\ Fresh(id) /\ entries[i].status = "posted"
          /\ e.reversalOf = i /\ e.lines = Mirror(entries[i].lines)
      BY <2>5 DEF Reverses
    <3>3. /\ entries'[id].status = "posted" /\ entries'[id].reversalOf = i
          /\ entries'[id].lines = Mirror(entries[i].lines)
      BY <1>1, <3>1, <3>2, FinalizedEntry DEF Adds, SameContent
    <3> QED BY <3>1, <3>2, <3>3 DEF RecordedIsImmutable
  <2>6. EntriesChange
    BY <1>1, EntryChange
  <2>7. ASSUME UNCHANGED entries PROVE RecordedIsImmutable
    BY <2>7 DEF RecordedIsImmutable
  <2> QED BY <2>2, <2>3, <2>4, <2>5, <2>6, <2>7 DEF EntriesChange
<1>2. IInv /\ [Next]_vars => [RecordedIsImmutable]_vars
  BY <1>1
<1> QED BY <1>2, LedgerInvariant, PTL DEF Spec, PostedNeverChanges

\* No step adds an entry to a closed year, takes one away or reopens it.
LEMMA SealedStep == IInv /\ [Next]_vars => SealedYears
<1> SUFFICES ASSUME IInv, [Next]_vars PROVE SealedYears
  OBVIOUS
<1>1. \A y \in Years : years[y] = "closed" => years'[y] = "closed"
  BY YearsGrow DEF IInv
<1>2. ASSUME NEW id \in Ids, NEW e \in Entry, Adds(id, e), ~Recorded(id), IsDraft(e)
      PROVE  SealedYears
  <2>1. entries'[id].year = e.year /\ years[e.year] # "closed"
    BY <1>2, FinalizedEntry
       DEF Adds, SameContent, IsDraft, InOpenYear, OpenYear
  <2> QED BY <1>1, <1>2, <2>1 DEF SealedYears, Adds, SameContent
<1>3. ASSUME NEW id \in Ids, ~Recorded(id), ~Recorded(id)',
             \A k \in Ids \ {id} : entries'[k] = entries[k]
      PROVE  SealedYears
  BY <1>1, <1>3 DEF SealedYears, Recorded
<1>4. ASSUME NEW id \in Ids, Deletes(id) PROVE SealedYears
  <2>1. /\ ~Recorded(id) /\ ~Recorded(id)'
        /\ \A k \in Ids \ {id} : entries'[k] = entries[k]
    BY <1>4 DEF Deletes, NoEntry, Recorded, IInv, TypeOK
  <2> QED BY <1>3, <2>1
<1>5. ASSUME NEW id \in Ids, NEW e \in Entry, Inserts(id, e) PROVE SealedYears
  <2>1. /\ ~Recorded(id) /\ ~Recorded(id)'
        /\ \A k \in Ids \ {id} : entries'[k] = entries[k]
    BY <1>5 DEF Inserts, IsDraft, Fresh, Recorded, IInv, TypeOK
  <2> QED BY <1>3, <2>1
<1>6. ASSUME UNCHANGED entries PROVE SealedYears
  BY <1>1, <1>6 DEF SealedYears, Recorded
<1>7. EntriesChange
  BY EntryChange
<1> QED
  BY <1>2, <1>4, <1>5, <1>6, <1>7, PostsAdds, ReversesAdds DEF EntriesChange

\* No step adds an entry to a closed year, takes one away or reopens it.
THEOREM LedgerYearsSealed == Spec => ClosedYearsStaySealed
<1>1. IInv /\ [Next]_vars => [SealedYears]_vars
  BY SealedStep
<1> QED BY <1>1, LedgerInvariant, PTL DEF Spec, ClosedYearsStaySealed

\* A closed period is entered only by a draft saved before it closed or by the
\* closing entry of the year (resolveFiscalPeriodForDateOpts).
THEOREM LedgerPeriodsAdmit == Spec => ClosedPeriodsAdmitOnlyDrafts
<1> DEFINE Admitted(i) == \/ entries[i].status = "draft"
                          \/ entries'[i].doc \in Years
                          \/ PeriodAdmits(entries'[i].year, entries'[i].date)
<1>1. ASSUME IInv, [Next]_vars, NEW i \in Ids, ~Recorded(i), Recorded(i)' PROVE Admitted(i)
  <2>1. ASSUME NEW id \in Ids, NEW e \in Entry, Adds(id, e), IsDraft(e),
               \/ entries[id].status = "draft" \/ e.doc \in Years
               \/ PeriodAdmits(e.year, e.date)
        PROVE  Admitted(i)
    <3>1. i = id
      BY <1>1, <2>1 DEF Adds
    <3>2. /\ entries'[id].doc = e.doc /\ entries'[id].year = e.year
          /\ entries'[id].date = e.date
      BY <1>1, <2>1, FinalizedEntry DEF Adds, SameContent
    <3> QED BY <2>1, <3>1, <3>2
  <2>2. ASSUME NEW id \in Ids, NEW e \in Entry, Posts(id, e) PROVE Admitted(i)
    BY <1>1, <2>1, <2>2, PostsAdds DEF Posts
  <2>3. ASSUME NEW k \in Ids, NEW id \in Ids, NEW e \in Entry, Reverses(k, id, e)
        PROVE  Admitted(i)
    BY <1>1, <2>1, <2>3, ReversesAdds DEF Reverses
  <2>4. ASSUME NEW id \in Ids, Deletes(id) PROVE FALSE
    BY <1>1, <2>4 DEF Deletes, NoEntry, Recorded, IInv, TypeOK
  <2>5. ASSUME NEW id \in Ids, NEW e \in Entry, Inserts(id, e) PROVE FALSE
    BY <1>1, <2>5 DEF Inserts, IsDraft, Recorded, IInv, TypeOK
  <2>6. ~UNCHANGED entries
    BY <1>1 DEF Recorded
  <2>7. EntriesChange
    BY <1>1, EntryChange
  <2> QED BY <2>2, <2>3, <2>4, <2>5, <2>6, <2>7 DEF EntriesChange
<1>2. IInv /\ [Next]_vars =>
        [\A i \in Ids : ~Recorded(i) /\ Recorded(i)' =>
           \/ entries[i].status = "draft"
           \/ entries'[i].doc \in Years
           \/ PeriodAdmits(entries'[i].year, entries'[i].date)]_vars
  BY <1>1
<1> QED BY <1>2, LedgerInvariant, PTL DEF Spec, ClosedPeriodsAdmitOnlyDrafts

-----------------------------------------------------------------------------
(* Ledger implements Journal, for every set of entries, years, documents   *)
(* and requests in flight. Five ways of changing the entries (EntryChange) *)
(* map to three ways of changing the book.                                 *)

(* The book.                                                               *)

\* What the book shows of an entry.
Shown(e) == [number |-> e.number, year |-> e.year, journal |-> e.journal,
             lines |-> e.lines, doc |-> e.doc,
             reversalOf |-> e.reversalOf, status |-> e.status]

LEMMA BookRow ==
  ASSUME NEW i \in Ids
  PROVE  /\ Recorded(i) => Book[i] = Shown(entries[i])
         /\ ~Recorded(i) => Book[i] = [number |-> 0]
BY DEF Book, Shown

LEMMA BookRowNext ==
  ASSUME NEW i \in Ids
  PROVE  /\ Recorded(i)' => Book'[i] = Shown(entries'[i])
         /\ ~Recorded(i)' => Book'[i] = [number |-> 0]
BY DEF Book, Shown, Recorded

\* An entry is in the book when it is recorded.
LEMMA EnteredIsRecorded ==
  ASSUME IInv, NEW i \in Ids PROVE J!Entered(i) <=> Recorded(i)
<1>1. CASE Recorded(i)
  <2>1. entries[i].number > 0
    BY <1>1 DEF IInv, NumbersAreInterval
  <2>2. Book[i] = Shown(entries[i])
    BY <1>1, BookRow
  <2>3. Book[i].number = entries[i].number
    BY <2>2 DEF Shown
  <2> QED BY <1>1, <2>1, <2>3 DEF J!Entered
<1>2. CASE ~Recorded(i)
  <2>1. Book[i].number = 0
    BY <1>2, BookRow
  <2> QED BY <1>2, <2>1 DEF J!Entered
<1> QED BY <1>1, <1>2

\* The standing entries of a document are the live ones.
LEMMA StandingIsLive ==
  ASSUME IInv, NEW doc PROVE J!Standing(doc) = LiveEntries(doc)
<1>1. ASSUME NEW i \in Ids PROVE i \in J!Standing(doc) <=> i \in LiveEntries(doc)
  <2>1. CASE Recorded(i)
    <3>1. Book[i] = Shown(entries[i])
      BY <2>1, BookRow
    <3>3. /\ Book[i].doc = entries[i].doc /\ Book[i].reversalOf = entries[i].reversalOf
          /\ Book[i].status = entries[i].status
      BY <3>1 DEF Shown
    <3>4. J!Entered(i)
      BY <2>1, EnteredIsRecorded
    <3> QED BY <3>3, <3>4 DEF J!Standing, LiveEntries
  <2>2. CASE ~Recorded(i)
    BY <2>2, EnteredIsRecorded DEF J!Standing, LiveEntries, Recorded
  <2> QED BY <2>1, <2>2
<1> QED BY <1>1 DEF J!Standing, LiveEntries

\* The next number continues the numbers in the book.
LEMMA NextContinues ==
  ASSUME IInv, NEW y \in Years, NEW j \in Journals
  PROVE  J!Continues(y, j, NextNumber(y, j))
<1>1. PICK n \in Nat : Numbers(y, j) = 1..n
  BY DEF IInv, NumbersAreInterval
<1>2. NextNumber(y, j) = n + 1
  BY <1>1, NextNumberContinues
<1> DEFINE Taken(m) == \E k \in Ids : /\ J!Entered(k) /\ Book[k].year = y
                                      /\ Book[k].journal = j /\ Book[k].number = m
<1>3. ASSUME NEW m \in Nat \ {0} PROVE Taken(m) <=> m \in Numbers(y, j)
  <2>1. ASSUME NEW k \in Ids
        PROVE  (/\ J!Entered(k) /\ Book[k].year = y
                /\ Book[k].journal = j /\ Book[k].number = m)
               <=> (/\ entries[k].year = y /\ entries[k].journal = j
                    /\ entries[k].number > 0 /\ entries[k].number = m)
    <3>1. CASE Recorded(k)
      <4>1. Book[k] = Shown(entries[k]) /\ entries[k].number > 0
        BY <3>1, BookRow DEF IInv, NumbersAreInterval
      <4> QED BY <3>1, <4>1, EnteredIsRecorded DEF Shown
    <3>2. CASE ~Recorded(k)
      BY <3>2, EnteredIsRecorded DEF IInv, UnrecordedIsBlank
    <3> QED BY <3>1, <3>2
  <2> QED BY <2>1 DEF Numbers
<1>4. ~Taken(n + 1) /\ \A m \in 1..n : Taken(m)
  BY <1>1, <1>3
<1>5. (n + 1) - 1 = n
  OBVIOUS
<1> QED BY <1>2, <1>4, <1>5 DEF J!Continues

-----------------------------------------------------------------------------
(* Steps.                                                                  *)

\* Years are opened and closed once, as the book's calendar has it.
LEMMA CalendarStep ==
  ASSUME TypeOK, [Next]_vars PROVE J!Calendar
<1> USE DEF TypeOK, J!Calendar
<1>1. CASE UNCHANGED years
  BY <1>1
<1>2. ASSUME NEW c \in Clients, NEW y \in Years, CreateFiscalYearInsert(c, y)
      PROVE  J!Calendar
  BY <1>2 DEF CreateFiscalYearInsert
<1>3. ASSUME NEW c \in Clients, NEW y \in Years, NEW id \in Ids,
             CloseFiscalYearCommit(c, y, id)
      PROVE  J!Calendar
  BY <1>3 DEF CloseFiscalYearCommit, OpenYear
<1>4. CASE JournalNext
  BY <1>1, <1>4 DEF JournalNext, CreateJournalEntry, PostJournalEntry,
     ReverseJournalEntry, DeleteJournalEntryRead, DeleteJournalEntryWrite
<1>5. CASE DocumentNext
  BY <1>1, <1>5 DEF DocumentNext, PostDocument, ReverseDocumentRead, ReverseDocumentWrite
<1>6. CASE CalendarNext
  BY <1>1, <1>2, <1>3, <1>6 DEF CalendarNext, CreateFiscalYearCheck,
     CloseFiscalYearRead, CreateFiscalPeriodCheck, CreateFiscalPeriodInsert,
     UpdateFiscalPeriodStatusRead, UpdateFiscalPeriodStatusWrite, SetAccountActive
<1> QED BY <1>1, <1>4, <1>5, <1>6 DEF Next, Fail, vars

\* A new recorded entry appears in the book as an entry made.
LEMMA AddsAdds ==
  ASSUME IInv, NEW id \in Ids, NEW e \in Entry, IsDraft(e), Balanced(e.lines), ~Recorded(id),
         entries'[id] = Finalized(e), NEW rest \in SUBSET Ids,
         \A k \in rest : entries'[k] = entries[k]
  PROVE  /\ J!Adds(id, rest)
         /\ Book'[id] = Shown(Finalized(e))
<1>1. /\ NextNumber(e.year, e.journal) \in Nat \ {0}
      /\ Finalized(e).status = "posted"
      /\ Finalized(e).number = NextNumber(e.year, e.journal)
      /\ SameContent(Finalized(e), e)
  BY FinalizedEntry
<1>2. Recorded(id)' /\ Book'[id] = Shown(Finalized(e))
  BY <1>1, BookRowNext DEF Recorded
<1>3. ~J!Entered(id) /\ J!Entered(id)'
  BY <1>1, <1>2, EnteredIsRecorded DEF J!Entered, Shown
<1>4. /\ e.year \in Years /\ e.journal \in Journals /\ years[e.year] = "open"
      /\ e.lines \in {l \in Lines : Balanced(l)}
  BY DEF IsDraft, InOpenYear, OpenYear, Entry
<1>5. J!Continues(e.year, e.journal, NextNumber(e.year, e.journal))
  BY <1>4, NextContinues
<1>6. \A k \in rest : Book'[k] = Book[k]
  BY BookRow, BookRowNext DEF Recorded
<1>7. /\ Book'[id].year = e.year /\ Book'[id].journal = e.journal
      /\ Book'[id].lines = e.lines /\ Book'[id].status = "posted"
      /\ Book'[id].number = NextNumber(e.year, e.journal)
  BY <1>1, <1>2 DEF Shown, SameContent
<1> QED BY <1>2, <1>3, <1>4, <1>5, <1>6, <1>7 DEF J!Adds

\* Every change of the entries is one of the book, or leaves it.
LEMMA BookStep ==
  ASSUME IInv, EntriesChange
  PROVE  \/ UNCHANGED Book
         \/ \E i \in Ids : J!Enter(i)
         \/ \E k \in Ids, i \in Ids : J!Correct(k, i)
<1>1. ASSUME NEW id \in Ids, ~Recorded(id), ~Recorded(id)',
             \A k \in Ids \ {id} : entries'[k] = entries[k]
      PROVE  UNCHANGED Book
  <2>1. \A i \in Ids : Recorded(i)' <=> Recorded(i)
    BY <1>1 DEF Recorded
  <2>2. \A i \in Ids : Recorded(i) => entries'[i] = entries[i]
    BY <1>1
  <2> QED BY <2>1, <2>2 DEF Book
<1>2. ASSUME NEW id \in Ids, Deletes(id) PROVE UNCHANGED Book
  <2>1. /\ ~Recorded(id) /\ ~Recorded(id)'
        /\ \A k \in Ids \ {id} : entries'[k] = entries[k]
    BY <1>2 DEF Deletes, NoEntry, Recorded, IInv, TypeOK
  <2> QED BY <1>1, <2>1
<1>3. ASSUME NEW id \in Ids, NEW e \in Entry, Inserts(id, e) PROVE UNCHANGED Book
  <2>1. /\ ~Recorded(id) /\ ~Recorded(id)'
        /\ \A k \in Ids \ {id} : entries'[k] = entries[k]
    BY <1>3 DEF Inserts, IsDraft, Fresh, Recorded, IInv, TypeOK
  <2> QED BY <1>1, <2>1
<1>4. ASSUME NEW id \in Ids, NEW e \in Entry, Posts(id, e) PROVE J!Enter(id)
  <2>1. /\ ~Recorded(id) /\ IsDraft(e) /\ entries'[id] = Finalized(e)
        /\ \A k \in Ids \ {id} : entries'[k] = entries[k]
    BY <1>4, PostsAdds DEF Posts, IInv, TypeOK, Adds
  <2>2. J!Adds(id, Ids \ {id}) /\ Book'[id] = Shown(Finalized(e))
    BY <1>4, <2>1, AddsAdds DEF Posts
  <2>3. Book'[id].reversalOf = None /\ Book'[id].doc = e.doc
    BY <1>4, <2>1, <2>2, FinalizedEntry DEF Posts, SameContent, Shown
  <2>4. /\ e.doc # None => J!Standing(e.doc) = {}
        /\ e.doc \in Years => years'[e.doc] = "closed"
    BY <1>4, StandingIsLive DEF Posts
  <2> QED BY <2>2, <2>3, <2>4 DEF J!Enter
<1>5. ASSUME NEW i \in Ids, NEW id \in Ids, NEW e \in Entry, Reverses(i, id, e)
      PROVE  J!Correct(i, id)
  <2>1. /\ ~Recorded(id) /\ IsDraft(e) /\ id # i
        /\ entries'[id] = Finalized(e)
        /\ entries'[i] = [entries[i] EXCEPT !.status = "reversed"]
        /\ \A k \in Ids \ {id, i} : entries'[k] = entries[k]
    BY <1>5, ReversesAdds DEF Adds
  <2>2. J!Adds(id, Ids \ {id, i}) /\ Book'[id] = Shown(Finalized(e))
    <3>1. Balanced(e.lines) /\ IInv
      BY <1>5 DEF Reverses
    <3> QED BY ONLY <1>5, <2>1, <3>1, AddsAdds
  <2>3. /\ Book'[id].reversalOf = i /\ Book'[id].lines = Mirror(entries[i].lines)
        /\ Book'[id].journal = entries[i].journal /\ Book'[id].doc = entries[i].doc
    BY <1>5, <2>1, <2>2, FinalizedEntry DEF Reverses, SameContent, Shown
  <2>4. /\ entries[i] \in Entry /\ entries[i].status = "posted" /\ Recorded(i)
        /\ Book[i] = Shown(entries[i])
    BY <1>5, BookRow DEF Reverses, IInv, TypeOK, Recorded
  <2>5. entries'[i].status = "reversed" /\ Recorded(i)' /\ Book'[i] = Shown(entries'[i])
    BY <2>1, <2>4, BookRowNext DEF Entry, Recorded
  <2>6. Book'[i] = [Book[i] EXCEPT !.status = "reversed"]
    BY <2>1, <2>4, <2>5 DEF Shown, Entry
  <2>7. /\ J!Entered(i) /\ Book[i].status = "posted"
        /\ Book[i].lines = entries[i].lines /\ Book[i].journal = entries[i].journal
        /\ Book[i].doc = entries[i].doc
    BY <2>4, EnteredIsRecorded DEF Shown
  <2>8. J!Mirrored(Book[i].lines) = Mirror(entries[i].lines)
    BY <2>7 DEF J!Mirrored, Mirror
  <2>9. Ids \ {id, i} = Ids \ {i, id}
    OBVIOUS
  <2> QED BY <2>2, <2>3, <2>6, <2>7, <2>8, <2>9 DEF J!Correct
<1>6. ASSUME UNCHANGED entries PROVE UNCHANGED Book
  BY <1>6 DEF Book, Recorded
<1> QED BY <1>2, <1>3, <1>4, <1>5, <1>6 DEF EntriesChange

\* Every behaviour of the ledger's handlers is one of the append-only,
\* gaplessly numbered book of Journal.
THEOREM LedgerImplementsJournal == Spec => KeepsTheBook
<1>1. Init => J!Init
  <2> SUFFICES ASSUME Init PROVE J!Init
    OBVIOUS
  <2>1. \A i \in Ids : ~Recorded(i)
    BY DEF Init, NoEntry, Recorded
  <2>2. Book = [i \in Ids |-> [number |-> 0]]
    BY <2>1 DEF Book
  <2>3. \A y \in Years : years[y] \in {"absent", "open"}
    BY DEF Init
  <2> QED BY <2>2, <2>3 DEF J!Init, J!Blank
<1>2. IInv /\ [Next]_vars => [J!Next]_<<Book, years>>
  <2> SUFFICES ASSUME IInv, [Next]_vars PROVE J!Next
    OBVIOUS
  <2>1. J!Calendar
    BY CalendarStep DEF IInv
  <2>2. \/ UNCHANGED Book
        \/ \E i \in Ids : J!Enter(i)
        \/ \E k \in Ids, i \in Ids : J!Correct(k, i)
    BY EntryChange, BookStep
  <2> QED BY <2>1, <2>2 DEF J!Next
<1> QED BY <1>1, <1>2, LedgerInvariant, PTL DEF Spec, KeepsTheBook, J!Spec
-----------------------------------------------------------------------------
(* The reports. They add up lines of recorded entries, so what they need   *)
(* of the ledger is that each of those balances, that a closing entry is   *)
(* in the year it closes and is never reversed, and that what is left of   *)
(* income in a closed year is nothing. The third rests on years that are   *)
(* apart: a closing entry's year is found again by its date.               *)

YearsApart == \A y, z \in Years : y # z => ~Overlap(YearSpan[y], YearSpan[z])

RecordedBalances ==
  \A i \in Ids : Recorded(i) => Balanced(entries[i].lines) /\ entries[i].lines["header"] = 0

Stands(i) ==
  /\ entries[i].status = "posted" /\ entries[i].reversalOf = None
  /\ entries[i].year = entries[i].doc
  /\ entries[i].lines["revenue"] + entries[i].lines["expense"] + entries[i].lines["retained"] = 0

ClosingsStand == \A i \in Ids : Recorded(i) /\ entries[i].doc \in Years => Stands(i)

\* A reversal under way is of a document's entry.
ReversalsOfDocs ==
  \A c \in Clients : req[c].op = "reverseEntry" =>
    /\ req[c].arg \in Ids
    /\ Recorded(req[c].arg) /\ entries[req[c].arg].doc \in Docs

FinitelyRecorded == IsFiniteSet({i \in Ids : Recorded(i)})

RInv == /\ RecordedBalances
        /\ ClosingsStand
        /\ ReversalsOfDocs
        /\ FinitelyRecorded
        /\ ClosedYearZeroed

\* What is recorded stays recorded, with its content.
LEMMA RecordedKept ==
  ASSUME IInv, [Next]_vars, NEW i \in Ids, Recorded(i)
  PROVE  Recorded(i)' /\ SameContent(entries'[i], entries[i])
<1>1. CASE UNCHANGED entries
  BY <1>1 DEF Recorded, SameContent
<1>2. ASSUME NEW id \in Ids, Deletes(id) PROVE Recorded(i)' /\ SameContent(entries'[i], entries[i])
  <2>1. entries'[i] = entries[i]
    BY <1>2 DEF Deletes, Recorded, IInv, TypeOK
  <2> QED BY <2>1 DEF Recorded, SameContent
<1>3. ASSUME NEW id \in Ids, NEW e \in Entry, Inserts(id, e)
      PROVE  Recorded(i)' /\ SameContent(entries'[i], entries[i])
  <2>1. entries'[i] = entries[i]
    BY <1>3 DEF Inserts, Fresh, Recorded, IInv, TypeOK
  <2> QED BY <2>1 DEF Recorded, SameContent
<1>4. ASSUME NEW id \in Ids, NEW e, Adds(id, e), ~Recorded(id)
      PROVE  Recorded(i)' /\ SameContent(entries'[i], entries[i])
  BY <1>4 DEF Adds
<1> QED BY <1>1, <1>2, <1>3, <1>4, EntryChange, PostsAdds, ReversesAdds DEF EntriesChange

\* What becomes recorded is one finalized entry.
Recording(id, e) ==
  /\ entries'[id] = Finalized(e) /\ IsDraft(e)
  /\ Balanced(e.lines) /\ e.lines["header"] = 0
  /\ \A k \in Ids \ {id} : Recorded(k)' => Recorded(k)

LEMMA RecordedGrows ==
  ASSUME IInv, [Next]_vars
  PROVE  \/ \A k \in Ids : Recorded(k)' => Recorded(k)
         \/ \E id \in Ids, e \in Entry : ~Recorded(id) /\ Recording(id, e)
<1>1. CASE UNCHANGED entries
  BY <1>1 DEF Recorded
<1>2. ASSUME NEW id \in Ids, Deletes(id) PROVE \A k \in Ids : Recorded(k)' => Recorded(k)
  BY <1>2 DEF Deletes, NoEntry, Recorded, IInv, TypeOK
<1>3. ASSUME NEW id \in Ids, NEW e \in Entry, Inserts(id, e)
      PROVE  \A k \in Ids : Recorded(k)' => Recorded(k)
  BY <1>3 DEF Inserts, IsDraft, Recorded, IInv, TypeOK
<1>4. ASSUME NEW id \in Ids, NEW e \in Entry, Posts(id, e)
      PROVE  ~Recorded(id) /\ Recording(id, e)
  <2>1. Adds(id, e) /\ ~Recorded(id) /\ IsDraft(e)
    BY <1>4, PostsAdds
  <2> QED BY <1>4, <2>1 DEF Adds, Posts, Recording
<1>5. ASSUME NEW i \in Ids, NEW id \in Ids, NEW e \in Entry, Reverses(i, id, e)
      PROVE  ~Recorded(id) /\ Recording(id, e)
  <2>1. Adds(id, e) /\ ~Recorded(id) /\ IsDraft(e)
    BY <1>5, ReversesAdds
  <2> QED BY <1>5, <2>1 DEF Adds, Reverses, Recording
<1> QED BY <1>1, <1>2, <1>3, <1>4, <1>5, EntryChange DEF EntriesChange

LEMMA BalancesStep ==
  ASSUME IInv, RecordedBalances, [Next]_vars
  PROVE  RecordedBalances'
<1> SUFFICES ASSUME NEW i \in Ids, Recorded(i)'
             PROVE  Balanced(entries'[i].lines) /\ entries'[i].lines["header"] = 0
  BY DEF RecordedBalances
<1>1. CASE Recorded(i)
  <2>1. entries'[i].lines = entries[i].lines
    BY <1>1, RecordedKept DEF SameContent
  <2> QED BY <1>1, <2>1 DEF RecordedBalances
<1>2. CASE ~Recorded(i)
  <2>1. PICK e \in Entry : Recording(i, e)
    BY <1>2, RecordedGrows DEF Recording
  <2>2. entries'[i].lines = e.lines
    BY <2>1, FinalizedEntry DEF Recording, SameContent
  <2> QED BY <2>1, <2>2 DEF Recording
<1> QED BY <1>1, <1>2

LEMMA FiniteStep ==
  ASSUME IInv, FinitelyRecorded, [Next]_vars
  PROVE  FinitelyRecorded'
<1> DEFINE before == {i \in Ids : Recorded(i)}
<1>1. PICK id : {i \in Ids : Recorded(i)'} \subseteq before \cup {id}
  BY RecordedGrows DEF Recording
<1>2. IsFiniteSet(before \cup {id})
  BY FS_AddElement DEF FinitelyRecorded
<1> QED BY <1>1, <1>2, FS_Subset DEF FinitelyRecorded

\* A reversal under way was parked by a handler that read a document's live
\* entry (ReverseDocumentRead).
LEMMA ReversalsParked ==
  ASSUME TypeOK, [Next]_vars, NEW c \in Clients, req'[c].op = "reverseEntry"
  PROVE  \/ req'[c] = req[c]
         \/ \E i \in Ids : ReverseDocumentRead(c, i) /\ req'[c].arg = i
<1> USE DEF TypeOK
<1>1. ASSUME NEW k \in Clients, NEW op, NEW arg, Park(k, op, arg), op # "reverseEntry"
      PROVE  req'[c] = req[c]
  BY <1>1 DEF Park
<1>2. ASSUME NEW k \in Clients, NEW op, NEW arg, Resume(k, op, arg)
      PROVE  req'[c] = req[c]
  BY <1>2 DEF Resume, Idle
<1>3. CASE JournalNext
  BY <1>1, <1>2, <1>3 DEF JournalNext, CreateJournalEntry, PostJournalEntry,
     ReverseJournalEntry, DeleteJournalEntryRead, DeleteJournalEntryWrite
<1>4. CASE DocumentNext
  <2>1. ASSUME NEW k \in Clients, NEW i \in Ids, ReverseDocumentRead(k, i)
        PROVE  req'[c] = req[c] \/ (k = c /\ req'[c].arg = i)
    BY <2>1 DEF ReverseDocumentRead, Park
  <2>2. ASSUME NEW k \in Clients, NEW i, NEW id, NEW d, ReverseDocumentWrite(k, i, id, d)
        PROVE  req'[c] = req[c]
    BY <1>2, <2>2 DEF ReverseDocumentWrite
  <2> QED BY <1>4, <2>1, <2>2 DEF DocumentNext, PostDocument
<1>5. CASE CalendarNext
  <2>1. ASSUME NEW k \in Clients, NEW y \in Years,
               \/ CreateFiscalYearCheck(k, y) \/ CreateFiscalYearInsert(k, y)
               \/ CloseFiscalYearRead(k, y)
               \/ \E id \in Ids : CloseFiscalYearCommit(k, y, id)
        PROVE  req'[c] = req[c]
    BY <1>1, <1>2, <2>1 DEF CreateFiscalYearCheck, CreateFiscalYearInsert,
       CloseFiscalYearRead, CloseFiscalYearCommit
  <2>2. ASSUME NEW k \in Clients, NEW p \in Periods,
               \/ CreateFiscalPeriodCheck(k, p) \/ CreateFiscalPeriodInsert(k, p)
               \/ \E op \in {"openPeriod", "closePeriod"} : UpdateFiscalPeriodStatusRead(k, p, op)
               \/ UpdateFiscalPeriodStatusWrite(k, p)
        PROVE  req'[c] = req[c]
    BY <1>1, <1>2, <2>2 DEF CreateFiscalPeriodCheck, CreateFiscalPeriodInsert,
       UpdateFiscalPeriodStatusRead, UpdateFiscalPeriodStatusWrite
  <2> QED BY <1>5, <2>1, <2>2 DEF CalendarNext, SetAccountActive
<1>6. ASSUME NEW k \in Clients, Fail(k) PROVE req'[c] = req[c]
  BY <1>6 DEF Fail, Idle
<1> QED BY <1>3, <1>4, <1>5, <1>6 DEF Next, vars

LEMMA ReversalsOfDocsStep ==
  ASSUME IInv, ReversalsOfDocs, [Next]_vars
  PROVE  ReversalsOfDocs'
<1> SUFFICES ASSUME NEW c \in Clients, req'[c].op = "reverseEntry"
             PROVE  \E i \in Ids : req'[c].arg = i /\ Recorded(i)' /\ entries'[i].doc \in Docs
  BY DEF ReversalsOfDocs, Recorded
<1>1. \E i \in Ids : req'[c].arg = i /\ Recorded(i) /\ entries[i].doc \in Docs
  <2>1. CASE req'[c] = req[c]
    BY <2>1 DEF ReversalsOfDocs
  <2>2. ASSUME NEW i \in Ids, ReverseDocumentRead(c, i), req'[c].arg = i
        PROVE  Recorded(i) /\ entries[i].doc \in Docs
    BY <2>2 DEF ReverseDocumentRead, LiveEntries, Recorded
  <2> QED BY <2>1, <2>2, ReversalsParked DEF IInv
<1> QED BY <1>1, RecordedKept DEF SameContent

\* A step that is no close: no year closes, and a recorded entry of a year is
\* one that was there and has not changed.
PlainStep ==
  /\ \A y \in Years : years'[y] = "closed" => years[y] = "closed"
  /\ \A i \in Ids : Recorded(i)' /\ entries'[i].doc \in Years =>
       Recorded(i) /\ entries'[i] = entries[i]

LEMMA PlainChange ==
  ASSUME IInv, NEW id \in Ids, entries'[id].status \in {"draft", "deleted"} \/ entries'[id].doc \notin Years,
         \A k \in Ids \ {id} : entries'[k] = entries[k],
         UNCHANGED years
  PROVE  PlainStep
BY DEF PlainStep, Recorded

LEMMA PlainReversal ==
  ASSUME IInv, NEW i \in Ids, NEW id \in Ids, NEW d, entries[i].doc \notin Years,
         ReverseEntry(i, id, d), UNCHANGED years
  PROVE  PlainStep
<1>1. PICK y : /\ Fresh(id) /\ entries[i].status = "posted"
               /\ entries' = [entries EXCEPT ![id] = Finalized(ReversalOf(i, y, d)),
                                             ![i].status = "reversed"]
  BY DEF ReverseEntry, ReversalAdmitted
<1>2. id # i
  BY <1>1 DEF Fresh
<1>3. /\ entries'[id] = Finalized(ReversalOf(i, y, d))
      /\ entries'[i] = [entries[i] EXCEPT !.status = "reversed"]
      /\ \A k \in Ids \ {id, i} : entries'[k] = entries[k]
  BY <1>1, <1>2 DEF IInv, TypeOK
<1>4. entries'[id].doc = entries[i].doc
  BY <1>3 DEF Finalized, ReversalOf
<1>5. entries'[i].doc = entries[i].doc
  BY <1>3 DEF IInv, TypeOK, Entry
<1> QED BY <1>3, <1>4, <1>5 DEF PlainStep, Recorded

LEMMA PlainSteps ==
  ASSUME IInv, ReversalsOfDocs, [Next]_vars
  PROVE  \/ PlainStep
         \/ \E c \in Clients, y \in Years, id \in Ids : CloseFiscalYearCommit(c, y, id)
<1> None \notin Years /\ Docs \cap Years = {}
  BY ConstantsAssumption
<1>1. ASSUME NEW id \in Ids, NEW j \in Journals, NEW d, NEW l, CreateJournalEntry(id, j, d, l)
      PROVE  PlainStep
  <2>1. entries'[id].status = "draft" /\ \A k \in Ids \ {id} : entries'[k] = entries[k]
    BY <1>1 DEF CreateJournalEntry, IInv, TypeOK
  <2> QED BY <1>1, <2>1, PlainChange DEF CreateJournalEntry
<1>2. ASSUME NEW id \in Ids, PostJournalEntry(id) PROVE PlainStep
  <2>1. entries[id].doc = None /\ entries[id] \in Entry
    BY <1>2 DEF PostJournalEntry, IInv, TypeOK, UnrecordedIsBlank, Recorded
  <2>2. entries'[id].doc = None /\ \A k \in Ids \ {id} : entries'[k] = entries[k]
    BY <1>2, <2>1 DEF PostJournalEntry, Finalized, Entry, IInv, TypeOK
  <2> QED BY <1>2, <2>2, PlainChange DEF PostJournalEntry
<1>3. ASSUME NEW i \in Ids, NEW id \in Ids, NEW d, ReverseJournalEntry(i, id, d)
      PROVE  PlainStep
  BY <1>3, PlainReversal DEF ReverseJournalEntry
<1>4. ASSUME NEW c \in Clients, NEW id \in Ids, DeleteJournalEntryWrite(c, id)
      PROVE  PlainStep
  <2>1. entries'[id].status = "deleted" /\ \A k \in Ids \ {id} : entries'[k] = entries[k]
    BY <1>4 DEF DeleteJournalEntryWrite, NoEntry, IInv, TypeOK
  <2> QED BY <1>4, <2>1, PlainChange DEF DeleteJournalEntryWrite
<1>5. ASSUME NEW doc \in Docs, NEW id \in Ids, NEW d, NEW l, PostDocument(doc, id, d, l)
      PROVE  PlainStep
  <2>1. PICK y : entries' = [entries EXCEPT ![id] = Finalized(
                   [status |-> "draft", year |-> y, journal |-> DocJournal,
                    date |-> d, number |-> 0, lines |-> l,
                    doc |-> doc, reversalOf |-> None])]
    BY <1>5 DEF PostDocument, PostAutoEntry
  <2>2. entries'[id].doc = doc /\ \A k \in Ids \ {id} : entries'[k] = entries[k]
    BY <2>1 DEF Finalized, IInv, TypeOK
  <2> QED BY <1>5, <2>2, PlainChange DEF PostDocument
<1>6. ASSUME NEW c \in Clients, NEW i \in Ids, NEW id \in Ids, NEW d, ReverseDocumentWrite(c, i, id, d)
      PROVE  PlainStep
  <2>1. entries[i].doc \in Docs
    BY <1>6 DEF ReverseDocumentWrite, Resume, ReversalsOfDocs
  <2> QED BY <1>6, <2>1, PlainReversal DEF ReverseDocumentWrite
<1>7. ASSUME UNCHANGED entries, UNCHANGED years PROVE PlainStep
  BY <1>7 DEF PlainStep, Recorded
<1>8. ASSUME NEW c \in Clients, NEW y \in Years, CreateFiscalYearInsert(c, y) PROVE PlainStep
  BY <1>8 DEF CreateFiscalYearInsert, PlainStep, Recorded, IInv, TypeOK
<1>9. CASE JournalNext
  BY <1>1, <1>2, <1>3, <1>4, <1>7, <1>9 DEF JournalNext, DeleteJournalEntryRead
<1>10. CASE DocumentNext
  BY <1>5, <1>6, <1>7, <1>10 DEF DocumentNext, ReverseDocumentRead
<1>11. CASE CalendarNext
  BY <1>7, <1>8, <1>11 DEF CalendarNext, CreateFiscalYearCheck,
       CloseFiscalYearRead, CreateFiscalPeriodCheck,
       CreateFiscalPeriodInsert, UpdateFiscalPeriodStatusRead,
       UpdateFiscalPeriodStatusWrite, SetAccountActive
<1> QED BY <1>7, <1>9, <1>10, <1>11 DEF Next, Fail, vars

\* What is recorded in a year.
InYear(y) == {i \in Ids : Recorded(i) /\ entries[i].year = y}

LEMMA MovedTyped ==
  ASSUME TypeOK, NEW a \in Accounts, NEW i \in Ids
  PROVE  Moved(a)[i] = entries[i].lines[a] /\ Moved(a)[i] \in Int
<1>1. entries[i].lines \in [Accounts -> Money]
  BY DEF TypeOK, Entry, Lines
<1>2. entries[i].lines[a] \in Money
  BY <1>1
<1>3. Money \subseteq Int
  BY ConstantsAssumption DEF Money
<1> QED BY <1>2, <1>3 DEF Moved

LEMMA InYearFinite ==
  ASSUME FinitelyRecorded, NEW y
  PROVE  IsFiniteSet(InYear(y))
<1>1. InYear(y) \subseteq {i \in Ids : Recorded(i)}
  BY DEF InYear
<1> QED BY <1>1, FS_Subset DEF FinitelyRecorded

LEMMA ActivityTyped ==
  ASSUME TypeOK, FinitelyRecorded, NEW y, NEW a \in Accounts
  PROVE  Activity(y, a) = Total(Moved(a), InYear(y)) /\ Activity(y, a) \in Int
<1>1. Activity(y, a) = Total(Moved(a), InYear(y))
  BY DEF Activity, InYear
<1>2. \A i \in InYear(y) : Moved(a)[i] \in Int
  BY MovedTyped DEF InYear
<1> QED BY <1>1, <1>2, InYearFinite, TotalType

\* A year nothing is recorded in keeps its activity.
LEMMA ActivityKept ==
  ASSUME IInv, FinitelyRecorded, [Next]_vars, NEW y, NEW a \in Accounts, InYear(y)' = InYear(y)
  PROVE  Activity(y, a)' = Activity(y, a)
<1>1. ASSUME NEW i \in InYear(y) PROVE Moved(a)[i] = Moved(a)'[i] /\ Moved(a)[i] \in Int
  <2>1. i \in Ids /\ Recorded(i)
    BY DEF InYear
  <2>2. entries'[i].lines = entries[i].lines
    BY <2>1, RecordedKept DEF SameContent
  <2> QED BY <2>1, <2>2, MovedTyped DEF Moved, IInv
<1>2. Total(Moved(a), InYear(y)) = Total(Moved(a)', InYear(y))
  BY <1>1, InYearFinite, TotalEqual
<1>3. Activity(y, a)' = Total(Moved(a)', InYear(y)')
  BY DEF Activity, InYear
<1> QED BY <1>2, <1>3, ActivityTyped DEF IInv

\* A plain step keeps what closed years were left with.
LEMMA PlainKeeps ==
  ASSUME IInv, ClosingsStand, FinitelyRecorded, ClosedYearZeroed, [Next]_vars, PlainStep
  PROVE  ClosingsStand' /\ ClosedYearZeroed'
<1>1. ClosingsStand'
  BY DEF ClosingsStand, Stands, PlainStep
<1>2. ASSUME NEW y \in Years, years'[y] = "closed"
      PROVE  Activity(y, "revenue")' = 0 /\ Activity(y, "expense")' = 0
  <2>1. years[y] = "closed"
    BY <1>2 DEF PlainStep
  <2>2. InYear(y)' = InYear(y)
    BY <2>1, SealedStep DEF SealedYears, InYear
  <2>3. "revenue" \in Accounts /\ "expense" \in Accounts
    BY DEF Accounts
  <2> QED BY <2>1, <2>2, <2>3, ActivityKept DEF ClosedYearZeroed
<1> QED BY <1>1, <1>2 DEF ClosedYearZeroed

\* The closing entry of y, where years are apart, is in y.
LEMMA ClosingWithin ==
  ASSUME YearsApart, NEW y \in Years, OpenYear(y), NEW z, z \in ResolvedFor(YearSpan[y].end, TRUE)
  PROVE  z = y
<1>1. z \in Years /\ Covers(YearSpan[z], YearSpan[y].end)
  BY ResolvedIsOpen
<1>2. YearSpan[y].start < YearSpan[y].end
  BY ConstantsAssumption
<1>3. \A x \in Years : YearSpan[x].start \in Nat /\ YearSpan[x].end \in Nat
  BY ConstantsAssumption
<1>4. Overlap(YearSpan[y], YearSpan[z])
  BY <1>1, <1>2, <1>3 DEF Overlap, Covers
<1> QED BY <1>1, <1>4 DEF YearsApart

ClosingEntry(y) == ClosingOf(y, y)

\* What a close does: nothing to the entries if there is no income to carry,
\* or it records the closing entry of the year.
LEMMA CommitDoes ==
  ASSUME YearsApart, IInv, NEW c \in Clients, NEW y \in Years, NEW id \in Ids,
         CloseFiscalYearCommit(c, y, id)
  PROVE  /\ \A w \in Years \ {y} : years'[w] = years[w]
         /\ \/ ClosingLines(y) = ZeroLines /\ UNCHANGED entries
            \/ /\ ~Recorded(id) /\ ClosingLines(y) \in Lines
               /\ entries'[id] = Finalized(ClosingEntry(y))
               /\ \A k \in Ids \ {id} : entries'[k] = entries[k]
<1>1. OpenYear(y) /\ years' = [years EXCEPT ![y] = "closed"]
  BY DEF CloseFiscalYearCommit
<1>2. CASE PostClosingEntry(y, id)
  <2>1. PICK z \in Years :
          ClosingAdmitted(y, z, id) /\ PostAutoEntry(id, ClosingOf(y, z), FALSE)
    BY <1>2 DEF PostClosingEntry
  <2>2. z \in ResolvedFor(YearSpan[y].end, TRUE)
    BY <2>1 DEF AutoEntryAdmitted, ClosingAdmitted, ClosingOf
  <2>3. z = y
    BY <1>1, <2>2, ClosingWithin
  <2>4. Fresh(id) /\ entries' = [entries EXCEPT ![id] = Finalized(ClosingEntry(y))]
    BY <2>1, <2>3 DEF PostAutoEntry, AutoEntryAdmitted, ClosingEntry
  <2>5. entries'[id] = Finalized(ClosingEntry(y)) /\ \A k \in Ids \ {id} : entries'[k] = entries[k]
    BY <2>4 DEF IInv, TypeOK
  <2>6. ClosingLines(y) \in Lines
    BY <2>1 DEF ClosingAdmitted
  <2> QED BY <1>1, <2>4, <2>5, <2>6 DEF Fresh, Recorded, IInv, TypeOK
<1> QED BY <1>1, <1>2 DEF CloseFiscalYearCommit, IInv, TypeOK

LEMMA ClosingLinesAre ==
  ASSUME NEW y
  PROVE  /\ ClosingLines(y)["revenue"] = -Activity(y, "revenue")
         /\ ClosingLines(y)["expense"] = -Activity(y, "expense")
         /\ ClosingLines(y)["retained"] = Activity(y, "revenue") + Activity(y, "expense")
BY DEF ClosingLines, Accounts

LEMMA FinalizedClosing ==
  ASSUME NEW y
  PROVE  LET e == Finalized(ClosingEntry(y)) IN
         /\ e.status = "posted" /\ e.reversalOf = None /\ e.year = y /\ e.doc = y
         /\ e.lines = ClosingLines(y)
BY DEF Finalized, ClosingEntry, ClosingOf

\* Closing a year zeroes its income and leaves what other years had alone.
LEMMA CommitKeeps ==
  ASSUME YearsApart, IInv, ClosingsStand, FinitelyRecorded, ClosedYearZeroed, [Next]_vars,
         NEW c \in Clients, NEW y \in Years, NEW id \in Ids, CloseFiscalYearCommit(c, y, id)
  PROVE  ClosingsStand' /\ ClosedYearZeroed'
<1> "revenue" \in Accounts /\ "expense" \in Accounts
  BY DEF Accounts
<1> TypeOK
  BY DEF IInv
<1>1. Activity(y, "revenue") \in Int /\ Activity(y, "expense") \in Int
  BY ActivityTyped
<1>2. \A w \in Years \ {y} : years'[w] = years[w]
  BY CommitDoes
<1>3. CASE ClosingLines(y) = ZeroLines /\ UNCHANGED entries
  <2>1. ClosingsStand'
    BY <1>3 DEF ClosingsStand, Stands, Recorded
  <2>2. \A w, a : Activity(w, a)' = Activity(w, a)
    BY <1>3 DEF Activity, Moved, Recorded
  <2>3. Activity(y, "revenue") = 0 /\ Activity(y, "expense") = 0
    <3>1. ClosingLines(y)["revenue"] = 0 /\ ClosingLines(y)["expense"] = 0
      BY <1>3 DEF ZeroLines
    <3> QED BY <1>1, <3>1, ClosingLinesAre
  <2> QED BY <1>2, <2>1, <2>2, <2>3 DEF ClosedYearZeroed
<1>4. CASE /\ ~Recorded(id)
           /\ entries'[id] = Finalized(ClosingEntry(y))
           /\ \A k \in Ids \ {id} : entries'[k] = entries[k]
  <2>1. /\ entries'[id].status = "posted" /\ entries'[id].reversalOf = None
        /\ entries'[id].year = y /\ entries'[id].doc = y
        /\ entries'[id].lines = ClosingLines(y)
    BY <1>4, FinalizedClosing
  <2>2. ClosingsStand'
    <3>1. Stands(id)'
      BY <1>1, <2>1, ClosingLinesAre DEF Stands
    <3>2. \A i \in Ids \ {id} : Recorded(i)' /\ entries'[i].doc \in Years => Stands(i)'
      BY <1>4 DEF ClosingsStand, Stands, Recorded
    <3> QED BY <3>1, <3>2 DEF ClosingsStand
  <2>3. ASSUME NEW w \in Years \ {y}, NEW a \in Accounts
        PROVE  Activity(w, a)' = Activity(w, a)
    <3>1. InYear(w)' = InYear(w)
      BY <1>4, <2>1 DEF InYear, Recorded
    <3> QED BY <3>1, ActivityKept
  <2>4. ASSUME NEW a \in {"revenue", "expense"}
        PROVE  Activity(y, a)' = 0
    <3> DEFINE now == InYear(y) \cup {id}
               all == Moved(a)'
    <3>1. a \in Accounts /\ Activity(y, a) = Total(Moved(a), InYear(y)) /\ Activity(y, a) \in Int
      BY ActivityTyped DEF Accounts
    <3>2. InYear(y)' = now
      BY <1>4, <2>1 DEF InYear, Recorded
    <3>3. id \notin InYear(y)
      BY <1>4 DEF InYear
    <3>4. all[id] = -Activity(y, a)
      <4>1. all[id] = entries'[id].lines[a]
        BY DEF Moved
      <4> QED BY <2>1, <4>1, ClosingLinesAre
    <3>5. ASSUME NEW i \in InYear(y) PROVE Moved(a)[i] = all[i] /\ Moved(a)[i] \in Int
      <4>1. i \in Ids /\ entries'[i] = entries[i]
        BY <1>4, <3>3 DEF InYear
      <4> QED BY <3>1, <4>1, MovedTyped DEF Moved
    <3>6. IsFiniteSet(now) /\ id \in now /\ now \ {id} = InYear(y)
      BY <3>3, InYearFinite, FS_AddElement
    <3>7. Activity(y, a)' = Total(all, now)
      BY <3>2 DEF Activity, InYear
    <3> HIDE DEF now, all
    <3>8. Total(Moved(a), InYear(y)) = Total(all, InYear(y))
      BY <3>5, InYearFinite, TotalEqual
    <3>9. \A i \in now : all[i] \in Int
      BY <3>1, <3>4, <3>5, <3>6
    <3>10. Total(all, now) = all[id] + Total(all, InYear(y))
      BY <3>6, <3>9, TotalRemove
    <3> QED BY <3>1, <3>4, <3>7, <3>8, <3>10
  <2> QED BY <1>2, <2>2, <2>3, <2>4 DEF ClosedYearZeroed
<1> QED BY <1>3, <1>4, CommitDoes

LEMMA RInvStep == YearsApart => (IInv /\ RInv /\ [Next]_vars => RInv')
<1> SUFFICES ASSUME YearsApart, IInv, RInv, [Next]_vars PROVE RInv'
  OBVIOUS
<1>1. RecordedBalances' /\ ReversalsOfDocs' /\ FinitelyRecorded'
  BY BalancesStep, ReversalsOfDocsStep, FiniteStep DEF RInv
<1>2. ClosingsStand' /\ ClosedYearZeroed'
  BY PlainSteps, PlainKeeps, CommitKeeps DEF RInv
<1> QED BY <1>1, <1>2 DEF RInv

LEMMA RInvInit == Init => RInv
<1> SUFFICES ASSUME Init PROVE RInv
  OBVIOUS
<1>1. \A i \in Ids : ~Recorded(i)
  BY DEF Init, NoEntry, Recorded
<1>2. {i \in Ids : Recorded(i)} = {}
  BY <1>1
<1>3. \A y \in Years : years[y] # "closed"
  BY DEF Init
<1>4. \A c \in Clients : req[c].op = "idle"
  BY DEF Init, Idle
<1> QED BY <1>1, <1>2, <1>3, <1>4, FS_EmptySet
        DEF RInv, RecordedBalances, ClosingsStand, ReversalsOfDocs, FinitelyRecorded, ClosedYearZeroed

-----------------------------------------------------------------------------
(* What the reports show of a ledger with that.                            *)

\* A set of recorded entries.
SomeRecorded(ids) == IsFiniteSet(ids) /\ ids \subseteq {i \in Ids : Recorded(i)}

LEMMA SubsetRecorded ==
  ASSUME RInv, NEW ids, ids \subseteq {i \in Ids : Recorded(i)}
  PROVE  SomeRecorded(ids)
BY FS_Subset DEF RInv, FinitelyRecorded, SomeRecorded

LEMMA DebitsTyped ==
  ASSUME TypeOK, NEW ids, SomeRecorded(ids), NEW a \in Accounts
  PROVE  Debits(ids, a) \in Int
<1>1. \A i \in ids : Moved(a)[i] \in Int
  BY MovedTyped DEF SomeRecorded
<1> QED BY <1>1, TotalType DEF Debits, SomeRecorded

\* Debit and credit columns differ by what moved.
LEMMA ColumnsNet ==
  ASSUME TypeOK, NEW ids, SomeRecorded(ids), NEW a \in Accounts
  PROVE  /\ Columns(ids, a).debit \in Int /\ Columns(ids, a).credit \in Int
         /\ Columns(ids, a).debit - Columns(ids, a).credit = Debits(ids, a)
<1> DEFINE f == [i \in ids |-> Positive(Moved(a)[i])]
           g == [i \in ids |-> Positive(-Moved(a)[i])]
           h == Moved(a)
<1>1. Columns(ids, a).debit = Total(f, ids) /\ Columns(ids, a).credit = Total(g, ids)
  BY DEF Columns
<1>2. IsFiniteSet(ids)
  BY DEF SomeRecorded
<1>3. ASSUME NEW i \in ids PROVE f[i] \in Int /\ g[i] \in Int /\ h[i] = f[i] - g[i]
  <2>1. Moved(a)[i] \in Int
    BY MovedTyped DEF SomeRecorded
  <2> QED BY <2>1 DEF Positive
<1>4. Total(h, ids) = Debits(ids, a)
  BY DEF Debits
<1> HIDE DEF f, g, h
<1>5. Total(h, ids) = Total(f, ids) - Total(g, ids)
  BY <1>2, <1>3, TotalMinus
<1>6. Total(f, ids) \in Int /\ Total(g, ids) \in Int
  BY <1>2, <1>3, TotalType
<1> QED BY <1>1, <1>4, <1>5, <1>6

\* Any set of recorded entries balances, and has nothing on a header account.
LEMMA SetBalances ==
  ASSUME TypeOK, RInv, NEW ids, SomeRecorded(ids)
  PROVE  Debits(ids, "asset") + Debits(ids, "revenue") + Debits(ids, "expense")
           + Debits(ids, "retained") = 0
<1> DEFINE f == [i \in ids |-> Moved("asset")[i] + Moved("revenue")[i]]
           g == [i \in ids |-> f[i] + Moved("expense")[i]]
           h == [i \in ids |-> g[i] + Moved("retained")[i]]
<1>1. IsFiniteSet(ids) /\ {"asset", "revenue", "expense", "retained", "header"} = Accounts
  BY DEF SomeRecorded, Accounts
<1>2. ASSUME NEW i \in ids
      PROVE  /\ Moved("asset")[i] \in Int /\ Moved("revenue")[i] \in Int
             /\ Moved("expense")[i] \in Int /\ Moved("retained")[i] \in Int
             /\ Moved("asset")[i] + Moved("revenue")[i] + Moved("expense")[i] + Moved("retained")[i] = 0
  <2>1. i \in Ids /\ Recorded(i)
    BY DEF SomeRecorded
  <2>2. \A a \in Accounts : Moved(a)[i] = entries[i].lines[a] /\ Moved(a)[i] \in Int
    BY <2>1, MovedTyped
  <2>3. Balanced(entries[i].lines) /\ entries[i].lines["header"] = 0
    BY <2>1 DEF RInv, RecordedBalances
  <2> QED BY <1>1, <2>2, <2>3 DEF Balanced
<1>3. \A i \in ids : f[i] = Moved("asset")[i] + Moved("revenue")[i] /\ f[i] \in Int
  BY <1>2
<1>4. \A i \in ids : g[i] = f[i] + Moved("expense")[i] /\ g[i] \in Int
  BY <1>2, <1>3
<1>5. \A i \in ids : h[i] = g[i] + Moved("retained")[i] /\ h[i] = 0
  BY <1>2, <1>3, <1>4
<1> HIDE DEF f, g, h
<1>6. Total(f, ids) = Debits(ids, "asset") + Debits(ids, "revenue")
  BY <1>1, <1>2, <1>3, TotalPlus DEF Debits
<1>7. Total(g, ids) = Total(f, ids) + Debits(ids, "expense")
  BY <1>1, <1>2, <1>3, <1>4, TotalPlus DEF Debits
<1>8. Total(h, ids) = Total(g, ids) + Debits(ids, "retained")
  BY <1>1, <1>2, <1>4, <1>5, TotalPlus DEF Debits
<1>9. Total(h, ids) = 0
  BY <1>1, <1>5, TotalNone
<1> QED BY <1>6, <1>7, <1>8, <1>9

LEMMA WindowRecorded ==
  ASSUME RInv, NEW from, NEW to
  PROVE  SomeRecorded(Window(from, to))
<1>1. Window(from, to) \subseteq {i \in Ids : Recorded(i)}
  BY DEF Window, Counted, Recorded
<1> QED BY <1>1, SubsetRecorded

\* The balance sheet balances.
LEMMA SheetBalances ==
  ASSUME TypeOK, RInv, NEW d
  PROVE  BalanceSheet(d).assets = BalanceSheet(d).equity
<1> DEFINE ids == Window(0, d)
<1>1. SomeRecorded(ids)
  BY WindowRecorded
<1>2. /\ Debits(ids, "asset") \in Int /\ Debits(ids, "revenue") \in Int
      /\ Debits(ids, "expense") \in Int /\ Debits(ids, "retained") \in Int
  BY <1>1, DebitsTyped DEF Accounts
<1>3. Debits(ids, "asset") + Debits(ids, "revenue") + Debits(ids, "expense")
        + Debits(ids, "retained") = 0
  BY <1>1, SetBalances
<1>4. /\ BalanceSheet(d).assets = Debits(ids, "asset")
      /\ BalanceSheet(d).equity = Credits(ids, "retained")
                                    + (Credits(ids, "revenue") - Debits(ids, "expense"))
  BY DEF BalanceSheet
<1> HIDE DEF ids
<1> QED BY <1>2, <1>3, <1>4 DEF Credits

\* The days of a year, where years are apart, are those of its entries.
LEMMA YearWindow ==
  ASSUME YearsApart, IInv, NEW y \in Years
  PROVE  Window(YearSpan[y].start, YearSpan[y].end) = Yearly(y)
<1>1. ASSUME NEW i \in Ids, Counted(i)
      PROVE  /\ entries[i].year \in Years /\ Covers(YearSpan[entries[i].year], entries[i].date)
             /\ entries[i].date \in Nat
  <2>1. Recorded(i)
    BY <1>1 DEF Counted, Recorded
  <2>2. entries[i].year \in Years /\ Covers(YearSpan[entries[i].year], entries[i].date)
    BY <2>1 DEF IInv, EntryWithinItsYear, Recorded
  <2>3. entries[i].date \in Dates \cup {0}
    BY DEF IInv, TypeOK, Entry
  <2>4. Dates \cup {0} \subseteq Nat
    BY ConstantsAssumption
  <2>5. entries[i].date \in Nat
    BY <2>3, <2>4
  <2> QED BY <2>2, <2>5
<1>2. \A z \in Years : YearSpan[z].start \in Nat /\ YearSpan[z].end \in Nat
  BY ConstantsAssumption
<1>3. ASSUME NEW i \in Ids, Counted(i), Covers(YearSpan[y], entries[i].date)
      PROVE  entries[i].year = y
  <2>1. Overlap(YearSpan[y], YearSpan[entries[i].year])
    BY <1>1, <1>2, <1>3 DEF Covers, Overlap
  <2> QED BY <1>1, <1>3, <2>1 DEF YearsApart
<1>4. Window(YearSpan[y].start, YearSpan[y].end) = {i \in Ids : Counted(i) /\ Covers(YearSpan[y], entries[i].date)}
  BY DEF Window, Covers
<1>5. \A i \in Ids : Counted(i) /\ entries[i].year = y => Covers(YearSpan[y], entries[i].date)
  BY <1>1
<1> QED BY <1>3, <1>4, <1>5 DEF Yearly

\* A year's profit, its trial balance and its closing entries.
LEMMA ProfitAgrees ==
  ASSUME YearsApart, IInv, RInv, NEW y \in Years
  PROVE  LET profit == ProfitAndLoss(YearSpan[y].start, YearSpan[y].end).netIncome
             revenue == TrialBalance(y)["revenue"]
             expense == TrialBalance(y)["expense"]
             left == revenue.credit - revenue.debit + expense.credit - expense.debit
         IN /\ years[y] = "closed" => left = 0 /\ profit = Carried(y)
            /\ years[y] = "open" => left = profit
<1> TypeOK
  BY DEF IInv
<1> DEFINE all == Yearly(y)
           shut == Closings(y)
           work == Operating(YearSpan[y].start, YearSpan[y].end)
           A(a) == Debits(all, a)
           S(a) == Debits(shut, a)
           W(a) == Debits(work, a)
<1>1. all = InYear(y) /\ SomeRecorded(all)
  <2>1. all = InYear(y)
    BY DEF Yearly, InYear, Counted, Recorded
  <2> QED BY <2>1, SubsetRecorded DEF InYear
<1>2. \A i \in Ids : Recorded(i) /\ entries[i].doc \in Years => Stands(i)
  BY DEF RInv, ClosingsStand
<1>3. shut = {i \in all : entries[i].doc \in Years}
  BY <1>2 DEF Closings, Yearly, Counted, Recorded, Stands
<1>4. work = {i \in all : entries[i].doc \notin Years}
  BY YearWindow DEF Operating
<1>5. SomeRecorded(shut) /\ SomeRecorded(work)
  BY <1>1, <1>3, <1>4, FS_Subset DEF SomeRecorded
<1>6. all = shut \cup work /\ shut \cap work = {}
  BY <1>3, <1>4
<1>7. "revenue" \in Accounts /\ "expense" \in Accounts /\ "retained" \in Accounts
  BY DEF Accounts
<1>8. ASSUME NEW a \in Accounts
      PROVE  A(a) \in Int /\ S(a) \in Int /\ W(a) \in Int /\ A(a) = S(a) + W(a)
  <2>1. A(a) \in Int /\ S(a) \in Int /\ W(a) \in Int
    BY <1>1, <1>5, DebitsTyped
  <2>2. \A i \in shut \cup work : Moved(a)[i] \in Int
    BY <1>5, MovedTyped DEF SomeRecorded
  <2>3. Total(Moved(a), shut \cup work) = Total(Moved(a), shut) + Total(Moved(a), work)
    <3> HIDE DEF shut, work
    <3> QED BY <1>5, <1>6, <2>2, TotalUnion DEF SomeRecorded
  <2> QED BY <1>6, <2>1, <2>3 DEF Debits
<1>9. S("revenue") + S("expense") + S("retained") = 0
  <2> DEFINE f == [i \in shut |-> Moved("revenue")[i] + Moved("expense")[i]]
             g == [i \in shut |-> f[i] + Moved("retained")[i]]
  <2>1. ASSUME NEW i \in shut
        PROVE  /\ Moved("revenue")[i] \in Int /\ Moved("expense")[i] \in Int /\ Moved("retained")[i] \in Int
               /\ Moved("revenue")[i] + Moved("expense")[i] + Moved("retained")[i] = 0
    <3>1. i \in Ids /\ Recorded(i) /\ entries[i].doc \in Years
      BY <1>3, <1>5 DEF SomeRecorded
    <3>2. \A a \in Accounts : Moved(a)[i] = entries[i].lines[a] /\ Moved(a)[i] \in Int
      BY <3>1, MovedTyped
    <3>3. entries[i].lines["revenue"] + entries[i].lines["expense"] + entries[i].lines["retained"] = 0
      BY <1>2, <3>1 DEF Stands
    <3> QED BY <1>7, <3>2, <3>3
  <2>2. \A i \in shut : f[i] = Moved("revenue")[i] + Moved("expense")[i] /\ f[i] \in Int
    BY <2>1
  <2>3. \A i \in shut : g[i] = f[i] + Moved("retained")[i] /\ g[i] = 0
    BY <2>1, <2>2
  <2>4. IsFiniteSet(shut)
    BY <1>5 DEF SomeRecorded
  <2> HIDE DEF f, g, shut
  <2>5. Total(f, shut) = S("revenue") + S("expense")
    BY <2>1, <2>2, <2>4, TotalPlus DEF Debits
  <2>6. Total(g, shut) = Total(f, shut) + S("retained")
    BY <2>1, <2>2, <2>3, <2>4, TotalPlus DEF Debits
  <2>7. Total(g, shut) = 0
    BY <2>3, <2>4, TotalNone
  <2> QED BY <2>5, <2>6, <2>7
<1> DEFINE profit == ProfitAndLoss(YearSpan[y].start, YearSpan[y].end).netIncome
           revenue == TrialBalance(y)["revenue"]
           expense == TrialBalance(y)["expense"]
           left == revenue.credit - revenue.debit + expense.credit - expense.debit
<1>10. profit = -W("revenue") - W("expense")
  BY DEF ProfitAndLoss, Credits
<1>11. left = -A("revenue") - A("expense")
  <2>1. revenue = Columns(all, "revenue") /\ expense = Columns(all, "expense")
    BY <1>7 DEF TrialBalance
  <2>2. /\ revenue.debit \in Int /\ revenue.credit \in Int
        /\ revenue.debit - revenue.credit = A("revenue")
    BY <1>1, <1>7, <2>1, ColumnsNet
  <2>3. /\ expense.debit \in Int /\ expense.credit \in Int
        /\ expense.debit - expense.credit = A("expense")
    BY <1>1, <1>7, <2>1, ColumnsNet
  <2> HIDE DEF revenue, expense
  <2> QED BY <2>2, <2>3
<1>12. Carried(y) = -S("retained")
  BY DEF Carried, Credits
<1>13. years[y] = "closed" => A("revenue") = 0 /\ A("expense") = 0
  <2>1. \A a \in Accounts : Activity(y, a) = A(a)
    BY <1>1, ActivityTyped DEF Debits, RInv
  <2> QED BY <1>7, <2>1 DEF RInv, ClosedYearZeroed
<1>14. years[y] = "open" => S("revenue") = 0 /\ S("expense") = 0
  <2>1. years[y] = "open" => shut = {}
    <3>1. \A i \in shut : i \in LiveEntries(y)
      BY <1>2 DEF Closings, Counted, Recorded, Stands, LiveEntries
    <3> QED BY <3>1 DEF IInv, ClosingMeansClosed
  <2> QED BY <2>1, TotalEmpty DEF Debits
<1> HIDE DEF all, shut, work, A, S, W, profit, left
<1>15. /\ A("revenue") \in Int /\ S("revenue") \in Int /\ W("revenue") \in Int
       /\ A("expense") \in Int /\ S("expense") \in Int /\ W("expense") \in Int
       /\ S("retained") \in Int
       /\ A("revenue") = S("revenue") + W("revenue") /\ A("expense") = S("expense") + W("expense")
  BY <1>7, <1>8
<1>16. years[y] = "closed" => left = 0 /\ profit = Carried(y)
  <2> SUFFICES ASSUME years[y] = "closed" PROVE left = 0 /\ profit = Carried(y)
    OBVIOUS
  <2>1. A("revenue") = 0 /\ A("expense") = 0
    BY <1>13
  <2>2. left = 0
    BY <1>11, <2>1
  <2>3. W("revenue") = -S("revenue") /\ W("expense") = -S("expense")
    <3>1. /\ S("revenue") + W("revenue") = 0 /\ S("expense") + W("expense") = 0
          /\ S("revenue") \in Int /\ W("revenue") \in Int
          /\ S("expense") \in Int /\ W("expense") \in Int
      BY <1>15, <2>1
    <3>2. \A m, n \in Int : m + n = 0 => n = -m
      OBVIOUS
    <3> QED BY ONLY <3>1, <3>2
  <2>4. profit = S("revenue") + S("expense")
    BY <1>10, <1>15, <2>3
  <2>5. S("revenue") + S("expense") = -S("retained")
    BY <1>9, <1>15
  <2> QED BY <1>12, <2>2, <2>4, <2>5
<1>17. years[y] = "open" => left = profit
  BY <1>10, <1>11, <1>14, <1>15
<1> QED BY <1>16, <1>17 DEF left, profit

\* A finite set of numbers has a largest.
LEMMA LargestIn ==
  ASSUME NEW S, IsFiniteSet(S), S # {}, S \subseteq Int
  PROVE  Max(S) \in S /\ \A k \in S : Max(S) >= k
<1> DEFINE G == {s \in SUBSET S : s = {} \/ \E m \in s : \A k \in s : m >= k}
<1>1. {} \in G
  OBVIOUS
<1>2. ASSUME NEW s \in SUBSET S, NEW x \in s, s \ {x} \in G PROVE s \in G
  <2>1. x \in Int /\ \A k \in s : k \in Int /\ (k = x \/ k \in s \ {x})
    OBVIOUS
  <2>2. CASE s \ {x} = {}
    <3>1. \A k \in s : x >= k
      BY <2>1, <2>2
    <3> QED BY <3>1
  <2>3. CASE s \ {x} # {}
    <3>1. PICK m \in s \ {x} : \A k \in s \ {x} : m >= k
      BY <1>2, <2>3
    <3>2. CASE m >= x
      <4>1. \A k \in s : m >= k
        BY <2>1, <3>1, <3>2
      <4> QED BY <3>1, <4>1
    <3>3. CASE ~(m >= x)
      <4>1. \A k \in s : x >= k
        BY <2>1, <3>1, <3>3
      <4> QED BY <4>1
    <3> QED BY <3>2, <3>3
  <2> QED BY <2>2, <2>3
<1> HIDE DEF G
<1>3. S \in G
  BY <1>1, <1>2, Inductively
<1>4. \E m \in S : \A k \in S : m >= k
  BY <1>3 DEF G
<1> QED BY <1>4 DEF Max

\* A day's balance is that of the day before and what moved on it.
LEMMA DayByDay ==
  ASSUME TypeOK, RInv, NEW a \in Accounts, NEW d \in Nat \ {0}
  PROVE  /\ AccountBalance(a, d) \in Int /\ AccountBalance(a, d - 1) \in Int
         /\ Columns(Window(d, d), a).debit \in Int /\ Columns(Window(d, d), a).credit \in Int
         /\ AccountBalance(a, d) = AccountBalance(a, d - 1) + Columns(Window(d, d), a).debit
                                     - Columns(Window(d, d), a).credit
<1> DEFINE all == Window(0, d)
           before == Window(0, d - 1)
           today == Window(d, d)
<1>1. SomeRecorded(all) /\ SomeRecorded(before) /\ SomeRecorded(today)
  BY WindowRecorded
<1>2. \A i \in Ids : entries[i].date \in Nat
  <2>1. Dates \cup {0} \subseteq Nat
    BY ConstantsAssumption
  <2> QED BY <2>1 DEF TypeOK, Entry
<1>3. all = before \cup today /\ before \cap today = {}
  BY <1>2 DEF Window
<1>4. \A i \in all : Moved(a)[i] \in Int
  BY <1>1, MovedTyped DEF SomeRecorded
<1> HIDE DEF all, before, today
<1>5. Debits(all, a) = Debits(before, a) + Debits(today, a)
  <2>1. \A i \in before \cup today : Moved(a)[i] \in Int
    BY <1>3, <1>4
  <2>2. Total(Moved(a), before \cup today) = Total(Moved(a), before) + Total(Moved(a), today)
    BY <1>1, <1>3, <2>1, TotalUnion DEF SomeRecorded
  <2> QED BY <1>3, <2>2 DEF Debits
<1>6. Debits(all, a) \in Int /\ Debits(before, a) \in Int
  BY <1>1, DebitsTyped
<1>7. /\ Columns(today, a).debit \in Int /\ Columns(today, a).credit \in Int
      /\ Columns(today, a).debit - Columns(today, a).credit = Debits(today, a)
  BY <1>1, ColumnsNet
<1>8. Columns(today, a).debit + 0 - Columns(today, a).credit = Debits(today, a)
  BY <1>7
<1> QED BY <1>5, <1>6, <1>7, <1>8 DEF AccountBalance, all, before, today

\* h carries the balance of a from row to row.
Carries(h, a, from, to) ==
  h = [d \in (from - 1)..to |->
         IF d < from THEN AccountBalance(a, d)
         ELSE h[d - 1] + Columns(Window(d, d), a).debit - Columns(Window(d, d), a).credit]

LEMMA DailyDef ==
  ASSUME NEW a, NEW from, NEW to, to \in from..to
  PROVE  DailyMovements(a, from, to)[to].closing = (CHOOSE h : Carries(h, a, from, to))[to]
BY DEF DailyMovements, Carries

\* Such a row shows the account's balance on its day.
LEMMA RowsShowBalance ==
  ASSUME TypeOK, RInv, NEW a \in Accounts, NEW from \in Nat \ {0}, NEW to \in Nat, NEW h,
         Carries(h, a, from, to), NEW e \in (from - 1)..to
  PROVE  h[e] = AccountBalance(a, e)
<1> DEFINE B(d) == AccountBalance(a, d)
           P(d) == Columns(Window(d, d), a).debit
           M(d) == Columns(Window(d, d), a).credit
           T == {d \in (from - 1)..to : h[d] # B(d)}
<1>1. \A d \in Nat \ {0} : B(d) = B(d - 1) + P(d) - M(d)
  BY DayByDay
<1>2. h = [d \in (from - 1)..to |-> IF d < from THEN B(d) ELSE h[d - 1] + P(d) - M(d)]
  BY DEF Carries
<1> HIDE DEF B, P, M
<1>3. \A d \in (from - 1)..to : h[d] = IF d < from THEN B(d) ELSE h[d - 1] + P(d) - M(d)
  BY <1>2
<1>4. SUFFICES ASSUME T # {} PROVE FALSE
  BY DEF B
<1>5. PICK m \in T : \A k \in T : <<k, m>> \notin OpToRel(<, Nat)
  <2>1. T \subseteq Nat
    OBVIOUS
  <2> HIDE DEF T
  <2> QED BY <1>4, <2>1, NatLessThanWellFounded, WFMin
<1>6. m \in Nat /\ m \in (from - 1)..to /\ h[m] # B(m)
  OBVIOUS
<1>7. ~(m < from)
  BY <1>3, <1>6
<1>8. m - 1 \in (from - 1)..to /\ m - 1 \in Nat /\ m \in Nat \ {0} /\ m - 1 < m
  BY <1>6, <1>7
<1>9. m - 1 \notin T
  <2> HIDE DEF T
  <2> QED BY <1>5, <1>6, <1>8 DEF OpToRel
<1>10. h[m - 1] = B(m - 1)
  BY <1>8, <1>9
<1>11. h[m] = B(m - 1) + P(m) - M(m)
  BY <1>3, <1>6, <1>7, <1>10
<1> QED BY <1>1, <1>6, <1>8, <1>11

\* The daily rows end at the balance of their last day.
LEMMA DailyEnds ==
  ASSUME TypeOK, RInv, NEW a \in Accounts, NEW from \in Nat \ {0}, NEW to \in Nat, from <= to
  PROVE  DailyMovements(a, from, to)[to].closing = AccountBalance(a, to)
<1> DEFINE B(d) == AccountBalance(a, d)
           P(d) == Columns(Window(d, d), a).debit
           M(d) == Columns(Window(d, d), a).credit
           h == [d \in (from - 1)..to |-> B(d)]
<1>1. \A d \in Nat \ {0} : B(d) = B(d - 1) + P(d) - M(d)
  BY DayByDay
<1>2. Carries(h, a, from, to)
  <2> HIDE DEF B, P, M
  <2>1. ASSUME NEW d \in (from - 1)..to, ~(d < from)
        PROVE  B(d) = h[d - 1] + P(d) - M(d)
    <3>1. d - 1 \in (from - 1)..to /\ d \in Nat \ {0}
      BY <2>1
    <3>2. h[d - 1] = B(d - 1)
      BY <3>1
    <3> QED BY <1>1, <3>1, <3>2
  <2>2. h = [d \in (from - 1)..to |-> IF d < from THEN B(d) ELSE h[d - 1] + P(d) - M(d)]
    BY <2>1
  <2> QED BY <2>2 DEF Carries, B, P, M
<1> DEFINE c == CHOOSE g : Carries(g, a, from, to)
<1> HIDE DEF h
<1>3. Carries(c, a, from, to)
  BY <1>2
<1>4. to \in (from - 1)..to /\ to \in from..to
  OBVIOUS
<1>5. DailyMovements(a, from, to)[to].closing = c[to]
  BY <1>4, DailyDef
<1> HIDE DEF c
<1> QED BY <1>3, <1>4, <1>5, RowsShowBalance

LEMMA YearlyRecorded ==
  ASSUME RInv, NEW y
  PROVE  SomeRecorded(Yearly(y))
<1>1. Yearly(y) \subseteq {i \in Ids : Recorded(i)}
  BY DEF Yearly, Counted, Recorded
<1> QED BY <1>1, SubsetRecorded

\* The rows of the FEC: as many as lines, since numbers tell them apart.
LEMMA FecAddsUp ==
  ASSUME IInv, RInv, NEW y \in Years, NEW a \in Accounts
  PROVE  Total([r \in Fec(y, a) |-> r[3]], Fec(y, a)) = Debits(Yearly(y), a)
<1> TypeOK
  BY DEF IInv
<1> DEFINE all == Yearly(y)
           ids == {i \in all : entries[i].lines[a] # 0}
           row == [i \in ids |-> <<entries[i].journal, entries[i].number, entries[i].lines[a]>>]
           amount == [r \in Fec(y, a) |-> r[3]]
           f == Moved(a)
<1>1. SomeRecorded(all)
  BY YearlyRecorded
<1>2. IsFiniteSet(ids) /\ IsFiniteSet(all) /\ ids \in SUBSET all
  BY <1>1, FS_Subset DEF SomeRecorded
<1>3. \A i \in all : i \in Ids /\ f[i] = entries[i].lines[a] /\ f[i] \in Int
  BY <1>1, MovedTyped DEF SomeRecorded
<1>4. \A i, k \in ids : row[i] = row[k] => i = k
  <2> SUFFICES ASSUME NEW i \in ids, NEW k \in ids, row[i] = row[k] PROVE i = k
    OBVIOUS
  <2>1. entries[i].journal = entries[k].journal /\ entries[i].number = entries[k].number
    OBVIOUS
  <2>2. entries[i].year = entries[k].year
    BY DEF Yearly
  <2>3. i \in Ids /\ k \in Ids /\ Recorded(i)
    BY <1>1, <1>2 DEF SomeRecorded
  <2>4. entries[i].number > 0
    BY <2>3 DEF IInv, NumbersAreInterval
  <2> QED BY <2>1, <2>2, <2>3, <2>4 DEF IInv, NumbersAreInterval
<1>5. Fec(y, a) = {row[i] : i \in ids}
  BY DEF Fec
<1>6. \A i \in ids : amount[row[i]] = f[i]
  <2> SUFFICES ASSUME NEW i \in ids PROVE amount[row[i]] = f[i]
    OBVIOUS
  <2>1. row[i] \in Fec(y, a)
    BY <1>5
  <2>2. row[i][3] = entries[i].lines[a]
    OBVIOUS
  <2> QED BY <1>3, <2>1, <2>2
<1>7. \A i \in all \ ids : f[i] = 0
  BY <1>3
<1> HIDE DEF all, ids, row, amount, f
<1>8. \A i \in ids : f[i] \in Int
  BY <1>2, <1>3
<1>9. Total(amount, {row[i] : i \in ids}) = Total(f, ids)
  BY <1>2, <1>4, <1>6, <1>8, TotalImage
<1>10. Total(f, all) = Total(f, ids)
  BY <1>2, <1>3, <1>7, TotalSupport
<1> QED BY <1>5, <1>9, <1>10 DEF Debits, amount, f, all

\* What balances sums to nothing, over all accounts.
LEMMA BalancedTotal ==
  ASSUME NEW l, \A a \in Accounts : l[a] \in Int, Balanced(l)
  PROVE  IsFiniteSet(Accounts) /\ Total(l, Accounts) = 0
<1> DEFINE A1 == {"header"}
           A2 == {"retained", "header"}
           A3 == {"expense", "retained", "header"}
           A4 == {"revenue", "expense", "retained", "header"}
<1>1. /\ A1 \ {"header"} = {} /\ A2 \ {"retained"} = A1 /\ A3 \ {"expense"} = A2
      /\ A4 \ {"revenue"} = A3 /\ Accounts \ {"asset"} = A4
  BY DEF Accounts
<1>2. /\ A1 = {} \cup {"header"} /\ A2 = A1 \cup {"retained"} /\ A3 = A2 \cup {"expense"}
      /\ A4 = A3 \cup {"revenue"} /\ Accounts = A4 \cup {"asset"}
  BY DEF Accounts
<1>3. \A a \in Accounts : l[a] \in Int
  OBVIOUS
<1>4. /\ "header" \in A1 /\ "retained" \in A2 /\ "expense" \in A3 /\ "revenue" \in A4
      /\ "asset" \in Accounts
  BY DEF Accounts
<1>5. A1 \subseteq Accounts /\ A2 \subseteq Accounts /\ A3 \subseteq Accounts /\ A4 \subseteq Accounts
  BY DEF Accounts
<1> HIDE DEF A1, A2, A3, A4
<1>6. IsFiniteSet(A1) /\ IsFiniteSet(A2) /\ IsFiniteSet(A3)
  BY <1>2, FS_EmptySet, FS_AddElement
<1>7. IsFiniteSet(A4) /\ IsFiniteSet(Accounts)
  BY <1>2, <1>6, FS_AddElement
<1>8. Total(l, Accounts) = l["asset"] + Total(l, A4)
  BY <1>1, <1>3, <1>4, <1>7, TotalRemove
<1>9. Total(l, A4) = l["revenue"] + Total(l, A3)
  BY <1>1, <1>3, <1>4, <1>5, <1>7, TotalRemove
<1>10. Total(l, A3) = l["expense"] + Total(l, A2)
  BY <1>1, <1>3, <1>4, <1>5, <1>6, TotalRemove
<1>11. Total(l, A2) = l["retained"] + Total(l, A1)
  BY <1>1, <1>3, <1>4, <1>5, <1>6, TotalRemove
<1>12. Total(l, A1) = l["header"] + Total(l, {})
  BY <1>1, <1>3, <1>4, <1>5, <1>6, TotalRemove
<1>13. Total(l, {}) = 0
  BY TotalEmpty
<1>14. /\ l["asset"] \in Int /\ l["revenue"] \in Int /\ l["expense"] \in Int
       /\ l["retained"] \in Int /\ l["header"] \in Int
  BY <1>3, <1>4, <1>5
<1> QED BY <1>7, <1>8, <1>9, <1>10, <1>11, <1>12, <1>13, <1>14 DEF Balanced

\* The bookings of an entry that balances leave each account what its lines
\* say, whichever account they are booked against, and the clearing account
\* nothing.
LEMMA BookedIs ==
  ASSUME NEW l, \A a \in Accounts : l[a] \in Int, Balanced(l)
  PROVE  /\ \A a \in Accounts : Booked(l, a) = l[a]
         /\ Booked(l, "clearing") = 0
<1> DEFINE against == Anchor(l)
           rest == Accounts \ {against}
           others == {k \in rest : l[k] # 0}
<1>1. IsFiniteSet(Accounts) /\ Total(l, Accounts) = 0
  BY BalancedTotal
<1>2. IsFiniteSet(rest) /\ others \in SUBSET rest /\ \A k \in rest : l[k] \in Int
  BY <1>1, FS_Subset
<1>3. \A k \in rest \ others : l[k] = 0
  OBVIOUS
<1>4. "clearing" \notin Accounts
  BY DEF Accounts
<1>5. \A a : Booked(l, a) = IF a = against THEN -Total(l, others)
                            ELSE IF a \in Accounts THEN l[a] ELSE 0
  BY DEF Booked
<1> HIDE DEF against, others
<1>6. Total(l, rest) = Total(l, others)
  <2> HIDE DEF rest
  <2> QED BY <1>2, <1>3, TotalSupport
<1>7. against \in Accounts => -Total(l, others) = l[against]
  <2> SUFFICES ASSUME against \in Accounts PROVE -Total(l, others) = l[against]
    OBVIOUS
  <2>1. Total(l, Accounts) = l[against] + Total(l, rest)
    BY <1>1, TotalRemove
  <2>2. Total(l, rest) \in Int
    BY <1>2, TotalType
  <2> QED BY <1>1, <1>6, <2>1, <2>2
<1>8. against = "clearing" => -Total(l, others) = 0
  <2> SUFFICES ASSUME against = "clearing" PROVE -Total(l, others) = 0
    OBVIOUS
  <2>1. rest = Accounts
    BY <1>4
  <2> QED BY <1>1, <1>6, <2>1
<1> QED BY <1>4, <1>5, <1>7, <1>8

\* What an importer ends with on each account.
LEMMA DatevAddsUp ==
  ASSUME IInv, RInv, NEW y
  PROVE  /\ \A a \in Accounts : Datev(y, a) = Debits(Yearly(y), a)
         /\ Datev(y, "clearing") = 0
<1> TypeOK
  BY DEF IInv
<1> DEFINE all == Yearly(y)
           b(a) == [i \in Ids |-> Booked(entries[i].lines, a)]
<1>1. SomeRecorded(all)
  BY YearlyRecorded
<1>2. ASSUME NEW i \in all
      PROVE  /\ i \in Ids
             /\ \A a \in Accounts : b(a)[i] = Moved(a)[i] /\ Moved(a)[i] \in Int
             /\ b("clearing")[i] = 0
  <2>1. i \in Ids /\ Recorded(i)
    BY <1>1 DEF SomeRecorded
  <2>2. \A a \in Accounts : Moved(a)[i] = entries[i].lines[a] /\ Moved(a)[i] \in Int
    BY <2>1, MovedTyped
  <2>3. \A a \in Accounts : entries[i].lines[a] \in Int
    BY <2>2
  <2>4. Balanced(entries[i].lines)
    BY <2>1 DEF RInv, RecordedBalances
  <2>5. \A a \in Accounts : Booked(entries[i].lines, a) = entries[i].lines[a]
    BY <2>3, <2>4, BookedIs
  <2>6. Booked(entries[i].lines, "clearing") = 0
    BY <2>3, <2>4, BookedIs
  <2> QED BY <2>1, <2>2, <2>5, <2>6
<1>3. IsFiniteSet(all)
  BY <1>1 DEF SomeRecorded
<1>4. \A a : Datev(y, a) = Total(b(a), all)
  BY DEF Datev
<1> HIDE DEF all, b
<1>5. ASSUME NEW a \in Accounts PROVE Datev(y, a) = Debits(all, a)
  <2>1. \A i \in all : Moved(a)[i] = b(a)[i] /\ Moved(a)[i] \in Int
    BY <1>2
  <2>2. Total(Moved(a), all) = Total(b(a), all)
    BY <1>3, <2>1, TotalEqual
  <2> QED BY <1>4, <2>2 DEF Debits
<1>6. Datev(y, "clearing") = 0
  <2>1. \A i \in all : b("clearing")[i] = 0
    BY <1>2
  <2> QED BY <1>3, <1>4, <2>1, TotalNone
<1> QED BY <1>5, <1>6 DEF all

LEMMA LastDay ==
  ASSUME NEW y \in Years
  PROVE  /\ YearSpan[y].start \in Nat \ {0} /\ Max(Dates) \in Nat
         /\ YearSpan[y].start <= Max(Dates)
<1>1. IsFiniteSet(Dates) /\ Dates \subseteq Nat \ {0} /\ YearSpan[y].start \in Dates
  BY ConstantsAssumption
<1>2. Max(Dates) \in Dates /\ \A k \in Dates : Max(Dates) >= k
  <2>1. Dates # {} /\ Dates \subseteq Int
    BY <1>1
  <2> QED BY <1>1, <2>1, LargestIn
<1>3. Max(Dates) \in Nat /\ YearSpan[y].start \in Nat \ {0} /\ Max(Dates) >= YearSpan[y].start
  BY <1>1, <1>2
<1> QED BY <1>3

LEMMA ReportsAreSound ==
  ASSUME YearsApart, IInv, RInv
  PROVE  ReportsAgree
<1> TypeOK
  BY DEF IInv
<1>1. ASSUME NEW y \in Years
      PROVE  LET profit == ProfitAndLoss(YearSpan[y].start, YearSpan[y].end).netIncome
                 revenue == TrialBalance(y)["revenue"]
                 expense == TrialBalance(y)["expense"]
                 left == revenue.credit - revenue.debit + expense.credit - expense.debit
             IN /\ years[y] = "closed" => left = 0 /\ profit = Carried(y)
                /\ years[y] = "open" => left = profit
  BY ProfitAgrees
<1>2. \A d \in Dates : BalanceSheet(d).assets = BalanceSheet(d).equity
  BY SheetBalances
<1>3. ASSUME NEW y \in Years
      PROVE  DailyMovements("asset", YearSpan[y].start, Max(Dates))[Max(Dates)].closing
               = BalanceSheet(Max(Dates)).assets
  <2>1. "asset" \in Accounts
    BY DEF Accounts
  <2>2. DailyMovements("asset", YearSpan[y].start, Max(Dates))[Max(Dates)].closing
          = AccountBalance("asset", Max(Dates))
    BY <2>1, LastDay, DailyEnds
  <2> QED BY <2>2 DEF AccountBalance, BalanceSheet
<1>4. ASSUME NEW y \in Years
      PROVE  /\ \A a \in Accounts :
                  LET net == Debits(Yearly(y), a)
                  IN Total([row \in Fec(y, a) |-> row[3]], Fec(y, a)) = net /\ Datev(y, a) = net
             /\ Datev(y, "clearing") = 0
  BY FecAddsUp, DatevAddsUp
<1> QED BY <1>1, <1>2, <1>3, <1>4 DEF ReportsAgree

\* While no two years overlap, the reports agree with each other and with the
\* year-end close (gl_reports.go, CloseFiscalYear): a closed year shows no
\* income and its profit is what its closing entry carried to equity, an open
\* year's trial balance shows its profit, the balance sheet balances on every
\* day, the daily rows end at it, and the FEC and DATEV exports come to each
\* account's balance.
THEOREM LedgerReportsAgree == YearsApart => (Spec => []ReportsAgree)
<1> SUFFICES ASSUME YearsApart PROVE Spec => []ReportsAgree
  OBVIOUS
<1>1. Init => RInv
  BY RInvInit
<1>2. IInv /\ RInv /\ [Next]_vars => RInv'
  BY RInvStep
<1>3. IInv /\ RInv => ReportsAgree
  BY ReportsAreSound
<1> QED BY <1>1, <1>2, <1>3, LedgerInvariant, PTL DEF Spec

-----------------------------------------------------------------------------
(* Retired accounts are in nobody's way: what undoes an entry or closes a  *)
(* year is admitted by what it balances, not by the accounts it names.     *)

LEMMA LatestStarts ==
  ASSUME NEW date, NEW y \in Years, OpenYear(y), Covers(YearSpan[y], date)
  PROVE  \E z \in Years : z \in ResolvedYears(date)
<1> DEFINE open == {z \in Years : OpenYear(z) /\ Covers(YearSpan[z], date)}
           starts == {YearSpan[z].start : z \in open}
<1>1. starts \subseteq Dates /\ IsFiniteSet(Dates) /\ Dates \subseteq Nat
  BY ConstantsAssumption
<1>2. YearSpan[y].start \in starts
  OBVIOUS
<1>3. PICK m \in starts : \A k \in starts : m >= k
  <2> HIDE DEF starts
  <2>1. IsFiniteSet(starts)
    BY <1>1, FS_Subset
  <2>2. starts \subseteq Int /\ starts # {}
    BY <1>1, <1>2
  <2> QED BY <2>1, <2>2, LargestIn
<1>4. PICK z \in open : YearSpan[z].start = m
  OBVIOUS
<1>5. \A x \in open : YearSpan[x].start <= YearSpan[z].start
  <2>1. \A k \in starts : k \in Nat
    BY <1>1
  <2> QED BY <1>3, <1>4, <2>1
<1> QED BY <1>4, <1>5 DEF ResolvedYears

LEMMA NothingStranded ==
  ASSUME IInv, RecordedBalances, FinitelyRecorded
  PROVE  DeactivationStrandsNothing
<1>1. SUFFICES ASSUME NEW id \in Ids, Fresh(id) PROVE DeactivationStrandsNothing
  BY DEF DeactivationStrandsNothing
<1>2. ASSUME NEW i \in Ids, NEW d \in Dates, entries[i].status = "posted",
             NEW y \in ResolvedFor(d, FALSE)
      PROVE  y \in Years /\ ReversalAdmitted(i, id, y, d)
  <2>1. y \in Years /\ OpenYear(y)
    BY ResolvedIsOpen
  <2> DEFINE l == entries[i].lines
  <2>2. Balanced(l) /\ l["header"] = 0
    BY <1>2 DEF RecordedBalances, Recorded
  <2>3. \A a \in Accounts : l[a] \in Int
    BY MovedTyped DEF IInv
  <2>4. Balanced(Mirror(l)) /\ Mirror(l)["header"] = 0
    <3> HIDE DEF l
    <3>1. /\ l["asset"] \in Int /\ l["revenue"] \in Int /\ l["expense"] \in Int
          /\ l["retained"] \in Int /\ l["header"] \in Int
      BY <2>3 DEF Accounts
    <3>2. /\ Mirror(l)["asset"] = -l["asset"] /\ Mirror(l)["revenue"] = -l["revenue"]
          /\ Mirror(l)["expense"] = -l["expense"] /\ Mirror(l)["retained"] = -l["retained"]
          /\ Mirror(l)["header"] = -l["header"]
      BY DEF Mirror, Accounts
    <3>3. \A h \in Int : h + h = 0 => -h = h
      OBVIOUS
    <3>4. \A a, r, e, t, h \in Int :
            a + r + e + t + h = 0 /\ h = 0 => (-a) + (-r) + (-e) + (-t) + (-h) = 0
      OBVIOUS
    <3>5. -l["header"] = 0
      <4>1. l["header"] + l["header"] = 0 /\ l["header"] = 0
        BY <2>2
      <4> QED BY ONLY <3>1, <3>3, <4>1
    <3>6. (-l["asset"]) + (-l["revenue"]) + (-l["expense"]) + (-l["retained"]) + (-l["header"]) = 0
      BY <2>2, <3>1, <3>4 DEF Balanced
    <3> QED BY <3>2, <3>5, <3>6 DEF Balanced
  <2> QED BY <1>1, <1>2, <2>1, <2>4 DEF ReversalAdmitted, Finalizable, ReversalOf
<1>3. ASSUME NEW y \in Years, OpenYear(y), ClosingLines(y) \in Lines, HasRetainedEarnings
      PROVE  \E z \in Years : ClosingAdmitted(y, z, id)
  <2>1. Covers(YearSpan[y], YearSpan[y].end)
    <3>1. YearSpan[y].start \in Nat /\ YearSpan[y].end \in Nat /\ YearSpan[y].start < YearSpan[y].end
      BY ConstantsAssumption
    <3> QED BY <3>1 DEF Covers
  <2>2. PICK z \in Years : z \in ResolvedYears(YearSpan[y].end)
    BY <1>3, <2>1, LatestStarts
  <2>3. z \in ResolvedFor(YearSpan[y].end, TRUE) /\ OpenYear(z)
    BY <2>2 DEF ResolvedFor, ResolvedYears
  <2>4. Activity(y, "revenue") \in Int /\ Activity(y, "expense") \in Int
    BY ActivityTyped DEF IInv, Accounts
  <2>5. Balanced(ClosingLines(y)) /\ ClosingLines(y)["header"] = 0
    <3>1. ClosingLines(y)["asset"] = 0 /\ ClosingLines(y)["header"] = 0
      BY DEF ClosingLines, Accounts
    <3> QED BY <2>4, <3>1, ClosingLinesAre DEF Balanced
  <2> QED BY <1>1, <1>3, <2>3, <2>5 DEF ClosingAdmitted, AutoEntryAdmitted, Finalizable, ClosingOf
<1> QED BY <1>1, <1>2, <1>3 DEF DeactivationStrandsNothing

\* Whatever accounts an administrator retires, an entry that stands can still be
\* reversed on every day that is open, and an open year can still be closed (F97).
THEOREM LedgerStrandsNothing == Spec => []DeactivationStrandsNothing
<1> DEFINE I == IInv /\ RecordedBalances /\ FinitelyRecorded
<1>1. Init => I
  BY IInvInit, RInvInit DEF RInv
<1>2. I /\ [Next]_vars => I'
  BY IInvStep, BalancesStep, FiniteStep
<1>3. I => DeactivationStrandsNothing
  BY NothingStranded
<1> QED BY <1>1, <1>2, <1>3, PTL DEF Spec
=============================================================================
