------------------------------- MODULE Numbers -------------------------------
(***************************************************************************)
(* The numbers documents carry: a counter and a format for each kind of    *)
(* document, a search for the first free number inside the transaction     *)
(* that creates one, numbers typed by hand, and the two settings pages     *)
(* (db/document_number.go, db/document_number_unique.go,                   *)
(* db/invoice_number.go; src/routes/settings).                             *)
(*                                                                         *)
(* Invoices keep counter and format on their organization; orders,         *)
(* deliveries, receipts and production orders in a table of their own. A   *)
(* behaviour is about one kind, which Init picks.                          *)
(***************************************************************************)
EXTENDS Integers

CONSTANTS
  Kinds,       \* "invoice", "document": the numberings looked at
  Docs,        \* documents of the kind, in one organization
  Formats,     \* formats with {number}
  Default,     \* the format of an organization that never saved one
  Fixed,       \* a format without {number}
  MaxSkips,    \* maxInvoiceNumberSkips, maxDocumentNumberSkips
  MaxCounter,  \* a bound on the counter
  Clerks,      \* requests and settings pages open at once
  None

VARIABLES
  kind,        \* which numbering
  number,      \* the number each document carries, Blank, or None without one
  counter,     \* invoice_number_counter, document_number_settings.counter
  format,      \* invoice_number_format, document_number_settings.format
  req,         \* what each clerk has read
  issued,      \* the numbers assigned under the present counting
  reissued     \* those of them assigned once more

settings == <<counter, format>>
assigned == <<issued, reissued>>
vars == <<kind, number, settings, req, assigned>>

ASSUME ConstantsAssumption ==
  /\ Kinds \subseteq {"invoice", "document"}
  /\ Default \in Formats /\ Fixed \notin Formats
  /\ MaxSkips \in Nat \ {0} /\ MaxCounter \in Nat
  /\ None \notin Docs

-----------------------------------------------------------------------------
(* Numbers.                                                                *)

\* A number is its format with the counter filled in; dates are left out.
Formatted(f, k) == [format |-> f, n |-> IF f = Fixed THEN 0 ELSE k]
Numbers == {Formatted(f, k) : f \in Formats \cup {Fixed}, k \in 1..MaxCounter}
Blank == [format |-> None, n |-> 0]

Present(d) == number[d] # None
Taken(n, except) == \E d \in Docs \ {except} : number[d] = n

\* The counter the next document gets: the first whose number is free, within
\* MaxSkips of the one stored.
FirstFree(k) ==
  /\ k \in (counter + 1)..(counter + MaxSkips) /\ k <= MaxCounter
  /\ ~Taken(Formatted(format, k), None)
  /\ \A j \in (counter + 1)..(k - 1) : Taken(Formatted(format, j), None)

\* The unique indexes of migrations 0106 and 0108; a blank number is outside.
IndexAllows(d, n) == n = Blank \/ ~Taken(n, d)

-----------------------------------------------------------------------------
(* Documents.                                                              *)

Idle == [op |-> "idle"]
Park(c, r) == req[c] = Idle /\ req' = [req EXCEPT ![c] = r]
Resume(c) == req' = [req EXCEPT ![c] = Idle]

\* A new document has an id nobody has read.
New(d) == ~Present(d) /\ \A c \in Clerks : req[c].op = "rename" => req[c].doc # d

\* A document sent without a number gets the first free one, and the counter
\* stored is the one it used.
Create(d) ==
  /\ New(d)
  /\ \E k \in 1..MaxCounter :
       /\ FirstFree(k)
       /\ number' = [number EXCEPT ![d] = Formatted(format, k)]
       /\ counter' = k
       /\ issued' = issued \cup {Formatted(format, k)}
       /\ reissued' = reissued \cup ({Formatted(format, k)} \cap issued)
  /\ UNCHANGED <<kind, format, req>>

\* A typed number is kept if it is free; an invoice then counts one, another
\* document as if the number had been assigned.
CreateTyped(d, n) ==
  /\ New(d) /\ ~Taken(n, None)
  /\ number' = [number EXCEPT ![d] = n]
  /\ \/ kind = "invoice" /\ counter < MaxCounter /\ counter' = counter + 1
     \/ kind = "document" /\ \E k \in 1..MaxCounter : FirstFree(k) /\ counter' = k
  /\ UNCHANGED <<kind, format, req, assigned>>

\* UpdateInvoice compares with the stored number in its transaction; an
\* invoice's number cannot be cleared.
RenameInvoice(d, n) ==
  /\ kind = "invoice" /\ Present(d)
  /\ n # number[d] => ~Taken(n, d)
  /\ IndexAllows(d, n)
  /\ number' = [number EXCEPT ![d] = n]
  /\ UNCHANGED <<kind, settings, req, assigned>>

\* The other updates compare with the number they read before their
\* transaction; a production order keeps its number.
RenameRead(c, d, n) ==
  /\ kind = "document" /\ Present(d)
  /\ Park(c, [op |-> "rename", doc |-> d, current |-> number[d], next |-> n])
  /\ UNCHANGED <<kind, number, settings, assigned>>

\* Mutant of RenameWrite: without the index behind the check.
RenameWriteUnindexed(c) ==
  /\ req[c].op = "rename"
  /\ LET r == req[c] IN
       /\ Present(r.doc)
       /\ r.next \notin {Blank, r.current} => ~Taken(r.next, r.doc)
       /\ number' = [number EXCEPT ![r.doc] = r.next]
  /\ Resume(c)
  /\ UNCHANGED <<kind, settings, assigned>>

\* The number goes to the document unless the check or the index refuses it.
RenameWrite(c) ==
  /\ req[c].op = "rename"
  /\ LET r == req[c] IN
       /\ Present(r.doc)
       /\ r.next \notin {Blank, r.current} => ~Taken(r.next, r.doc)
       /\ IndexAllows(r.doc, r.next)
       /\ number' = [number EXCEPT ![r.doc] = r.next]
  /\ Resume(c)
  /\ UNCHANGED <<kind, settings, assigned>>

\* A draft is deleted, and its number is free again.
Delete(d) ==
  /\ Present(d)
  /\ number' = [number EXCEPT ![d] = None]
  /\ UNCHANGED <<kind, settings, req, assigned>>

-----------------------------------------------------------------------------
(* Settings.                                                               *)

\* A settings page is opened; its form shows the counter.
OpenSettings(c) ==
  /\ Park(c, [op |-> "settings", counter |-> counter])
  /\ UNCHANGED <<kind, number, settings, assigned>>

\* Mutant of Unchanged: the other page sends it along, too (F99).
UnchangedAsShown(shown) == shown

\* The page is saved with the counter as it was shown. The invoice form sends
\* it along, the other page leaves it out and the server keeps its own.
Unchanged(shown) == IF kind = "invoice" THEN shown ELSE counter

SaveFormat(c, f) ==
  /\ req[c].op = "settings"
  /\ format' = f /\ counter' = Unchanged(req[c].counter)
  /\ Resume(c)
  /\ UNCHANGED <<kind, number, assigned>>

\* The page is saved with another counter, and counting goes on from there.
SetCounter(c, f, k) ==
  /\ req[c].op = "settings" /\ k # req[c].counter
  /\ format' = f /\ counter' = k
  /\ issued' = {n \in issued : n.n <= k}
  /\ reissued' = reissued \cap issued'
  /\ Resume(c)
  /\ UNCHANGED <<kind, number>>

\* A reset of an organization's data removes its documents; the invoice counter
\* starts again, the others with a reset of the master data only.
Reset(master) ==
  /\ number' = [d \in Docs |-> None]
  /\ IF kind = "invoice"
       THEN counter' = 0 /\ issued' = {} /\ reissued' = {} /\ UNCHANGED format
     ELSE IF master
       THEN counter' = 0 /\ issued' = {} /\ reissued' = {} /\ format' = Default
     ELSE UNCHANGED <<settings, assigned>>
  /\ UNCHANGED <<kind, req>>

\* A request is refused or a page left.
Leave(c) ==
  /\ req[c] # Idle
  /\ Resume(c)
  /\ UNCHANGED <<kind, number, settings, assigned>>

-----------------------------------------------------------------------------

Init ==
  /\ kind \in Kinds
  /\ number = [d \in Docs |-> None]
  /\ counter = 0 /\ format = Default
  /\ req = [c \in Clerks |-> Idle]
  /\ issued = {} /\ reissued = {}

Next ==
  \/ \E d \in Docs : Create(d) \/ Delete(d)
  \/ \E d \in Docs, n \in Numbers : CreateTyped(d, n) \/ RenameInvoice(d, n)
  \/ \E c \in Clerks, d \in Docs, n \in Numbers \cup {Blank} : RenameRead(c, d, n)
  \/ \E c \in Clerks : RenameWrite(c) \/ OpenSettings(c) \/ Leave(c)
  \/ \E c \in Clerks, f \in Formats \cup {Fixed} :
       SaveFormat(c, f) \/ \E k \in 0..MaxCounter : SetCounter(c, f, k)
  \/ \E master \in BOOLEAN : Reset(master)

Spec == Init /\ [][Next]_vars

-----------------------------------------------------------------------------
(* Properties.                                                             *)

\* No two documents of a kind carry one number, whatever creations, typed
\* numbers and renamings on an old look cross (db/document_number_unique.go).
UniqueNumbers ==
  \A d, e \in Docs : Present(d) /\ number[d] = number[e] /\ number[d] # Blank => d = e

\* A number once assigned to an order, a delivery, a receipt or a production
\* order is not assigned again while it counts on, though the document be
\* deleted or renamed and the settings page saved meanwhile (F99;
\* document_number.go:270). A format without {number} repeats itself.
NeverReissued == kind = "document" => \A n \in reissued : n.format = Fixed

\* "Invoice numbers ... are never reused" (db/invoice_number.go:9): the page
\* of the invoice settings sends back the counter it was opened with.
InvoiceNumbersNeverReused == kind = "invoice" => \A n \in reissued : n.format = Fixed

\* "This keeps the 'next' preview monotonically increasing even across
\* edits/deletes" (document_number.go:274): a step that leaves the settings
\* alone and the counter where it is or further never takes the preview back.
PreviewNeverFalls ==
  [][counter' >= counter /\ format' = format =>
       \A j, k \in 1..MaxCounter : FirstFree(j) /\ FirstFree(k)' => j <= k]_vars
=============================================================================
