------------------------------- MODULE Chart -------------------------------
(***************************************************************************)
(* The chart of accounts of each organization, the accounts it names as    *)
(* defaults, and what a start of the server adds to both (db/account.go,   *)
(* db/organization.go, db/reset.go, main.go).                              *)
(*                                                                         *)
(* Creating and deleting an account, and posting to one, are single steps: *)
(* what they check the statement or its foreign keys check again. Editing  *)
(* an account or an organization checks first and writes blindly, so each  *)
(* is a read, which parks the request in editing, and a write. A start of  *)
(* the server runs its statements one by one before it serves anyone, and  *)
(* may crash between any two.                                              *)
(***************************************************************************)
EXTENDS Integers, Sequences

CONSTANTS
  Organizations,
  Editors,       \* requests in flight at once
  Codes, Types,  \* account codes and types
  Columns,       \* the columns of organizations that name an account
  ChartColumns,  \* those a new chart wires
  ColumnSets,    \* the sets of columns one edit of an organization names: a bound
  Template,      \* the rows of the starter chart, headers first
  Backfills,     \* the rows each later feature adds to charts that lack them
  MaxAccounts,   \* accounts ever made: a bound
  Nobody         \* no organization, no column

VARIABLES
  account,   \* the accounts table
  made,      \* the number of accounts made so far
  present,   \* the organizations there are
  column,    \* the default accounts of each organization
  methods,   \* organizations.cashBookPaymentMethods
  drafted,   \* accounts with a line of a draft entry
  posted,    \* accounts with a line of a posted entry
  editing,   \* what each request has checked and not yet written
  startup    \* where the server is in its start

chartVars == <<account, made, present, column, methods, drafted, posted, editing, startup>>
accountTables == <<account, made, present, column, methods>>
entryLines == <<drafted, posted>>

Unset == 0
AccountIds == 1..MaxAccounts
Row == [code : Codes, type : Types, group : BOOLEAN, parent : Nat,
        column : Columns \cup {Nobody}]

ASSUME ChartAssumption ==
  /\ MaxAccounts \in Nat
  /\ Nobody \notin Organizations \cup Columns
  /\ {"bank", "register"} \subseteq Columns
  /\ ChartColumns \subseteq Columns \ {"register"}
  /\ \A s \in ColumnSets : s \subseteq Columns
  /\ Template \in Seq(Row) /\ Template # <<>>
  /\ \A i, j \in DOMAIN Template : Template[i].code = Template[j].code => i = j
  /\ \A i \in DOMAIN Template : /\ Template[i].parent < i
                                /\ Template[i].column \in ChartColumns \cup {Nobody}
  /\ Backfills \in Seq(Seq(Row))
  /\ \A k \in DOMAIN Backfills : \A j \in DOMAIN Backfills[k] :
       /\ Backfills[k][j].column \in ChartColumns \ {"bank"}
       /\ ~Backfills[k][j].group

-----------------------------------------------------------------------------
(* Data.                                                                   *)

Methods == {"cash_only", "cash_and_bank"}

NoAccount == [org |-> Nobody, parent |-> Unset, code |-> Nobody, type |-> Nobody,
              group |-> FALSE]
Account == [org : Organizations, parent : AccountIds \cup {Unset}, code : Codes,
            type : Types, group : BOOLEAN]

Accounts(o) == {i \in AccountIds : account[i].org = o}
Exists(i) == account[i].org # Nobody
Taken(o, code, except) == \E i \in Accounts(o) \ {except} : account[i].code = code
Children(i) == {j \in AccountIds : account[j].parent = i}

\* GetAccountUsageCount, of the references modelled here.
InUse(i) ==
  i \in drafted \cup posted \/ \E o \in present, col \in Columns : column[o][col] = i

\* parentId NULL, or an account of the same organization.
ParentOf(o, p) == p # Unset => account[p].org = o

Blank == [col \in Columns |-> Unset]

Insert(o, p, code, type, group) ==
  /\ made < MaxAccounts
  /\ made' = made + 1
  /\ account' = [account EXCEPT ![made + 1] =
       [org |-> o, parent |-> p, code |-> code, type |-> type, group |-> group]]

-----------------------------------------------------------------------------
(* Accounts.                                                               *)

NoEdit == [op |-> "idle"]
Serving == startup.phase = "serving"
Ready(e) == Serving /\ editing[e] = NoEdit
StartEdit(e, r) == Ready(e) /\ editing' = [editing EXCEPT ![e] = r]
EndEdit(e) == Serving /\ editing' = [editing EXCEPT ![e] = NoEdit]

CreateAccount(e, o, p, code, type, group) ==
  /\ Ready(e) /\ o \in present
  /\ ParentOf(o, p)
  /\ ~Taken(o, code, Unset)
  /\ Insert(o, p, code, type, group)
  /\ UNCHANGED <<present, column, methods, entryLines, editing, startup>>

\* F51: type and group are fixed once anything refers to the account.
MayEdit(i, p, type, group) ==
  /\ type # account[i].type \/ group # account[i].group => ~InUse(i)
  /\ ~group => Children(i) = {}
  /\ p # i /\ ParentOf(account[i].org, p)

UpdateAccountRead(e, i, p, code, type, group) ==
  /\ Exists(i)
  /\ MayEdit(i, p, type, group)
  /\ StartEdit(e, [op |-> "account", id |-> i, parent |-> p, code |-> code, type |-> type,
              group |-> group])
  /\ UNCHANGED <<accountTables, entryLines, startup>>

\* The statement finds the account by its id; the index on codes and the
\* foreign key of the parent are all that is looked at again.
UpdateAccountWrite(e) ==
  /\ editing[e].op = "account"
  /\ LET u == editing[e] IN
       /\ Exists(u.id)
       /\ ~Taken(account[u.id].org, u.code, u.id)
       /\ u.parent # Unset => Exists(u.parent)
       /\ account' = [account EXCEPT ![u.id] =
            [org |-> account[u.id].org, parent |-> u.parent, code |-> u.code,
             type |-> u.type, group |-> u.group]]
  /\ EndEdit(e)
  /\ UNCHANGED <<made, present, column, methods, entryLines, startup>>

DeleteAccount(e, i) ==
  /\ Ready(e) /\ Exists(i)
  /\ Children(i) = {} /\ ~InUse(i)
  /\ account' = [account EXCEPT ![i] = NoAccount]
  /\ UNCHANGED <<made, present, column, methods, entryLines, editing, startup>>

-----------------------------------------------------------------------------
(* Entries: what of them an account knows.                                 *)

\* A draft may name any account of its organization, a header too.
DraftLine(e, i) ==
  /\ Ready(e) /\ Exists(i)
  /\ drafted' = drafted \cup {i}
  /\ UNCHANGED <<accountTables, posted, editing, startup>>

DeleteDraft(e, i) ==
  /\ Ready(e) /\ i \in drafted
  /\ drafted' = drafted \ {i}
  /\ UNCHANGED <<accountTables, posted, editing, startup>>

\* allocateAndFinalizeEntryTx: looked at when an entry is posted, not drafted.
Postable(i) == Exists(i) /\ ~account[i].group

PostDraft(e, i) ==
  /\ Ready(e) /\ i \in drafted
  /\ Postable(i)
  /\ drafted' = drafted \ {i} /\ posted' = posted \cup {i}
  /\ UNCHANGED <<accountTables, editing, startup>>

\* The entry of a document, drafted and posted in one transaction.
PostLine(e, i) ==
  /\ Ready(e) /\ Postable(i)
  /\ posted' = posted \cup {i}
  /\ UNCHANGED <<accountTables, drafted, editing, startup>>

-----------------------------------------------------------------------------
(* Organizations.                                                          *)

\* The rows of the template as accounts of o, after the first n accounts.
Charted(o, n) ==
  [i \in AccountIds |->
     IF i \in (n + 1)..(n + Len(Template))
     THEN LET r == Template[i - n] IN
          [org |-> o, parent |-> IF r.parent = 0 THEN Unset ELSE n + r.parent,
           code |-> r.code, type |-> r.type, group |-> r.group]
     ELSE account[i]]

\* The account, of those after n, that the template makes the default of col.
ChartDefault(col, n) ==
  IF \E k \in DOMAIN Template : Template[k].column = col
  THEN n + (CHOOSE k \in DOMAIN Template : Template[k].column = col)
  ELSE Unset

CreateOrganization(e, o, mode) ==
  /\ Ready(e) /\ o \notin present
  /\ made + Len(Template) <= MaxAccounts
  /\ present' = present \cup {o}
  /\ account' = Charted(o, made)
  /\ made' = made + Len(Template)
  /\ column' = [column EXCEPT ![o] =
       [col \in Columns |-> IF col \in ChartColumns THEN ChartDefault(col, made) ELSE Unset]]
  /\ methods' = [methods EXCEPT ![o] = mode]
  /\ UNCHANGED <<entryLines, editing, startup>>

\* Mutant of OwnAccount: the foreign key alone.
OwnAccountOfAnyone(o, i) == Exists(i)

\* F193: requireSameOrg on every default an edit names.
OwnAccount(o, i) == account[i].org = o

\* validateCashBookAccountPair.
PairAllowed(mode, bank, register) ==
  mode = "cash_and_bank" => bank = Unset \/ bank # register

\* What an edit that names new defaults makes of those of o, and of its methods.
Rewired(o, new) ==
  [col \in Columns |-> IF col \in DOMAIN new THEN new[col] ELSE column[o][col]]
Switched(o, mode) == IF mode = "keep" THEN methods[o] ELSE mode

PairKept(o, new, mode) ==
  mode # "keep" \/ {"bank", "register"} \cap DOMAIN new # {} =>
    PairAllowed(Switched(o, mode), Rewired(o, new)["bank"], Rewired(o, new)["register"])

\* A column an edit does not name is kept; Unset clears it (F95).
UpdateOrganizationRead(e, o, new, mode) ==
  /\ o \in present
  /\ \A col \in DOMAIN new : new[col] # Unset => OwnAccount(o, new[col])
  /\ PairKept(o, new, mode)
  /\ StartEdit(e, [op |-> "defaults", org |-> o, new |-> new, mode |-> mode])
  /\ UNCHANGED <<accountTables, entryLines, startup>>

\* One statement; the foreign keys of the columns are all that is looked at again.
UpdateOrganizationWrite(e) ==
  /\ editing[e].op = "defaults"
  /\ LET u == editing[e] IN
       /\ u.org \in present
       /\ \A col \in DOMAIN u.new : u.new[col] # Unset => Exists(u.new[col])
       /\ column' = [column EXCEPT ![u.org] = Rewired(u.org, u.new)]
       /\ methods' = [methods EXCEPT ![u.org] = Switched(u.org, u.mode)]
  /\ EndEdit(e)
  /\ UNCHANGED <<account, made, present, entryLines, startup>>

\* The accounts of o go, and with them every line on one.
Wiped(o) == [i \in AccountIds |-> IF account[i].org = o THEN NoAccount ELSE account[i]]
ForgetLines(o) == drafted' = drafted \ Accounts(o) /\ posted' = posted \ Accounts(o)

\* One statement; everything of the organization goes by cascade.
DeleteOrganization(e, o) ==
  /\ Ready(e) /\ o \in present
  /\ present' = present \ {o}
  /\ account' = Wiped(o)
  /\ column' = [column EXCEPT ![o] = Blank]
  /\ methods' = [methods EXCEPT ![o] = "cash_only"]
  /\ ForgetLines(o)
  /\ UNCHANGED <<made, editing, startup>>

\* One transaction. Master data go only with the documents on them, and the
\* defaults before the accounts they name; a new chart comes with the next start.
ResetOrganizationData(e, o, master) ==
  /\ Ready(e) /\ o \in present
  /\ ForgetLines(o)
  /\ IF master THEN account' = Wiped(o) /\ column' = [column EXCEPT ![o] = Blank]
     ELSE UNCHANGED <<account, column>>
  /\ UNCHANGED <<made, present, methods, editing, startup>>

\* A refusal by the statement, an SQL error.
FailEdit(e) ==
  /\ editing[e] # NoEdit /\ EndEdit(e)
  /\ UNCHANGED <<accountTables, entryLines, startup>>

-----------------------------------------------------------------------------
(* Starting: the chart of an organization without accounts, then what each *)
(* later feature adds. Pass 0 is the chart, pass k is Backfills[k].        *)

PassRows(pass) == IF pass = 0 THEN Template ELSE Backfills[pass]

Stopped == [phase |-> "stopped", pass |-> 0, todo |-> {}, org |-> Nobody, at |-> 1,
            wired |-> Blank]

Begin ==
  /\ startup.phase = "stopped"
  /\ startup' = [startup EXCEPT !.phase = "seeding", !.todo = present]
  /\ UNCHANGED <<accountTables, entryLines, editing>>

\* Mutant of Due: the first column of a pass stands for all (F62).
DueByFirst(o, pass) ==
  IF pass = 0 THEN Accounts(o) = {} ELSE column[o][PassRows(pass)[1].column] = Unset

\* Whether a pass has anything to do for o: no accounts, or a column still unset.
Due(o, pass) ==
  IF pass = 0 THEN Accounts(o) = {}
  ELSE \E k \in DOMAIN PassRows(pass) : column[o][PassRows(pass)[k].column] = Unset

SeedNext(o) ==
  /\ startup.phase = "seeding" /\ startup.org = Nobody /\ o \in startup.todo
  /\ startup' = IF Due(o, startup.pass)
                THEN [startup EXCEPT !.org = o, !.at = 1, !.wired = Blank]
                ELSE [startup EXCEPT !.todo = @ \ {o}]
  /\ UNCHANGED <<accountTables, entryLines, editing>>

\* The header a new row goes under: the one the chart says, or the earliest
\* header of its type. PassRows made in one millisecond are equally early, so any.
Parents(o, r) ==
  IF startup.pass = 0
  THEN {IF r.parent = 0 THEN Unset ELSE made - (startup.at - 1) + r.parent}
  ELSE LET headers == {i \in Accounts(o) : account[i].type = r.type /\ account[i].group}
       IN  IF headers = {} THEN {Unset} ELSE headers

\* One row; a backfill skips a code the organization has.
SeedRow ==
  /\ startup.phase = "seeding" /\ startup.org # Nobody
  /\ startup.at \in DOMAIN PassRows(startup.pass)
  /\ LET o == startup.org
         r == PassRows(startup.pass)[startup.at] IN
       \/ /\ ~Taken(o, r.code, Unset)
          /\ \E p \in Parents(o, r) : Insert(o, p, r.code, r.type, r.group)
          /\ startup' = [startup EXCEPT !.at = @ + 1,
                           !.wired = IF r.column = Nobody THEN @
                                     ELSE [@ EXCEPT ![r.column] = made + 1]]
       \/ /\ Taken(o, r.code, Unset)
          /\ startup' = [startup EXCEPT !.at = @ + 1]
          /\ UNCHANGED <<account, made>>
  /\ UNCHANGED <<present, column, methods, entryLines, editing>>

\* The chart sets its columns, the unfilled ones to NULL; a backfill keeps what
\* is set (COALESCE).
Wired(o) ==
  [col \in Columns |-> IF \/ startup.pass = 0 /\ col \in ChartColumns
                          \/ startup.pass # 0 /\ column[o][col] = Unset
                       THEN startup.wired[col] ELSE column[o][col]]

SeedWire ==
  /\ startup.phase = "seeding" /\ startup.org # Nobody
  /\ startup.at = Len(PassRows(startup.pass)) + 1
  /\ column' = [column EXCEPT ![startup.org] = Wired(startup.org)]
  /\ startup' = [startup EXCEPT !.org = Nobody, !.todo = @ \ {startup.org}]
  /\ UNCHANGED <<account, made, present, methods, entryLines, editing>>

NextPass ==
  /\ startup.phase = "seeding" /\ startup.org = Nobody /\ startup.todo = {}
  /\ startup' = IF startup.pass < Len(Backfills)
                THEN [startup EXCEPT !.pass = @ + 1, !.todo = present]
                ELSE [Stopped EXCEPT !.phase = "serving"]
  /\ UNCHANGED <<accountTables, entryLines, editing>>

\* Between any two statements: a crash, or a shutdown.
Halt ==
  /\ startup.phase # "stopped"
  /\ startup' = Stopped
  /\ editing' = [e \in Editors |-> NoEdit]
  /\ UNCHANGED <<accountTables, entryLines>>

-----------------------------------------------------------------------------
\* A database older than the chart of accounts: organizations without one.
ChartInit ==
  /\ account = [i \in AccountIds |-> NoAccount] /\ made = 0
  /\ present \in SUBSET Organizations
  /\ column = [o \in Organizations |-> Blank]
  /\ methods = [o \in Organizations |-> "cash_only"]
  /\ drafted = {} /\ posted = {}
  /\ editing = [e \in Editors |-> NoEdit]
  /\ startup = Stopped

Accounting(e) ==
  \/ \E o \in Organizations, p \in AccountIds \cup {Unset}, code \in Codes, type \in Types,
        group \in BOOLEAN : CreateAccount(e, o, p, code, type, group)
  \/ \E i \in AccountIds, p \in AccountIds \cup {Unset}, code \in Codes, type \in Types,
        group \in BOOLEAN : UpdateAccountRead(e, i, p, code, type, group)
  \/ UpdateAccountWrite(e)
  \/ \E i \in AccountIds : \/ DeleteAccount(e, i) \/ DraftLine(e, i) \/ DeleteDraft(e, i)
                           \/ PostDraft(e, i) \/ PostLine(e, i)

Administering(e) ==
  \/ \E o \in Organizations, mode \in Methods : CreateOrganization(e, o, mode)
  \/ \E o \in Organizations : DeleteOrganization(e, o)
  \/ \E o \in Organizations, cols \in ColumnSets :
       \E new \in [cols -> AccountIds \cup {Unset}], mode \in Methods \cup {"keep"} :
         UpdateOrganizationRead(e, o, new, mode)
  \/ UpdateOrganizationWrite(e)
  \/ \E o \in Organizations, master \in BOOLEAN : ResetOrganizationData(e, o, master)
  \/ FailEdit(e)

Starting ==
  \/ Begin \/ SeedRow \/ SeedWire \/ NextPass
  \/ \E o \in Organizations : SeedNext(o)

ChartNext ==
  \/ \E e \in Editors : Accounting(e) \/ Administering(e)
  \/ Starting \/ Halt

ChartSpec == ChartInit /\ [][ChartNext]_chartVars

-----------------------------------------------------------------------------
(* Properties.                                                             *)

Update == [op : {"account"}, id : AccountIds, parent : AccountIds \cup {Unset},
           code : Codes, type : Types, group : BOOLEAN]
Defaults == [op : {"defaults"}, org : Organizations,
             new : UNION {[cols -> AccountIds \cup {Unset}] : cols \in ColumnSets},
             mode : Methods \cup {"keep"}]

\* What tables and requests hold is of the kinds the handlers write, and accounts
\* are made in the order of their ids.
ChartTypeOK ==
  /\ account \in [AccountIds -> Account \cup {NoAccount}]
  /\ made \in 0..MaxAccounts /\ \A i \in AccountIds : i > made => ~Exists(i)
  /\ present \subseteq Organizations
  /\ column \in [Organizations -> [Columns -> AccountIds \cup {Unset}]]
  /\ methods \in [Organizations -> Methods]
  /\ drafted \subseteq AccountIds /\ posted \subseteq AccountIds
  /\ editing \in [Editors -> {NoEdit} \cup Update \cup Defaults]
  /\ startup \in [phase : {"stopped", "seeding", "serving"}, pass : 0..Len(Backfills),
                  todo : SUBSET Organizations, org : Organizations \cup {Nobody},
                  at : Nat \ {0}, wired : [Columns -> AccountIds \cup {Unset}]]

\* F193: an organization's accounts, their headers and its defaults are its own,
\* and no line is left on an account that is gone, whatever is edited, deleted,
\* reset or seeded at once (db/organization.go:690, db/account.go:170, db/reset.go:192).
AccountsHome ==
  \A i \in AccountIds : Exists(i) => /\ account[i].org \in present
                                     /\ ParentOf(account[i].org, account[i].parent)
ColumnsHome ==
  \A o \in Organizations, col \in Columns :
    column[o][col] # Unset => o \in present /\ account[column[o][col]].org = o
LinesHome == \A i \in drafted \cup posted : Exists(i)

ReferencesStayHome == AccountsHome /\ ColumnsHome /\ LinesHome

\* A start of the server never changes a default that is set: a backfill keeps
\* it, and a chart is only made where nothing can be set (db/account.go:617).
StartupKeepsChoices ==
  [][startup.phase = "seeding" => \A o \in Organizations, col \in Columns :
       column[o][col] # Unset => column'[o][col] = column[o][col]]_chartVars

\* F62: once a start is through, a default that a later feature needs is set, or
\* the organization has the code of its account for something (db/account.go:732).
StartupFills ==
  [][startup.phase = "seeding" /\ startup'.phase = "serving" =>
       \A o \in present, k \in DOMAIN Backfills : \A j \in DOMAIN Backfills[k] :
         LET r == Backfills[k][j] IN
         column[o][r.column] # Unset \/ Taken(o, r.code, Unset)]_chartVars

\* F51: an account that entries are posted to keeps its type and stays a leaf
\* while they stand, so what was reported of the past stays so (db/account.go:136).
\* The check comes before the write: so with one editor at a time.
HistoryKeepsItsClass ==
  [][\A i \in posted \cap posted' : /\ account'[i].type = account[i].type
                                    /\ account'[i].group = account[i].group]_chartVars

\* Nothing is posted to a header, whichever came first, the entry or the header
\* (db/account.go:32). With one editor at a time.
HeadersCarryNothing == \A i \in posted : ~account[i].group

\* Where card payments are taken, the bank and the register are two accounts
\* (db/organization.go:694). With one editor at a time.
BankIsNotTheRegister ==
  \A o \in present : PairAllowed(methods[o], column[o]["bank"], column[o]["register"])

\* A start of the server leaves no default unset that a later feature needs
\* (db/gl_posting.go:1281).
StartupConfigures ==
  [][startup.phase = "seeding" /\ startup'.phase = "serving" =>
       \A o \in present, k \in DOMAIN Backfills : \A j \in DOMAIN Backfills[k] :
         column[o][Backfills[k][j].column] # Unset]_chartVars
=============================================================================
