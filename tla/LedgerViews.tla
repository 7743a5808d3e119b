---------------------------- MODULE LedgerViews ----------------------------
(***************************************************************************)
(* What readers see of a table they page through while others write to it. *)
(* GET /api/v1/ledger gives the rows that match a filter by LIMIT and      *)
(* OFFSET, newest e-mail first, and adds up their amounts; GET             *)
(* /api/v1/invoices gives them in the order of the table; the dead letter  *)
(* list of the API and of cajaclara-admin gives the newest events first.   *)
(* A reader goes from page to page, and between its requests rows arrive   *)
(* anywhere in the order (received_date is the date of the e-mail, not of  *)
(* the insert), and dead letters are buried and replayed.                  *)
(*                                                                         *)
(* A request is one step, because its queries run in one transaction       *)
(* (Transactions).  Rows of the ledger keep what a filter looks at: Ingest *)
(* never changes one, and the triggers refuse it for PROCESSED rows.       *)
(***************************************************************************)
EXTENDS Integers, FiniteSets, Sequences

CONSTANTS
    Dates,     \* values of received_date, as numbers
    PageSize,  \* page_size
    MaxRows    \* bound on the rows of the ledger, for the model only

ASSUME LedgerViewsAssumption ==
    /\ Dates \subseteq Int
    /\ PageSize \in Nat \ {0}
    /\ MaxRows \in Nat

VARIABLES
    table,    \* which list is read: ledger, invoices or deadLetters
    rows,     \* its table, by id
    walking,  \* is a reader between two pages
    page,     \* the page it asks for next
    first,    \* history: the rows that match since it asked for page 1
    gone,     \* history: how many rows ceased to match since then
    got       \* the rows it has been given

vars == <<table, rows, walking, page, first, gone, got>>

\* A PROCESSED invoice; a DUPLICATE as the daemon stores it, with the amounts
\* of the extract, or as a worker does, without; a message in ERROR.
Kinds == {"invoice", "copy", "blankCopy", "error"}

\* match: whether the filter of the reader fits the row.
LedgerRow == [date : Dates, kind : Kinds, match : BOOLEAN]

\* An event has no date to be ordered by and matches while it is a dead letter.
EventRow == [date : {0}, kind : {"event"}, match : BOOLEAN]

Row == IF table = "deadLetters" THEN EventRow ELSE LedgerRow

Ids == 1..Len(rows)

TypeOK ==
    /\ table \in {"ledger", "invoices", "deadLetters"}
    /\ rows \in Seq(Row)
    /\ walking \in BOOLEAN
    /\ page \in Nat \ {0}
    /\ first \subseteq Ids
    /\ gone \in 0..MaxRows
    /\ got \subseteq Ids

Init ==
    /\ table \in {"ledger", "invoices", "deadLetters"}
    /\ rows = << >>
    /\ walking = FALSE
    /\ page = 1
    /\ first = {}
    /\ gone = 0
    /\ got = {}

-----------------------------------------------------------------------------
(* The queries of get_ledger, get_invoices, get_dlq_events and             *)
(* list_outbox_events.                                                     *)

Matching == {r \in Ids : rows[r].match}

\* ORDER BY received_date DESC, id DESC, of which the dead letters take the
\* second part.
NewestFirst(q, r) ==
    \/ rows[q].date > rows[r].date
    \/ rows[q].date = rows[r].date /\ q > r

\* get_invoices asks for no order: SQLite goes through the table, or through
\* the index on status, by rowid.
Before(q, r) == IF table = "invoices" THEN q < r ELSE NewestFirst(q, r)

\* How many matching rows the query skips before it comes to r.
Rank(r) == Cardinality({q \in Matching : Before(q, r)})

TotalRecords == Cardinality(Matching)

\* Variant: the last page, when it is not full, is not counted.
TotalPagesFloor == IF TotalRecords > 0 THEN TotalRecords \div PageSize ELSE 1

TotalPages ==
    IF TotalRecords > 0 THEN (TotalRecords + PageSize - 1) \div PageSize ELSE 1

\* LIMIT page_size OFFSET (page - 1) * page_size
Items(p) == {r \in Matching : (p - 1) * PageSize <= Rank(r) /\ Rank(r) < p * PageSize}

\* The ledger says whether there is a next page; the other lists say nothing,
\* and the reader goes on while pages are full.
HasNext(p) ==
    IF table = "ledger" THEN p < TotalPages ELSE Cardinality(Items(p)) = PageSize

\* generate_sire_rce leaves out the rows that are in ERROR, which have no
\* issuer; a duplicate is a line of the register like any other.
SireLines == {r \in Ids : rows[r].kind \in {"invoice", "copy", "blankCopy"}}

\* The summary adds up the amounts of every matching row that has amounts.
Counted == {r \in Matching : rows[r].kind \in {"invoice", "copy"}}

-----------------------------------------------------------------------------
(* The consumers, the dispatcher, the operators and the reader.            *)

\* A duplicate needs an invoice of which it is one.
Insert(row) ==
    /\ Len(rows) < MaxRows
    /\ table = "deadLetters" => ~ row.match
    /\ row.kind \in {"copy", "blankCopy"} => \E r \in Ids : rows[r].kind = "invoice"
    /\ rows' = Append(rows, row)
    /\ UNCHANGED <<table, walking, page, first, gone, got>>

\* The dispatcher gives an event up: it gets back its place in the list.
Bury(r) ==
    /\ table = "deadLetters"
    /\ ~ rows[r].match
    /\ rows' = [rows EXCEPT ![r].match = TRUE]
    /\ UNCHANGED <<table, walking, page, first, gone, got>>

\* An operator replays a dead letter while the reader is between two pages.
Replay(r) ==
    /\ table = "deadLetters"
    /\ rows[r].match
    /\ rows' = [rows EXCEPT ![r].match = FALSE]
    /\ first' = first \ {r}
    /\ gone' = IF gone < MaxRows THEN gone + 1 ELSE gone
    /\ UNCHANGED <<table, walking, page, got>>

\* setPage(1): a new filter, or the table is opened; offset 0.
OpenList ==
    /\ ~ walking
    /\ walking' = TRUE
    /\ page' = 1
    /\ first' = Matching
    /\ gone' = 0
    /\ got' = {}
    /\ UNCHANGED <<table, rows>>

\* One request; the "next" button is disabled when has_next is false.
ReadPage ==
    /\ walking
    /\ got' = got \union Items(page)
    /\ walking' = HasNext(page)
    /\ page' = page + 1
    /\ UNCHANGED <<table, rows, first, gone>>

Next ==
    \/ \E row \in Row : Insert(row)
    \/ \E r \in Ids : Bury(r) \/ Replay(r)
    \/ OpenList
    \/ ReadPage

Spec == Init /\ [][Next]_vars

-----------------------------------------------------------------------------
(* Safety.                                                                 *)

\* A row that has matched since the walk began has been shown or is on a page
\* still ahead.
Reached(r) == r \in got \/ (walking /\ Rank(r) >= (page - 1) * PageSize)

\* A reader that walks to the end is shown every row that matched all the
\* time, although rows come in ahead of it and behind it and the number of
\* pages grows: it may see a row twice, and it skips at most one for each row
\* that left the list meanwhile, none where rows never leave (api.py:149,
\* 233-237, 320, cli_admin.py:34).
WalkSeesEverything == Cardinality({r \in first : ~ Reached(r)}) <= gone

\* "totales agregados exactos" (api.py:204): the summary counts an invoice once.
TotalsCountInvoicesOnce == \A r \in Counted : rows[r].kind = "invoice"

\* "Registro de Compras Electrónico" (api.py:164): the register that is filed
\* lists an invoice once.
RegisterListsInvoicesOnce == \A r \in SireLines : rows[r].kind = "invoice"
=============================================================================
