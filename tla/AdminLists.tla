------------------------------ MODULE AdminLists ------------------------------
(***************************************************************************)
(* The lists of the administration pages (list_users, list_companies,      *)
(* list_catalog_items, list_disputes, list_rfqs, list_proposals,           *)
(* list_contracts, list_finance, list_reports of AdminService), and an     *)
(* administrator who walks through the pages of one view of one of them    *)
(* while rows come, go and change.                                         *)
(*                                                                         *)
(* A request counts the rows of the view and then selects a page by        *)
(* offset, in two statements of which each sees what is committed at that  *)
(* moment.  Between the requests nothing is kept.  For the walk a row is   *)
(* in the view or is not; the statuses and the search text that decide it  *)
(* change through the handlers of the other modules.                       *)
(***************************************************************************)
EXTENDS Integers, FiniteSets

CONSTANTS
    MaxRows,        \* bound: rows there ever are
    PageSize,
    MaxChanges      \* bound: changes of rows during a walk

ASSUME ListsAssumption ==
    /\ MaxRows \in Nat
    /\ PageSize \in Nat \ {0}
    /\ MaxChanges \in Nat

VARIABLES
    list,       \* the list that is walked
    at,         \* what its rows are ordered by, the latest first; 0: no row yet
    shown,      \* the rows of the view
    page,       \* the page asked for next; 0 at the end of the walk
    total,      \* the count of the request under way
    seen,       \* rows the administrator has been shown
    last,       \* rows of the page shown last
    stayed,     \* history: rows in the view since the walk began
    moved,      \* history: changes that can move a row past the walk
    changes

listed == <<at, shown, stayed, moved, changes>>
walkVars == <<list, listed, page, total, seen, last>>

-----------------------------------------------------------------------------
Rows == 1 .. MaxRows    \* the ids of the rows, some of them not inserted yet
Present == {r \in Rows : at[r] > 0}

\* What the lists differ in: the column they are ordered by, whether the rows of
\* another table can decide what is in the view, and whether a page past the end
\* is replaced by the last one.
Listing == [order : {"created", "updated"}, byReport : BOOLEAN, clamps : BOOLEAN]
ByCreation == [order |-> "created", byReport |-> FALSE, clamps |-> FALSE]

ListUsers == ByCreation
ListCompanies == ByCreation
ListCatalogItems == ByCreation
ListDisputes == ByCreation
ListProposals == ByCreation
ListContracts == ByCreation
ListFinance == ByCreation
\* A change of an RFQ brings it to the front.
ListRfqs == [ByCreation EXCEPT !.order = "updated"]
\* The view "reported" of list_rfqs: those with an open row in rfq_reports.
ListReportedRfqs == [ListRfqs EXCEPT !.byReport = TRUE]
\* The open reports of the three kinds, a page past the end replaced.
ListReportsFaulty == ByCreation
ListReports == [ByCreation EXCEPT !.clamps = TRUE]

Lists == {ListUsers, ListCompanies, ListCatalogItems, ListDisputes, ListProposals,
          ListContracts, ListFinance, ListRfqs, ListReportedRfqs, ListReports}

None == -1
Counted == total # None

PagesFaulty(count) == IF count < PageSize THEN 1 ELSE count \div PageSize
Pages(count) == IF count = 0 THEN 1 ELSE (count + PageSize - 1) \div PageSize

Least(a, b) == IF a < b THEN a ELSE b

\* The rows of a view that the query returns before r.
Before(r, view, stamp) == {s \in view : stamp[s] > stamp[r]}

\* offset((page - 1) * page_size).limit(page_size)
Offset(p) == (p - 1) * PageSize
PageOf(p) ==
    {r \in shown : Cardinality(Before(r, shown, at))
                      \in Offset(p) .. Offset(p) + PageSize - 1}

WalkInit ==
    /\ list \in Lists
    /\ \E n \in 0 .. MaxRows : at = [r \in Rows |-> IF r <= n THEN r ELSE 0]
    /\ shown \in SUBSET Present
    /\ stayed = shown
    /\ page = 1
    /\ total = None
    /\ seen = {}
    /\ last = {}
    /\ moved = 0
    /\ changes = 0

-----------------------------------------------------------------------------
(***************************************************************************)
(* A request of the walk.                                                  *)
(***************************************************************************)
Count ==
    /\ page # 0
    /\ ~ Counted
    /\ total' = Cardinality(shown)
    /\ page' = IF list.clamps THEN Least(page, Pages(total')) ELSE page
    /\ UNCHANGED <<list, listed, seen, last>>

\* The response tells the number of pages; the walk ends with the last.
Select ==
    /\ Counted
    /\ last' = PageOf(page)
    /\ seen' = seen \cup last'
    /\ page' = IF page < Pages(total) THEN page + 1 ELSE 0
    /\ total' = None
    /\ UNCHANGED <<list, listed>>

-----------------------------------------------------------------------------
(***************************************************************************)
(* What other requests do meanwhile.  A row enters and leaves the view as  *)
(* what the filter of the view reads changes (_catalog_view_filter,        *)
(* _rfq_view_filter and those of the other lists).                         *)
(***************************************************************************)
Change(disturbs) ==
    /\ page # 0
    /\ changes < MaxChanges
    /\ changes' = changes + 1
    /\ moved' = moved + IF disturbs THEN 1 ELSE 0
    /\ UNCHANGED <<list, page, total, seen, last>>

\* Later than every row so far.
Stamped(r) == at' = [at EXCEPT ![r] = MaxRows + changes + 1]
Reordered(r) == IF list.order = "updated" THEN Stamped(r) ELSE UNCHANGED at

\* A row comes into the view or goes out of it by a change of its own, or, where
\* reports decide, by one of them that leaves it in its place.
Filtered(r) == Reordered(r) \/ (list.byReport /\ UNCHANGED at)

\* A new row is the newest; ids count up.
Insert(r, visible) ==
    /\ r \notin Present
    /\ \A s \in Rows : s < r => s \in Present
    /\ Stamped(r)
    /\ shown' = IF visible THEN shown \cup {r} ELSE shown
    /\ Change(visible /\ Counted)
    /\ UNCHANGED stayed

Enter(r) ==
    /\ r \in Present \ shown
    /\ Filtered(r)
    /\ shown' = shown \cup {r}
    /\ Change(Counted)
    /\ UNCHANGED stayed

Leave(r) ==
    /\ r \in shown
    /\ Filtered(r)
    /\ shown' = shown \ {r}
    /\ stayed' = stayed \ {r}
    /\ Change(TRUE)

\* A change that keeps the row in the view moves an RFQ only.
Touch(r) ==
    /\ r \in shown
    /\ list.order = "updated"
    /\ Reordered(r)
    /\ Change(TRUE)
    /\ UNCHANGED <<shown, stayed>>

WalkNext ==
    \/ Count
    \/ Select
    \/ \E r \in Rows :
        \/ \E visible \in BOOLEAN : Insert(r, visible)
        \/ Enter(r)
        \/ Leave(r)
        \/ Touch(r)

WalkSpec == WalkInit /\ [][WalkNext]_walkVars

-----------------------------------------------------------------------------
WalkTypeOK ==
    /\ list \in Lists
    /\ at \in [Rows -> 0 .. MaxRows + changes]
    /\ stayed \subseteq shown /\ shown \subseteq Present
    /\ page \in Nat
    /\ total \in Nat \cup {None}
    /\ last \subseteq seen /\ seen \subseteq Rows
    /\ moved \in 0 .. changes /\ changes \in 0 .. MaxChanges

\* A walk to the last page misses a row that was in the view all along only
\* when another row left the view, an RFQ was updated, or a row came between
\* the count and the page of one request, and no more rows than there were
\* such changes: new rows alone hide nothing (offset, order_by, pages).
WalkMissesOnlyMoved ==
    page = 0 => Cardinality(stayed \ seen) <= moved

\* The rows the page of a request has by its count, a page past the end being
\* replaced by the last one, and the rows the view has lost since that count.
Due == Least(PageSize, total - Offset(Least(page, Pages(total))))
Lost == IF Cardinality(shown) < total THEN total - Cardinality(shown) ELSE 0

\* A request for the reports answers a page past the end with the last page it
\* counted, and no more rows are lacking on its page than were closed between
\* the count and the SELECT: such a page may come out short, or empty with
\* reports still open, but only by as many (list_reports).
ClampedPageHasRows ==
    [][Select /\ list = ListReports => Cardinality(last') + Lost >= Due]_walkVars
=============================================================================
