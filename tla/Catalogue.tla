------------------------------ MODULE Catalogue ------------------------------
(***************************************************************************)
(* The catalogue of one supplier (CatalogItemService), the reports clients *)
(* file against its items, and their moderation (apply_catalog_action and  *)
(* apply_report_action of AdminService), next to the supplier's plan.      *)
(*                                                                         *)
(* One request at a time, a handler is one action; but for create_report:  *)
(* requests of one client run through it side by side, so that its look    *)
(* for an open report and its insert are two steps, and only the partial   *)
(* unique index uq_catalog_item_open_report decides between them.          *)
(*                                                                         *)
(* The supplier sells alone or for a company, whose items are blocked with *)
(* the company; the rest of what becomes of a company and of its team is   *)
(* in Organisation.                                                        *)
(*                                                                         *)
(* CatalogItemService.update is no action: it deletes and inserts the row  *)
(* of item_pricing in one flush, the insert goes first, and the unique     *)
(* item_id refuses it, so that the request changes nothing.  Publish is    *)
(* none either: set_status refuses "pending_review", which is what the     *)
(* route passes.                                                           *)
(***************************************************************************)
EXTENDS Subscription

CONSTANTS
    Items,
    Reports,    \* the rows catalog_item_reports may get
    Clients,    \* users who report; none of them is the supplier
    Requests,   \* create_report requests that may be under way
    Nothing     \* no row, no request

VARIABLES
    item,       \* catalog_items.status; "none": no row yet
    report,     \* catalog_item_reports
    seller,     \* whose actor has the items: the user's own or its company's
    blocked,    \* users.status or, of the company, operational_status is blocked
    filing,     \* what a request under way found it may insert
    reviewed,   \* history: items approved and not touched by the supplier since
    sanctions   \* history: how often a report led to a measure of its own

catalogue == <<item, report, seller, blocked, filing, reviewed, sanctions>>
vars == <<subscription, catalogue>>

-----------------------------------------------------------------------------
ItemStatus == {"draft", "pending_review", "changes_requested", "active",
               "hidden", "archived", "deleted"}
ReportStatus == {"open", "resolved", "dismissed"}
Staff == {"moderator", "admin"}

Draft == [item : Items, by : Clients]       \* what create_report inserts
Report == [item : Items, by : Clients, status : ReportStatus]

ASSUME NothingAssumption == Nothing \notin Draft \cup Report

Filed(r) == report[r] # Nothing
Open(r) == Filed(r) /\ report[r].status = "open"
Public == {i \in Items : item[i] = "active"}

\* _get_item: a deleted item is not found.
Found(i) == item[i] \notin {"none", "deleted"}

Init ==
    /\ SubscriptionInit
    /\ item = [i \in Items |-> "none"]
    /\ report = [r \in Reports |-> Nothing]
    /\ seller \in {"user", "company"}
    /\ blocked = FALSE
    /\ filing = [q \in Requests |-> Nothing]
    /\ reviewed = {}
    /\ sanctions = [r \in Reports |-> 0]

-----------------------------------------------------------------------------
(***************************************************************************)
(* The supplier.                                                           *)
(***************************************************************************)

\* _normalize_supplier_status, with no current status: what create accepts.
SupplierStatusFaulty == ItemStatus \ {"hidden", "deleted"}
SupplierStatus == {"draft", "pending_review", "changes_requested", "archived"}

\* The route looks at the limit only for a status the item may become public
\* from.
CreateItem(i, status) ==
    /\ item[i] = "none"
    /\ status \in {"active", "pending_review"} => CatalogLimitAllows(Cardinality(Public))
    /\ status \in SupplierStatus
    /\ item' = [item EXCEPT ![i] = status]
    /\ UNCHANGED <<report, blocked, filing, reviewed, sanctions>>

\* set_status with "archived", the one status a route passes and it accepts.
Archive(i) ==
    /\ Found(i)
    /\ item' = [item EXCEPT ![i] = "archived"]
    /\ reviewed' = reviewed \ {i}
    /\ UNCHANGED <<report, blocked, filing, sanctions>>

\* delete leaves the reports alone.
DeleteItem(i) ==
    /\ Found(i)
    /\ item' = [item EXCEPT ![i] = "deleted"]
    /\ reviewed' = reviewed \ {i}
    /\ UNCHANGED <<report, blocked, filing, sanctions>>

\* require_supplier_ctx refuses a blocked user, and finds no active actor of a
\* blocked company.
SupplierStep ==
    /\ ~ blocked
    /\ \E i \in Items :
        \/ \E status \in ItemStatus : CreateItem(i, status)
        \/ Archive(i)
        \/ DeleteItem(i)

-----------------------------------------------------------------------------
(***************************************************************************)
(* create_report.                                                          *)
(***************************************************************************)
OpenReports(i, c) ==
    {r \in Reports : Open(r) /\ report[r].item = i /\ report[r].by = c}

\* The item is public and the client has no open report for it.
CheckReport(q, i, c) ==
    /\ filing[q] = Nothing
    /\ item[i] = "active"
    /\ OpenReports(i, c) = {}
    /\ filing' = [filing EXCEPT ![q] = [item |-> i, by |-> c]]
    /\ UNCHANGED <<item, report, blocked, reviewed, sanctions>>

\* uq_catalog_item_open_report
IndexAllowsReport(d) == OpenReports(d.item, d.by) = {}

InsertReport(q, r) ==
    /\ filing[q] # Nothing
    /\ ~ Filed(r)
    /\ IndexAllowsReport(filing[q])
    /\ report' = [report EXCEPT ![r] = [item |-> filing[q].item, by |-> filing[q].by,
                                        status |-> "open"]]
    /\ filing' = [filing EXCEPT ![q] = Nothing]
    /\ UNCHANGED <<item, blocked, reviewed, sanctions>>

\* The insert fails and the request is rolled back.
RefuseReport(q) ==
    /\ filing[q] # Nothing
    /\ ~ IndexAllowsReport(filing[q])
    /\ filing' = [filing EXCEPT ![q] = Nothing]
    /\ UNCHANGED <<item, report, blocked, reviewed, sanctions>>

FilingStep ==
    \E q \in Requests :
        \/ \E i \in Items, c \in Clients : CheckReport(q, i, c)
        \/ \E r \in Reports : InsertReport(q, r)
        \/ RefuseReport(q)

-----------------------------------------------------------------------------
(***************************************************************************)
(* Moderation.                                                             *)
(***************************************************************************)

\* The open reports of an item get a status with the decision on the item.
Closed(reports, status) ==
    [r \in Reports |->
        IF r \in reports THEN [report[r] EXCEPT !.status = status] ELSE report[r]]

ClosableFaulty(i) == {r \in Reports : Filed(r) /\ report[r].item = i}
Closable(i) == {r \in Reports : Open(r) /\ report[r].item = i}

\* apply_catalog_action does not find a deleted item.
Moderated(i) == Found(i)

Approve(i) ==
    /\ Moderated(i)
    /\ item' = [item EXCEPT ![i] = "active"]
    /\ report' = Closed(Closable(i), "dismissed")
    /\ reviewed' = reviewed \cup {i}
    /\ UNCHANGED <<blocked, filing, sanctions>>

Hide(i) ==
    /\ Moderated(i)
    /\ item' = [item EXCEPT ![i] = "hidden"]
    /\ report' = Closed(Closable(i), "resolved")
    /\ UNCHANGED <<blocked, filing, reviewed, sanctions>>

RequestChanges(i) ==
    /\ Moderated(i)
    /\ item' = [item EXCEPT ![i] = "changes_requested"]
    /\ UNCHANGED <<report, blocked, filing, reviewed, sanctions>>

\* The branch "delete" of apply_catalog_action, for the route and for the
\* decision on a report; a moderator may not.
RemoveItem(staff, i) ==
    /\ staff = "admin"
    /\ Moderated(i)
    /\ item' = [item EXCEPT ![i] = "deleted"]
    /\ report' = Closed(Closable(i), "resolved")
    /\ UNCHANGED <<blocked, filing, reviewed>>

\* _load_report_bundle: the report, whatever became of it, with its item,
\* deleted or not.
Loaded(r) == Filed(r)

\* apply_report_action: only an open report is decided.
Decidable(r) == Loaded(r) /\ report[r].status = "open"
Sanction(r) == sanctions' = [sanctions EXCEPT ![r] = @ + 1]

Dismiss(r) ==
    /\ Decidable(r)
    /\ report' = Closed({r}, "dismissed")
    /\ UNCHANGED <<item, blocked, filing, reviewed, sanctions>>

WarnFaulty(r) ==
    /\ Filed(r)
    /\ report' = [report EXCEPT ![r].status = IF @ = "open" THEN "resolved" ELSE @]
    /\ Sanction(r)
    /\ UNCHANGED <<item, blocked, filing, reviewed>>

Warn(r) ==
    /\ Decidable(r)
    /\ report' = Closed({r}, "resolved")
    /\ Sanction(r)
    /\ UNCHANGED <<item, blocked, filing, reviewed>>

\* _suspend_reported_owner: "block" of apply_company_action where the item is a
\* company's, update_user_status where it is a user's; both block twice if asked.
SuspendOwner == blocked' = TRUE

Suspend(staff, r) ==
    /\ staff = "admin"
    /\ Decidable(r)
    /\ report' = Closed({r}, "resolved")
    /\ SuspendOwner
    /\ Sanction(r)
    /\ UNCHANGED <<item, filing, reviewed>>

\* _delete_reported_object: apply_catalog_action on the item.
DeleteReportedObject(staff, r) == RemoveItem(staff, report[r].item)

\* The report is resolved, then the item deleted: where the item is gone
\* already, the exception undoes both and the report stays open.
DeleteReported(staff, r) ==
    /\ Decidable(r)
    /\ DeleteReportedObject(staff, r)
    /\ Sanction(r)

\* "active" of update_user_status, "reactivate" of apply_company_action.
Unblock(staff) ==
    /\ staff = "admin"
    /\ blocked
    /\ blocked' = FALSE
    /\ UNCHANGED <<item, report, filing, reviewed, sanctions>>

ItemModerationStep ==
    \E i \in Items :
        \/ Approve(i)
        \/ Hide(i)
        \/ RequestChanges(i)
        \/ \E staff \in Staff : RemoveItem(staff, i) /\ UNCHANGED sanctions

ReportModerationStep ==
    \E r \in Reports :
        \/ Dismiss(r)
        \/ Warn(r)
        \/ \E staff \in Staff : Suspend(staff, r) \/ DeleteReported(staff, r)

CatalogueStep ==
    /\ \/ SupplierStep
       \/ FilingStep
       \/ ItemModerationStep
       \/ ReportModerationStep
       \/ \E staff \in Staff : Unblock(staff)
    /\ UNCHANGED seller

\* The owner of a blocked company still has an actor of its own.
Subscribes == blocked => seller = "company"

Next ==
    \/ CatalogueStep /\ UNCHANGED subscription
    \/ Subscribes /\ SubscriptionStep /\ UNCHANGED catalogue
    \/ Lapse /\ UNCHANGED catalogue

Spec == Init /\ [][Next]_vars

-----------------------------------------------------------------------------
TypeOK ==
    /\ SubscriptionTypeOK
    /\ item \in [Items -> ItemStatus \cup {"none"}]
    /\ report \in [Reports -> Report \cup {Nothing}]
    /\ seller \in {"user", "company"}
    /\ blocked \in BOOLEAN
    /\ filing \in [Requests -> Draft \cup {Nothing}]
    /\ reviewed \subseteq Items
    /\ sanctions \in [Reports -> Nat]

\* One report leads to one measure at most, and a dismissed one to none,
\* whichever of apply_report_action and apply_catalog_action closed it.  One
\* request at a time: two that overlap both find the report open, and both warn.
NoSanctionWithoutOpenReport ==
    \A r \in Reports :
        /\ sanctions[r] <= 1
        /\ sanctions[r] = 1 => report[r].status = "resolved"

\* The decision on a report is final: nothing reopens or rewrites it, later
\* decisions on its item included (apply_catalog_action, apply_report_action).
\* One request at a time: of two that overlap, the later one rewrites it.
DecisionIsFinal ==
    [][\A r \in Reports : Filed(r) /\ ~ Open(r) => report'[r] = report[r]]_vars

\* What the public catalogue shows (list_public, get_public) was approved
\* after the supplier touched it last: no supplier route publishes.  One request
\* at a time: an approval may overlap a change of the supplier.
PublicWasReviewed == Public \subseteq reviewed

=============================================================================
