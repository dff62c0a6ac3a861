---------------------------- MODULE CatalogueProofs ----------------------------
(***************************************************************************)
(* What holds of Catalogue, and of the Subscription next to it, for any    *)
(* items, reports, clients and requests under way, and for any plans and   *)
(* limits; and then of AdminLists, the lists in which the staff work       *)
(* through these and the other rows, for any number of rows and changes    *)
(* and any size of the page.                                               *)
(***************************************************************************)
EXTENDS Catalogue, AdminLists, FiniteSetTheorems, TLAPS

-----------------------------------------------------------------------------
(***************************************************************************)
(* Type correctness.                                                       *)
(***************************************************************************)

\* A report of the table is a row.
LEMMA FiledIsReport ==
    ASSUME TypeOK, NEW r \in Reports, Filed(r)
    PROVE  report[r] \in Report
BY DEF TypeOK, Filed

\* Closing reports leaves rows.
LEMMA ClosedType ==
    ASSUME TypeOK, NEW S \in SUBSET {r \in Reports : Filed(r)},
           NEW status \in ReportStatus
    PROVE  /\ Closed(S, status) \in [Reports -> Report \cup {Nothing}]
           /\ \A r \in S : Closed(S, status)[r] = [report[r] EXCEPT !.status = status]
           /\ \A r \in Reports \ S : Closed(S, status)[r] = report[r]
<1>1. ASSUME NEW r \in S PROVE [report[r] EXCEPT !.status = status] \in Report
  <2>1. report[r] \in Report
    BY FiledIsReport
  <2> QED
    BY <2>1 DEF Report
<1> QED
  BY <1>1 DEF Closed, TypeOK

LEMMA SupplierType ==
    ASSUME TypeOK, SupplierStep, UNCHANGED subscription, UNCHANGED seller
    PROVE  TypeOK'
BY DEF SupplierStep, CreateItem, Archive, DeleteItem, SupplierStatus, ItemStatus, TypeOK,
       SubscriptionTypeOK, subscription

LEMMA FilingType ==
    ASSUME TypeOK, FilingStep, UNCHANGED subscription, UNCHANGED seller
    PROVE  TypeOK'
<1> USE DEF TypeOK, SubscriptionTypeOK, subscription
<1>1. ASSUME NEW q \in Requests, NEW i \in Items, NEW c \in Clients, CheckReport(q, i, c)
      PROVE  TypeOK'
  BY <1>1 DEF CheckReport, Draft
<1>2. ASSUME NEW q \in Requests, NEW r \in Reports, InsertReport(q, r) PROVE TypeOK'
  <2>1. filing[q] \in Draft
    BY <1>2 DEF InsertReport
  <2>2. [item |-> filing[q].item, by |-> filing[q].by, status |-> "open"] \in Report
    BY <2>1 DEF Draft, Report, ReportStatus
  <2> QED
    BY <1>2, <2>2 DEF InsertReport
<1>3. ASSUME NEW q \in Requests, RefuseReport(q) PROVE TypeOK'
  BY <1>3 DEF RefuseReport
<1> QED
  BY <1>1, <1>2, <1>3 DEF FilingStep

\* The handlers of the staff on an item.
LEMMA ItemModerationType ==
    ASSUME TypeOK, NEW i \in Items, UNCHANGED subscription, UNCHANGED seller,
           \/ Approve(i) \/ Hide(i) \/ RequestChanges(i)
           \/ \E staff \in Staff : RemoveItem(staff, i) /\ sanctions' \in [Reports -> Nat]
    PROVE  TypeOK'
<1>1. Closable(i) \in SUBSET {r \in Reports : Filed(r)}
  BY DEF Closable, Open
<1>2. /\ Closed(Closable(i), "dismissed") \in [Reports -> Report \cup {Nothing}]
      /\ Closed(Closable(i), "resolved") \in [Reports -> Report \cup {Nothing}]
  BY <1>1, ClosedType DEF ReportStatus
<1> QED
  BY <1>2 DEF Approve, Hide, RequestChanges, RemoveItem, TypeOK, SubscriptionTypeOK, subscription,
              ItemStatus

\* The decisions on a report.
LEMMA ReportModerationType ==
    ASSUME TypeOK, ReportModerationStep, UNCHANGED subscription, UNCHANGED seller
    PROVE  TypeOK'
<1>1. ASSUME NEW r \in Reports, Decidable(r)
      PROVE  /\ Closed({r}, "dismissed") \in [Reports -> Report \cup {Nothing}]
             /\ Closed({r}, "resolved") \in [Reports -> Report \cup {Nothing}]
  <2>1. {r} \in SUBSET {s \in Reports : Filed(s)}
    BY <1>1 DEF Decidable, Loaded
  <2> QED
    BY <2>1, ClosedType DEF ReportStatus
<1>2. ASSUME NEW r \in Reports, Sanction(r) PROVE sanctions' \in [Reports -> Nat]
  BY <1>2 DEF Sanction, TypeOK
<1>3. ASSUME NEW r \in Reports, Dismiss(r) \/ Warn(r) PROVE TypeOK'
  BY <1>1, <1>2, <1>3 DEF Dismiss, Warn, TypeOK, SubscriptionTypeOK, subscription
<1>4. ASSUME NEW r \in Reports, NEW staff \in Staff, Suspend(staff, r) PROVE TypeOK'
  BY <1>1, <1>2, <1>4 DEF Suspend, SuspendOwner, TypeOK, SubscriptionTypeOK, subscription
<1>5. ASSUME NEW r \in Reports, NEW staff \in Staff, DeleteReported(staff, r) PROVE TypeOK'
  <2>1. report[r].item \in Items
    BY <1>5, FiledIsReport DEF DeleteReported, Decidable, Loaded, Report
  <2> QED
    BY <1>2, <1>5, <2>1, ItemModerationType DEF DeleteReported, DeleteReportedObject
<1> QED
  BY <1>3, <1>4, <1>5 DEF ReportModerationStep

\* The plan of the supplier.
LEMMA PlanType ==
    ASSUME TypeOK, SubscriptionStep \/ Lapse, UNCHANGED catalogue
    PROVE  TypeOK'
<1> USE MaxCompaniesAssumption DEF TypeOK, SubscriptionTypeOK, catalogue
<1>1. ASSUME NEW p \in Plans, Activate(p) PROVE TypeOK'
  BY <1>1 DEF Activate, Ledger
<1>2. CASE Cancel \/ Lapse
  BY <1>2 DEF Cancel, Lapse, Plans
<1>3. CASE FoundAsSupplier \/ FoundAsBuyer
  BY <1>3 DEF FoundAsSupplier, FoundAsBuyer
<1> QED
  BY <1>1, <1>2, <1>3 DEF SubscriptionStep

\* Every reachable state is well typed.
THEOREM TypeCorrect == Spec => []TypeOK
<1>1. Init => TypeOK
  <2> SUFFICES ASSUME Init PROVE TypeOK
    OBVIOUS
  <2>1. SubscriptionTypeOK
    <3>1. plan \in Plans /\ current \in BOOLEAN /\ billed \subseteq PaidPlans
      BY DEF Init, SubscriptionInit, Plans
    <3>2. made \in 0 .. MaxCompanies /\ bought \in 0 .. MaxCompanies - made
      BY MaxCompaniesAssumption DEF Init, SubscriptionInit
    <3> QED
      BY <3>1, <3>2 DEF SubscriptionTypeOK
  <2>2. item \in [Items -> ItemStatus \cup {"none"}] /\ sanctions \in [Reports -> Nat]
    BY DEF Init
  <2>3. report \in [Reports -> Report \cup {Nothing}] /\ filing \in [Requests -> Draft \cup {Nothing}]
    BY DEF Init
  <2> QED
    BY <2>1, <2>2, <2>3 DEF Init, TypeOK
<1>2. TypeOK /\ [Next]_vars => TypeOK'
  <2> SUFFICES ASSUME TypeOK, [Next]_vars PROVE TypeOK'
    OBVIOUS
  <2>1. CASE ItemModerationStep /\ UNCHANGED subscription /\ UNCHANGED seller
    BY <2>1, ItemModerationType DEF ItemModerationStep, TypeOK
  <2>2. ASSUME NEW staff \in Staff, Unblock(staff), UNCHANGED subscription,
                      UNCHANGED seller PROVE TypeOK'
    BY <2>2 DEF Unblock, TypeOK, SubscriptionTypeOK, subscription
  <2>3. CASE UNCHANGED vars
    BY <2>3 DEF vars, catalogue, subscription, TypeOK, SubscriptionTypeOK
  <2> QED
    BY <2>1, <2>2, <2>3, SupplierType, FilingType, ReportModerationType, PlanType
    DEF Next, CatalogueStep
<1> QED
  BY <1>1, <1>2, PTL DEF Spec

-----------------------------------------------------------------------------
(***************************************************************************)
(* Reports.                                                                *)
(***************************************************************************)

\* A report changes in two ways: it is filed, open, which the index allows, or
\* it was open and is decided.
FiledBy(r) ==
    \E q \in Requests :
        /\ ~ Filed(r)
        /\ filing[q] # Nothing
        /\ IndexAllowsReport(filing[q])
        /\ report' = [report EXCEPT ![r] = [item |-> filing[q].item, by |-> filing[q].by,
                                            status |-> "open"]]

Decides(S, status) ==
    /\ S \subseteq {r \in Reports : Open(r)}
    /\ report' = Closed(S, status)

LEMMA ClosableIsOpen == \A i : Closable(i) \subseteq {r \in Reports : Open(r)}
BY DEF Closable

LEMMA ReportSteps ==
    ASSUME TypeOK, [Next]_vars
    PROVE  \/ UNCHANGED <<report, sanctions>>
           \/ (\E r \in Reports : FiledBy(r)) /\ UNCHANGED sanctions
           \/ /\ \E S \in SUBSET Reports, status \in {"resolved", "dismissed"} : Decides(S, status)
              /\ UNCHANGED sanctions
           \/ \E S \in SUBSET Reports, r \in Reports :
                  r \in S /\ Decides(S, "resolved") /\ Sanction(r)
<1> DEFINE Step ==
        \/ UNCHANGED <<report, sanctions>>
        \/ (\E r \in Reports : FiledBy(r)) /\ UNCHANGED sanctions
        \/ /\ \E S \in SUBSET Reports, status \in {"resolved", "dismissed"} : Decides(S, status)
           /\ UNCHANGED sanctions
        \/ \E S \in SUBSET Reports, r \in Reports :
               r \in S /\ Decides(S, "resolved") /\ Sanction(r)
<1>1. ASSUME SupplierStep PROVE Step
  BY <1>1 DEF SupplierStep, CreateItem, Archive, DeleteItem
<1>2. ASSUME FilingStep PROVE Step
  BY <1>2 DEF FilingStep, CheckReport, InsertReport, RefuseReport, FiledBy
<1>3. ASSUME NEW i \in Items, Approve(i) \/ Hide(i) \/ RequestChanges(i)
      PROVE  \/ UNCHANGED <<report, sanctions>>
             \/ /\ \E S \in SUBSET Reports, status \in {"resolved", "dismissed"} : Decides(S, status)
                /\ UNCHANGED sanctions
  <2>1. Closable(i) \in SUBSET Reports
    BY DEF Closable
  <2> QED
    BY <1>3, <2>1, ClosableIsOpen DEF Approve, Hide, RequestChanges, Decides
<1>4. ASSUME NEW i, NEW staff \in Staff, RemoveItem(staff, i)
      PROVE  Closable(i) \in SUBSET Reports /\ Decides(Closable(i), "resolved")
  <2>1. Closable(i) \in SUBSET Reports
    BY DEF Closable
  <2> QED
    BY <1>4, <2>1, ClosableIsOpen DEF RemoveItem, Decides
<1>5. ASSUME NEW r \in Reports, Decidable(r)
      PROVE  /\ {r} \in SUBSET Reports
             /\ \A status : report' = Closed({r}, status) => Decides({r}, status)
  BY <1>5 DEF Decidable, Loaded, Open, Decides
<1>6. ASSUME NEW r \in Reports, Dismiss(r)
      PROVE  /\ \E S \in SUBSET Reports, status \in {"resolved", "dismissed"} : Decides(S, status)
             /\ UNCHANGED sanctions
  BY <1>5, <1>6 DEF Dismiss
<1>7. ASSUME NEW r \in Reports, NEW staff \in Staff, Warn(r) \/ Suspend(staff, r)
      PROVE  \E S \in SUBSET Reports : r \in S /\ Decides(S, "resolved") /\ Sanction(r)
  BY <1>5, <1>7 DEF Warn, Suspend
<1>8. ASSUME NEW r \in Reports, NEW staff \in Staff, DeleteReported(staff, r)
      PROVE  \E S \in SUBSET Reports : r \in S /\ Decides(S, "resolved") /\ Sanction(r)
  <2>1. r \in Closable(report[r].item)
    BY <1>8 DEF DeleteReported, Decidable, Loaded, Closable, Open
  <2> QED
    BY <1>4, <1>8, <2>1 DEF DeleteReported, DeleteReportedObject
<1>9. ASSUME ItemModerationStep PROVE Step
  BY <1>3, <1>4, <1>9 DEF ItemModerationStep
<1>10. ASSUME ReportModerationStep PROVE Step
  <2>1. PICK r \in Reports :
           Dismiss(r) \/ Warn(r) \/ \E staff \in Staff : Suspend(staff, r) \/ DeleteReported(staff, r)
    BY <1>10 DEF ReportModerationStep
  <2>2. CASE Dismiss(r)
    BY <1>6, <2>2
  <2>3. ASSUME NEW staff \in Staff, Warn(r) \/ Suspend(staff, r) \/ DeleteReported(staff, r)
        PROVE  Step
    <3>1. PICK S \in SUBSET Reports : r \in S /\ Decides(S, "resolved") /\ Sanction(r)
      BY <1>7, <1>8, <2>3
    <3> QED
      BY <3>1
  <2>4. Staff # {}
    BY DEF Staff
  <2> QED
    BY <2>1, <2>2, <2>3, <2>4
<1>11. ASSUME UNCHANGED catalogue \/ \E staff \in Staff : Unblock(staff)
       PROVE  Step
  BY <1>11 DEF catalogue, Unblock
<1>12. CatalogueStep \/ UNCHANGED catalogue
  BY DEF Next, vars
<1>13. Step
  <2> HIDE DEF Step
  <2> QED
    BY <1>1, <1>2, <1>9, <1>10, <1>11, <1>12 DEF CatalogueStep
<1> QED
  BY <1>13

\* What a decision leaves of the reports.
LEMMA DecisionReports ==
    ASSUME TypeOK, NEW S \in SUBSET Reports, NEW status \in {"resolved", "dismissed"},
           Decides(S, status)
    PROVE  \A r \in Reports :
              /\ r \in S => Open(r) /\ report'[r] = [report[r] EXCEPT !.status = status]
              /\ r \notin S => report'[r] = report[r]
BY DEF Decides, Closed

\* The decision on a report is final, later decisions on its item included
\* (apply_catalog_action, apply_report_action).
THEOREM DecisionsAreFinal == Spec => DecisionIsFinal
<1>1. ASSUME TypeOK, [Next]_vars, NEW r \in Reports, Filed(r), ~ Open(r)
      PROVE  report'[r] = report[r]
  <2>1. ASSUME NEW s \in Reports, FiledBy(s) PROVE report'[r] = report[r]
    BY <1>1, <2>1 DEF FiledBy
  <2>2. ASSUME NEW S \in SUBSET Reports, NEW status \in {"resolved", "dismissed"}, Decides(S, status)
        PROVE  report'[r] = report[r]
    BY <1>1, <2>2, DecisionReports
  <2> QED
    BY <1>1, <2>1, <2>2, ReportSteps
<1>2. TypeOK /\ [Next]_vars =>
        [\A r \in Reports : Filed(r) /\ ~ Open(r) => report'[r] = report[r]]_vars
  BY <1>1
<1> QED
  BY <1>2, TypeCorrect, PTL DEF Spec, DecisionIsFinal

-----------------------------------------------------------------------------
\* Only a report that was filed has led to a measure.
SanctionInv ==
    \A r \in Reports :
        /\ sanctions[r] <= 1
        /\ sanctions[r] = 1 => Filed(r) /\ report[r].status = "resolved"

\* One report leads to one measure at most, and a dismissed one to none: each
\* measure closes its report, and a closed one is not decided again
\* (apply_report_action, apply_catalog_action).
THEOREM SanctionsAreForOpenReports == Spec => []NoSanctionWithoutOpenReport
<1>1. Init => SanctionInv
  BY DEF Init, SanctionInv
<1>2. TypeOK /\ SanctionInv /\ [Next]_vars => SanctionInv'
  <2> SUFFICES ASSUME TypeOK, SanctionInv, [Next]_vars, NEW r \in Reports
               PROVE  /\ sanctions'[r] <= 1
                      /\ sanctions'[r] = 1 => Filed(r)' /\ report'[r].status = "resolved"
    BY DEF SanctionInv
  <2>0. /\ sanctions[r] \in Nat /\ sanctions[r] <= 1
        /\ sanctions[r] = 1 => Filed(r) /\ report[r].status = "resolved"
    BY DEF SanctionInv, TypeOK
  <2>1. CASE UNCHANGED <<report, sanctions>>
    BY <2>0, <2>1 DEF Filed
  <2>2. CASE (\E s \in Reports : FiledBy(s)) /\ UNCHANGED sanctions
    BY <2>0, <2>2 DEF FiledBy, Filed
  <2>3. ASSUME NEW S \in SUBSET Reports, NEW status \in {"resolved", "dismissed"},
               Decides(S, status), sanctions'[r] = sanctions[r]
        PROVE  /\ sanctions'[r] <= 1
               /\ sanctions'[r] = 1 => Filed(r)' /\ report'[r].status = "resolved"
    BY <2>0, <2>3, DecisionReports DEF Open, Filed
  <2>4. ASSUME NEW S \in SUBSET Reports, NEW s \in S, Decides(S, "resolved"), Sanction(s)
        PROVE  /\ sanctions'[r] <= 1
               /\ sanctions'[r] = 1 => Filed(r)' /\ report'[r].status = "resolved"
    <3>1. CASE r # s
      <4>1. sanctions'[r] = sanctions[r]
        BY <2>4, <3>1 DEF Sanction, TypeOK
      <4> QED
        BY <2>3, <2>4, <4>1
    <3>2. CASE r = s
      <4>1. Open(r) /\ report'[r] = [report[r] EXCEPT !.status = "resolved"]
        BY <2>4, <3>2, DecisionReports
      <4>2. sanctions[r] = 0
        BY <2>0, <4>1 DEF Open
      <4>3. sanctions'[r] = 1
        BY <2>4, <3>2, <4>2 DEF Sanction, TypeOK
      <4>4. [report[r] EXCEPT !.status = "resolved"] \in Report
        BY <4>1, FiledIsReport DEF Open, Report, ReportStatus
      <4>5. Filed(r)'
        BY <4>1, <4>4, NothingAssumption DEF Filed
      <4>6. report'[r].status = "resolved"
        BY <4>1, FiledIsReport DEF Open, Report
      <4> QED
        BY <4>3, <4>5, <4>6
    <3> QED
      BY <3>1, <3>2
  <2> QED
    BY <2>1, <2>2, <2>3, <2>4, ReportSteps
<1>3. SanctionInv => NoSanctionWithoutOpenReport
  BY DEF SanctionInv, NoSanctionWithoutOpenReport
<1> QED
  BY <1>1, <1>2, <1>3, TypeCorrect, PTL DEF Spec

-----------------------------------------------------------------------------
(***************************************************************************)
(* Items.                                                                  *)
(***************************************************************************)

\* What the public catalogue shows was approved after the supplier touched it
\* last: the status of a new item, and each later change of the supplier, is
\* none that publishes (create, set_status, delete).
THEOREM PublicIsReviewed == Spec => []PublicWasReviewed
<1>1. Init => PublicWasReviewed
  BY DEF Init, PublicWasReviewed, Public
<1>2. TypeOK /\ PublicWasReviewed /\ [Next]_vars => PublicWasReviewed'
  <2> SUFFICES ASSUME TypeOK, PublicWasReviewed, [Next]_vars,
                      NEW i \in Items, item'[i] = "active"
               PROVE  i \in reviewed'
    BY DEF PublicWasReviewed, Public
  <2>0. item[i] = "active" => i \in reviewed
    BY DEF PublicWasReviewed, Public
  <2>1. CASE UNCHANGED <<item, reviewed>>
    BY <2>0, <2>1
  <2>2. CASE SupplierStep
    BY <2>0, <2>2 DEF SupplierStep, CreateItem, SupplierStatus, Archive, DeleteItem, TypeOK
  <2>3. ASSUME NEW j \in Items, Approve(j) PROVE i \in reviewed'
    BY <2>0, <2>3 DEF Approve, TypeOK
  <2>4. ASSUME NEW j \in Items, Hide(j) \/ RequestChanges(j) PROVE i \in reviewed'
    BY <2>0, <2>4 DEF Hide, RequestChanges, TypeOK
  <2>5. ASSUME NEW j, NEW staff \in Staff, RemoveItem(staff, j) PROVE i \in reviewed'
    BY <2>0, <2>5 DEF RemoveItem, TypeOK
  <2>6. CASE ItemModerationStep
    BY <2>3, <2>4, <2>5, <2>6 DEF ItemModerationStep
  <2>7. CASE FilingStep
    BY <2>1, <2>7 DEF FilingStep, CheckReport, InsertReport, RefuseReport
  <2>8. CASE ReportModerationStep
    BY <2>1, <2>5, <2>8
    DEF ReportModerationStep, Dismiss, Warn, Suspend, DeleteReported, DeleteReportedObject
  <2>9. ASSUME UNCHANGED catalogue \/ \E staff \in Staff : Unblock(staff) PROVE i \in reviewed'
    BY <2>1, <2>9 DEF catalogue, Unblock
  <2>10. CatalogueStep \/ UNCHANGED catalogue
    BY DEF Next, vars
  <2> QED
    BY <2>2, <2>6, <2>7, <2>8, <2>9, <2>10 DEF CatalogueStep
<1> QED
  BY <1>1, <1>2, TypeCorrect, PTL DEF Spec

-----------------------------------------------------------------------------
(***************************************************************************)
(* Plans.                                                                  *)
(***************************************************************************)

\* No plan runs unbilled.
PlanInv ==
    /\ plan \in billed \cup {"none"}
    /\ SupplierCompaniesWithinPlans

\* The supplier route founded no more companies than the best plan that was
\* billed allows, however plans ran out and were cancelled in between
\* (check_company_limit, activate).
THEOREM CompaniesAreWithinPlans == Spec => []SupplierCompaniesWithinPlans
<1>1. Init => PlanInv
  <2> SUFFICES ASSUME Init PROVE CompanyLimits["none"] = Unlimited \/ 0 <= CompanyLimits["none"]
    BY DEF Init, SubscriptionInit, PlanInv, SupplierCompaniesWithinPlans
  <2>1. CompanyLimits["none"] \in Nat \cup {Unlimited}
    BY LimitsAssumption DEF Plans
  <2> QED
    BY <2>1
<1>2. TypeOK /\ PlanInv /\ [Next]_vars => PlanInv'
  <2> SUFFICES ASSUME TypeOK, PlanInv, [Next]_vars PROVE PlanInv'
    OBVIOUS
  <2> USE DEF PlanInv, SupplierCompaniesWithinPlans
  <2>1. CASE UNCHANGED subscription
    BY <2>1 DEF subscription
  <2>2. ASSUME NEW p \in Plans, Activate(p) PROVE PlanInv'
    <3>1. p \in billed' \cup {"none"} /\ billed \subseteq billed' /\ plan' = p /\ made' = made
      BY <2>2 DEF Activate, Ledger, Plans
    <3> QED
      BY <3>1
  <2>3. CASE Cancel \/ Lapse \/ FoundAsBuyer
    BY <2>3 DEF Cancel, Lapse, FoundAsBuyer
  <2>4. CASE FoundAsSupplier
    <3>1. EffectivePlan \in billed \cup {"none"} /\ EffectivePlan \in Plans
      BY DEF EffectivePlan, IsActive, TypeOK, SubscriptionTypeOK, Plans
    <3>2. CompanyLimits[EffectivePlan] \in Nat \cup {Unlimited}
      BY <3>1, LimitsAssumption
    <3>3. made \in Nat /\ bought \in Nat
      BY MaxCompaniesAssumption DEF TypeOK, SubscriptionTypeOK
    <3>4. CompanyLimits[EffectivePlan] = Unlimited \/ made + 1 <= CompanyLimits[EffectivePlan]
      BY <2>4, <3>2, <3>3 DEF FoundAsSupplier, CompanyLimitAllows, Below
    <3> QED
      BY <2>4, <3>1, <3>4 DEF FoundAsSupplier
  <2> QED
    BY <2>1, <2>2, <2>3, <2>4 DEF Next, SubscriptionStep, vars
<1>3. PlanInv => SupplierCompaniesWithinPlans
  BY DEF PlanInv
<1> QED
  BY <1>1, <1>2, <1>3, TypeCorrect, PTL DEF Spec

-----------------------------------------------------------------------------
(***************************************************************************)
(* How many rows the query returns before one.                             *)
(***************************************************************************)
Rank(r, view, stamp) == Cardinality(Before(r, view, stamp))

\* No two rows of a view are ordered by the same.
Ordered(view, stamp) ==
    /\ IsFiniteSet(view)
    /\ \A r \in view : stamp[r] \in Nat
    /\ \A r, s \in view : stamp[r] = stamp[s] => r = s

LEMMA RankType ==
    ASSUME NEW view, NEW stamp, NEW r, IsFiniteSet(view)
    PROVE  /\ IsFiniteSet(Before(r, view, stamp))
           /\ Rank(r, view, stamp) \in Nat
<1>1. Before(r, view, stamp) \subseteq view
  BY DEF Before
<1>2. IsFiniteSet(Before(r, view, stamp))
  BY <1>1, FS_Subset
<1> QED
  BY <1>2, FS_CardinalityType DEF Rank

\* A row that comes later in the list has the greater rank.
LEMMA RankRises ==
    ASSUME NEW view, NEW stamp, Ordered(view, stamp),
           NEW r \in view, NEW s \in view, stamp[r] < stamp[s]
    PROVE  Rank(s, view, stamp) < Rank(r, view, stamp)
<1> DEFINE A == Before(s, view, stamp)
           B == Before(r, view, stamp)
<1>1. IsFiniteSet(A) /\ Cardinality(A) \in Nat /\ IsFiniteSet(B) /\ Cardinality(B) \in Nat
  BY RankType DEF Ordered, Rank
<1>2. A \cup {s} \subseteq B /\ s \notin A
  BY DEF Before, Ordered
<1>3. Cardinality(A \cup {s}) = Cardinality(A) + 1
  BY <1>1, <1>2, FS_AddElement
<1>4. Cardinality(A \cup {s}) <= Cardinality(B)
  BY <1>1, <1>2, FS_Subset
<1> QED
  BY <1>1, <1>3, <1>4 DEF Rank

LEMMA RankDistinct ==
    ASSUME NEW view, NEW stamp, Ordered(view, stamp), NEW r \in view, NEW s \in view,
           Rank(r, view, stamp) = Rank(s, view, stamp)
    PROVE  r = s
<1>1. Rank(r, view, stamp) \in Nat
  BY RankType DEF Ordered
<1>2. stamp[r] \in Nat /\ stamp[s] \in Nat
  BY DEF Ordered
<1>3. ~ (stamp[r] < stamp[s]) /\ ~ (stamp[s] < stamp[r])
  BY <1>1, RankRises
<1> QED
  BY <1>2, <1>3 DEF Ordered

\* The ranks of the rows of a view run from 0 to the number of rows less one.
LEMMA RankBound ==
    ASSUME NEW view, NEW stamp, IsFiniteSet(view), Ordered(view, stamp), NEW r \in view
    PROVE  /\ Cardinality(view) \in Nat
           /\ Rank(r, view, stamp) \in 0 .. Cardinality(view) - 1
<1> DEFINE B == Before(r, view, stamp)
<1>1. B \subseteq view \ {r}
  BY DEF Before, Ordered
<1>2. /\ IsFiniteSet(view \ {r})
      /\ Cardinality(view \ {r}) = Cardinality(view) - 1
      /\ Cardinality(view) \in Nat
  BY FS_RemoveElement, FS_CardinalityType DEF Ordered
<1>3. Cardinality(B) <= Cardinality(view \ {r})
  BY <1>1, <1>2, FS_Subset
<1> QED
  BY <1>2, <1>3, RankType DEF Rank, Ordered

\* At most so many rows come at place k or later as the view has beyond k.
LEMMA RanksBeyond ==
    ASSUME NEW view, NEW stamp, Ordered(view, stamp), NEW k \in Nat
    PROVE  LET rest == {r \in view : Rank(r, view, stamp) >= k}
           IN  /\ IsFiniteSet(rest)
               /\ Cardinality(rest) \in Nat
               /\ Cardinality(view) \in Nat
               /\ Cardinality(rest) <=
                    IF Cardinality(view) > k THEN Cardinality(view) - k ELSE 0
<1> DEFINE rest == {r \in view : Rank(r, view, stamp) >= k}
           places == k .. Cardinality(view) - 1
           place == [r \in rest |-> Rank(r, view, stamp)]
<1>1. IsFiniteSet(view) /\ Cardinality(view) \in Nat
  BY FS_CardinalityType DEF Ordered
<1>2. \A r \in rest : Rank(r, view, stamp) \in places
  BY <1>1, RankBound
<1>3. place \in Injection(rest, places)
  <2>1. place \in [rest -> places]
    BY <1>2
  <2>2. ASSUME NEW r \in rest, NEW s \in rest, place[r] = place[s] PROVE r = s
    BY <2>2, RankDistinct
  <2> QED
    <3> HIDE DEF place, rest, places
    <3> QED
      BY <2>1, <2>2 DEF Injection, IsInjective
<1>4. /\ IsFiniteSet(places)
      /\ Cardinality(places) = IF k > Cardinality(view) - 1 THEN 0
                               ELSE Cardinality(view) - 1 - k + 1
  <2>1. Cardinality(view) - 1 \in Int
    BY <1>1
  <2> QED
    BY <2>1, FS_Interval
<1>5. IsFiniteSet(rest) /\ Cardinality(rest) <= Cardinality(places)
  BY <1>3, <1>4, FS_Injection
<1>6. Cardinality(rest) \in Nat
  BY <1>5, FS_CardinalityType
<1> HIDE DEF rest, places
<1>7. Cardinality(rest) <= IF Cardinality(view) > k THEN Cardinality(view) - k ELSE 0
  BY <1>1, <1>4, <1>5
<1> QED
  BY <1>1, <1>5, <1>6, <1>7 DEF rest

\* Each place of the view is taken by a row.
LEMMA RowAtPlace ==
    ASSUME NEW view, NEW stamp, Ordered(view, stamp), NEW k \in Nat, k < Cardinality(view)
    PROVE  \E r \in view : Rank(r, view, stamp) = k
<1> DEFINE places == 0 .. Cardinality(view) - 1
           place == [r \in view |-> Rank(r, view, stamp)]
<1>1. IsFiniteSet(view) /\ Cardinality(view) \in Nat
  BY FS_CardinalityType DEF Ordered
<1>2. place \in Injection(view, places)
  <2>1. place \in [view -> places]
    BY <1>1, RankBound
  <2>2. ASSUME NEW r \in view, NEW s \in view, place[r] = place[s] PROVE r = s
    BY <2>2, RankDistinct
  <2> QED
    <3> HIDE DEF place, places
    <3> QED
      BY <2>1, <2>2 DEF Injection, IsInjective
<1>3. IsFiniteSet(places) /\ Cardinality(places) = Cardinality(view)
  <2>1. Cardinality(view) - 1 \in Int
    BY <1>1
  <2>2. /\ IsFiniteSet(places)
        /\ Cardinality(places) = IF 0 > Cardinality(view) - 1 THEN 0
                                 ELSE Cardinality(view) - 1 - 0 + 1
    BY <2>1, FS_Interval
  <2> QED
    BY <1>1, <2>2
<1>4. place \in Surjection(view, places)
  BY <1>2, <1>3, FS_Injection
<1>5. k \in places
  BY <1>1
<1> QED
  BY <1>4, <1>5 DEF Surjection

\* So n places of the view in a row are taken by n rows at least.
LEMMA PlacesFilled ==
    ASSUME NEW view, NEW stamp, Ordered(view, stamp), NEW o \in Nat, NEW n \in Nat,
           o + n <= Cardinality(view),
           NEW S \in SUBSET view, \A r \in view : Rank(r, view, stamp) \in o .. o + n - 1 => r \in S
    PROVE  Cardinality(S) \in Nat /\ n <= Cardinality(S)
<1> DEFINE places == o .. o + n - 1
           rows == {r \in S : Rank(r, view, stamp) \in places}
           place == [r \in rows |-> Rank(r, view, stamp)]
<1>1. Cardinality(view) \in Nat /\ IsFiniteSet(S)
  BY FS_CardinalityType, FS_Subset DEF Ordered
<1>2. IsFiniteSet(rows) /\ Cardinality(rows) <= Cardinality(S)
  <2>1. rows \subseteq S
    OBVIOUS
  <2> HIDE DEF rows
  <2> QED
    BY <1>1, <2>1, FS_Subset
<1>3. place \in Surjection(rows, places)
  <2>1. place \in [rows -> places]
    OBVIOUS
  <2>2. ASSUME NEW k \in places PROVE \E r \in rows : place[r] = k
    <3>1. k \in Nat /\ k < Cardinality(view)
      BY <1>1
    <3>2. PICK r \in view : Rank(r, view, stamp) = k
      BY <3>1, RowAtPlace
    <3>3. r \in rows
      BY <3>2
    <3> QED
      BY <3>2, <3>3
  <2> HIDE DEF place, rows, places
  <2> QED
    BY <2>1, <2>2 DEF Surjection
<1>4. Cardinality(places) <= Cardinality(rows)
  <2> HIDE DEF place, rows, places
  <2> QED
    BY <1>2, <1>3, FS_Surjection
<1>5. Cardinality(places) = n
  <2>1. o + n - 1 \in Int
    OBVIOUS
  <2>2. Cardinality(places) = IF o > o + n - 1 THEN 0 ELSE o + n - 1 - o + 1
    BY <2>1, FS_Interval
  <2> HIDE DEF places
  <2> QED
    BY <2>2
<1>6. Cardinality(rows) \in Nat /\ Cardinality(S) \in Nat
  <2> HIDE DEF rows
  <2> QED
    BY <1>1, <1>2, FS_CardinalityType
<1> HIDE DEF rows, places
<1> QED
  BY <1>2, <1>4, <1>5, <1>6

-----------------------------------------------------------------------------
(***************************************************************************)
(* What a change of the view does to the ranks of the other rows.          *)
(***************************************************************************)

\* The rows of S that come before place k.
Ahead(S, k, view, stamp) == {r \in S : Rank(r, view, stamp) < k}

\* A new row brings no other one forward.
LEMMA AheadAfterArrival ==
    ASSUME NEW view, NEW stamp, Ordered(view, stamp),
           NEW x, NEW new, \A r \in view : new[r] = stamp[r],
           NEW S \in SUBSET view, NEW k \in Int
    PROVE  Ahead(S, k, view \cup {x}, new) \subseteq Ahead(S, k, view, stamp)
<1> SUFFICES ASSUME NEW r \in S
             PROVE  Rank(r, view \cup {x}, new) < k => Rank(r, view, stamp) < k
  BY DEF Ahead
<1> DEFINE old == Before(r, view, stamp)
           now == Before(r, view \cup {x}, new)
<1>1. IsFiniteSet(view \cup {x})
  BY FS_AddElement DEF Ordered
<1>2. /\ IsFiniteSet(now)
      /\ Rank(r, view, stamp) \in Nat
      /\ Rank(r, view \cup {x}, new) \in Nat
  BY <1>1, RankType DEF Ordered
<1>3. old \subseteq now
  BY DEF Before
<1>4. Cardinality(old) <= Cardinality(now)
  BY <1>2, <1>3, FS_Subset
<1> QED
  BY <1>2, <1>4 DEF Rank

\* Where a row goes one place down becomes free, so that one row comes forward
\* past k at most.
LEMMA AheadAfterLeave ==
    ASSUME NEW view, NEW stamp, Ordered(view, stamp),
           NEW x \in view, NEW new, \A r \in view \ {x} : new[r] = stamp[r],
           NEW S \in SUBSET view, NEW k \in Int
    PROVE  \E y : Ahead(S \ {x}, k, view \ {x}, new)
                    \subseteq Ahead(S, k, view, stamp) \cup {y}
<1> DEFINE at_k == {r \in view : Rank(r, view, stamp) = k}
<1>1. PICK y : at_k \subseteq {y}
  <2>1. CASE at_k = {}
    BY <2>1
  <2>2. CASE at_k # {}
    <3>1. PICK y \in at_k : TRUE
      BY <2>2
    <3>2. \A r \in at_k : r = y
      BY <3>1, RankDistinct
    <3> QED
      BY <3>2
  <2> QED
    BY <2>1, <2>2
<1>2. ASSUME NEW r \in S \ {x}, Rank(r, view \ {x}, new) < k
      PROVE  Rank(r, view, stamp) <= k /\ Rank(r, view, stamp) \in Nat
  <2> DEFINE old == Before(r, view, stamp)
             now == Before(r, view \ {x}, new)
  <2>1. IsFiniteSet(view \ {x})
    BY FS_RemoveElement DEF Ordered
  <2>2. /\ IsFiniteSet(now) /\ Cardinality(now) \in Nat
        /\ IsFiniteSet(old) /\ Cardinality(old) \in Nat
    BY <2>1, RankType DEF Rank, Ordered
  <2>3. old \subseteq now \cup {x}
    BY DEF Before
  <2>4. /\ IsFiniteSet(now \cup {x})
        /\ Cardinality(now \cup {x}) \in Nat
        /\ Cardinality(now \cup {x}) <= Cardinality(now) + 1
    <3>1. /\ IsFiniteSet(now \cup {x})
          /\ Cardinality(now \cup {x}) = IF x \in now THEN Cardinality(now)
                                         ELSE Cardinality(now) + 1
      BY <2>2, FS_AddElement
    <3> HIDE DEF now
    <3> QED
      BY <2>2, <3>1
  <2>5. Cardinality(old) <= Cardinality(now \cup {x})
    BY <2>3, <2>4, FS_Subset
  <2>6. Cardinality(now) < k
    BY <1>2 DEF Rank
  <2>7. Cardinality(old) <= k
    <3> HIDE DEF old, now
    <3> QED
      BY <2>2, <2>4, <2>5, <2>6
  <2> QED
    BY <2>2, <2>7 DEF Rank
<1>3. ASSUME NEW r \in S \ {x}, Rank(r, view \ {x}, new) < k, r # y
      PROVE  Rank(r, view, stamp) < k
  BY <1>1, <1>2, <1>3
<1>4. Ahead(S \ {x}, k, view \ {x}, new) \subseteq Ahead(S, k, view, stamp) \cup {y}
  BY <1>3 DEF Ahead
<1> QED
  BY <1>4

\* A row that goes to the front brings no other one forward.
LEMMA AheadAfterTouch ==
    ASSUME NEW view, NEW stamp, Ordered(view, stamp),
           NEW x \in view, NEW new, \A r \in view \ {x} : new[r] = stamp[r],
           \A r \in view \ {x} : stamp[r] < new[x],
           NEW S \in SUBSET view, NEW k \in Int
    PROVE  Ahead(S, k, view, new) \subseteq Ahead(S, k, view, stamp) \cup {x}
<1> SUFFICES ASSUME NEW r \in S \ {x}
             PROVE  Rank(r, view, new) < k => Rank(r, view, stamp) < k
  BY DEF Ahead
<1> DEFINE old == Before(r, view, stamp)
           now == Before(r, view, new)
<1>1. /\ IsFiniteSet(now)
      /\ Rank(r, view, stamp) \in Nat
      /\ Rank(r, view, new) \in Nat
  BY RankType DEF Ordered
<1>2. old \subseteq now
  BY DEF Before
<1>3. Cardinality(old) <= Cardinality(now)
  BY <1>1, <1>2, FS_Subset
<1> QED
  BY <1>1, <1>3 DEF Rank

-----------------------------------------------------------------------------
(***************************************************************************)
(* Pages.                                                                  *)
(***************************************************************************)

\* The last page ends with the last row, and does not begin after it.
LEMMA PagesCover ==
    ASSUME NEW count \in Nat
    PROVE  /\ Pages(count) \in Nat \ {0}
           /\ Pages(count) * PageSize >= count
           /\ 0 < count => (Pages(count) - 1) * PageSize < count
BY ListsAssumption DEF Pages

LEMMA OffsetMonotone ==
    ASSUME NEW p \in Nat, NEW q \in Nat, p <= q
    PROVE  Offset(p) \in Int /\ Offset(q) \in Int /\ Offset(p) <= Offset(q)
BY ListsAssumption DEF Offset

LEMMA OffsetNext ==
    ASSUME NEW p \in Nat
    PROVE  Offset(p + 1) = Offset(p) + PageSize /\ Offset(p + 1) = p * PageSize
<1>1. p + 1 - 1 = p
  OBVIOUS
<1>2. PageSize \in Nat
  BY ListsAssumption
<1>3. p * PageSize = (p - 1) * PageSize + PageSize
  BY <1>2
<1> QED
  BY <1>1, <1>3 DEF Offset

-----------------------------------------------------------------------------
(***************************************************************************)
(* Type correctness of the walk.                                           *)
(***************************************************************************)
LEMMA StampedType ==
    ASSUME WalkTypeOK, NEW r \in Rows, Stamped(r), changes' = changes + 1
    PROVE  /\ at' \in [Rows -> 0 .. MaxRows + changes']
           /\ \A s \in Rows \ {r} : at'[s] = at[s]
           /\ at'[r] = MaxRows + changes + 1
BY ListsAssumption DEF WalkTypeOK, Stamped

LEMMA UnchangedType ==
    ASSUME WalkTypeOK, UNCHANGED at, changes' = changes + 1
    PROVE  at' \in [Rows -> 0 .. MaxRows + changes']
BY ListsAssumption DEF WalkTypeOK

LEMMA FilteredType ==
    ASSUME WalkTypeOK, NEW r \in Rows, Filtered(r), changes' = changes + 1
    PROVE  /\ at' \in [Rows -> 0 .. MaxRows + changes']
           /\ \A s \in Rows \ {r} : at'[s] = at[s]
           /\ at[r] > 0 => at'[r] > 0
<1>1. CASE Stamped(r)
  BY <1>1, StampedType, ListsAssumption DEF WalkTypeOK
<1>2. CASE UNCHANGED at
  BY <1>2, UnchangedType
<1> QED
  BY <1>1, <1>2 DEF Filtered, Reordered

LEMMA ChangeType ==
    ASSUME WalkTypeOK, NEW disturbs \in BOOLEAN, Change(disturbs),
           at' \in [Rows -> 0 .. MaxRows + changes'],
           stayed' \subseteq shown', shown' \subseteq Present'
    PROVE  WalkTypeOK'
<1>1. moved' \in 0 .. changes' /\ changes' \in 0 .. MaxChanges
  BY ListsAssumption DEF WalkTypeOK, Change
<1> QED
  BY <1>1 DEF WalkTypeOK, Change

LEMMA WalkTypeInitial ==
    ASSUME WalkInit
    PROVE  WalkTypeOK
BY ListsAssumption DEF WalkInit, WalkTypeOK, None, Present, Rows

LEMMA WalkTypeStep ==
    ASSUME WalkTypeOK, [WalkNext]_walkVars
    PROVE  WalkTypeOK'
<1>1. CASE Count
  <2>1. IsFiniteSet(Rows)
    BY FS_Interval, ListsAssumption DEF Rows
  <2>2. IsFiniteSet(shown)
    BY <2>1, FS_Subset DEF WalkTypeOK, Present
  <2>3. total' \in Nat
    BY <1>1, <2>2, FS_CardinalityType DEF Count
  <2>4. Pages(total') \in Nat
    BY <2>3, PagesCover
  <2>5. page' \in Nat
    BY <1>1, <2>4 DEF Count, Least, WalkTypeOK
  <2> QED
    BY <1>1, <2>3, <2>5 DEF Count, WalkTypeOK, listed, Present
<1>2. CASE Select
  <2>1. last' \subseteq seen' /\ seen' \subseteq Rows /\ page' \in Nat
    BY <1>2 DEF Select, PageOf, WalkTypeOK, Present
  <2> QED
    BY <1>2, <2>1 DEF Select, WalkTypeOK, listed, Present
<1>3. ASSUME NEW r \in Rows, NEW visible \in BOOLEAN, Insert(r, visible)
      PROVE  WalkTypeOK'
  <2>1. changes' = changes + 1
    BY <1>3 DEF Insert, Change
  <2>2. /\ at' \in [Rows -> 0 .. MaxRows + changes']
        /\ \A s \in Rows \ {r} : at'[s] = at[s]
        /\ at'[r] > 0
    BY <1>3, <2>1, StampedType, ListsAssumption DEF Insert, WalkTypeOK
  <2>3. stayed' \subseteq shown' /\ shown' \subseteq Present'
    BY <1>3, <2>2 DEF Insert, WalkTypeOK, Present
  <2>4. (visible /\ Counted) \in BOOLEAN /\ Change(visible /\ Counted)
    BY <1>3 DEF Insert
  <2> QED
    BY <2>2, <2>3, <2>4, ChangeType
<1>4. ASSUME NEW r \in Rows, Enter(r) PROVE WalkTypeOK'
  <2>1. changes' = changes + 1
    BY <1>4 DEF Enter, Change
  <2>2. /\ at' \in [Rows -> 0 .. MaxRows + changes']
        /\ \A s \in Rows \ {r} : at'[s] = at[s]
        /\ at[r] > 0 => at'[r] > 0
    BY <1>4, <2>1, FilteredType DEF Enter
  <2>3. stayed' \subseteq shown' /\ shown' \subseteq Present'
    BY <1>4, <2>2 DEF Enter, WalkTypeOK, Present
  <2>4. Counted \in BOOLEAN /\ Change(Counted)
    BY <1>4 DEF Enter, Counted
  <2> QED
    BY <2>2, <2>3, <2>4, ChangeType
<1>5. ASSUME NEW r \in Rows, Leave(r) PROVE WalkTypeOK'
  <2>1. changes' = changes + 1
    BY <1>5 DEF Leave, Change
  <2>2. /\ at' \in [Rows -> 0 .. MaxRows + changes']
        /\ \A s \in Rows \ {r} : at'[s] = at[s]
        /\ at[r] > 0 => at'[r] > 0
    BY <1>5, <2>1, FilteredType DEF Leave
  <2>3. stayed' \subseteq shown' /\ shown' \subseteq Present'
    BY <1>5, <2>2 DEF Leave, WalkTypeOK, Present
  <2>4. Change(TRUE)
    BY <1>5 DEF Leave
  <2> QED
    BY <2>2, <2>3, <2>4, ChangeType
<1>6. ASSUME NEW r \in Rows, Touch(r) PROVE WalkTypeOK'
  <2>1. changes' = changes + 1
    BY <1>6 DEF Touch, Change
  <2>2. /\ at' \in [Rows -> 0 .. MaxRows + changes']
        /\ \A s \in Rows \ {r} : at'[s] = at[s]
        /\ at[r] > 0 => at'[r] > 0
    BY <1>6, <2>1, FilteredType DEF Touch, Filtered
  <2>3. stayed' \subseteq shown' /\ shown' \subseteq Present'
    BY <1>6, <2>2 DEF Touch, WalkTypeOK, Present
  <2>4. Change(TRUE)
    BY <1>6 DEF Touch
  <2> QED
    BY <2>2, <2>3, <2>4, ChangeType
<1>7. CASE UNCHANGED walkVars
  BY <1>7 DEF WalkTypeOK, walkVars, listed, Present
<1> QED
  BY <1>1, <1>2, <1>3, <1>4, <1>5, <1>6, <1>7 DEF WalkNext

\* A walk through a list shows rows of the view only, of rows that exist, and
\* its counters keep to their bounds (the list handlers of AdminService).
THEOREM WalkTypeCorrect == WalkSpec => []WalkTypeOK
<1>1. WalkInit => WalkTypeOK
  BY WalkTypeInitial
<1>2. WalkTypeOK /\ [WalkNext]_walkVars => WalkTypeOK'
  BY WalkTypeStep
<1> QED
  BY <1>1, <1>2, PTL DEF WalkSpec

-----------------------------------------------------------------------------
(***************************************************************************)
(* The inductive invariant: the rows the walk has left behind without      *)
(* showing them, and those the view has beyond the count of the request,   *)
(* are no more than the changes that can have put them there.              *)
(***************************************************************************)
StampsDiffer == \A r, s \in Present : at[r] = at[s] => r = s

Missed == stayed \ seen
Passed == Ahead(Missed, Offset(page), shown, at)
Grown == IF Counted /\ Cardinality(shown) > total THEN Cardinality(shown) - total ELSE 0

PassesOnlyMoved == page > 0 => Cardinality(Passed) + Grown <= moved
EndMissesOnlyMoved == page = 0 => ~ Counted /\ Cardinality(Missed) <= moved
ClampedInRange == Counted /\ list.clamps => page <= Pages(total)

WalkInv ==
    /\ WalkTypeOK
    /\ StampsDiffer
    /\ PassesOnlyMoved
    /\ EndMissesOnlyMoved
    /\ ClampedInRange

LEMMA ViewFinite ==
    ASSUME WalkTypeOK
    PROVE  /\ IsFiniteSet(shown) /\ Cardinality(shown) \in Nat
           /\ IsFiniteSet(stayed) /\ IsFiniteSet(Missed) /\ Cardinality(Missed) \in Nat
           /\ Missed \subseteq shown
           /\ Offset(page) \in Int
<1>1. IsFiniteSet(Rows)
  BY FS_Interval, ListsAssumption DEF Rows
<1>2. shown \subseteq Rows /\ stayed \subseteq shown /\ Missed \subseteq shown
  BY DEF WalkTypeOK, Present, Missed
<1>3. IsFiniteSet(shown) /\ IsFiniteSet(stayed) /\ IsFiniteSet(Missed)
  BY <1>1, <1>2, FS_Subset
<1>4. Offset(page) \in Int
  BY OffsetMonotone DEF WalkTypeOK
<1> QED
  BY <1>2, <1>3, <1>4, FS_CardinalityType

LEMMA ViewOrdered ==
    ASSUME WalkTypeOK, StampsDiffer
    PROVE  Ordered(shown, at)
<1>1. IsFiniteSet(shown)
  BY ViewFinite
<1>2. \A r \in shown : r \in Present /\ at[r] \in Nat
  BY ListsAssumption DEF WalkTypeOK, Present
<1> QED
  BY <1>1, <1>2 DEF Ordered, StampsDiffer

LEMMA PassedFinite ==
    ASSUME WalkTypeOK
    PROVE  /\ Passed \subseteq Missed
           /\ IsFiniteSet(Passed) /\ Cardinality(Passed) \in Nat
<1>1. Passed \subseteq Missed
  BY DEF Passed, Ahead
<1> QED
  BY <1>1, ViewFinite, FS_Subset, FS_CardinalityType

LEMMA GrownType ==
    ASSUME WalkTypeOK
    PROVE  Grown \in Nat
<1>1. Cardinality(shown) \in Nat
  BY ViewFinite
<1>2. Counted => total \in Nat
  BY DEF WalkTypeOK, Counted
<1> QED
  BY <1>1, <1>2 DEF Grown

LEMMA CountsType == WalkTypeOK => Cardinality(Passed) \in Nat /\ Grown \in Nat
BY PassedFinite, GrownType

\* One element more is one more at most.
LEMMA OneMore ==
    ASSUME NEW S, IsFiniteSet(S), NEW T, NEW y, T \subseteq S \cup {y}
    PROVE  /\ Cardinality(S) \in Nat /\ Cardinality(T) \in Nat
           /\ Cardinality(T) <= Cardinality(S) + 1
<1>1. /\ IsFiniteSet(S \cup {y})
      /\ Cardinality(S \cup {y}) = IF y \in S THEN Cardinality(S) ELSE Cardinality(S) + 1
  BY FS_AddElement
<1>2. IsFiniteSet(T) /\ Cardinality(T) <= Cardinality(S \cup {y})
  BY <1>1, FS_Subset
<1>3. Cardinality(S) \in Nat /\ Cardinality(T) \in Nat
  BY <1>2, FS_CardinalityType
<1> QED
  BY <1>1, <1>2, <1>3

-----------------------------------------------------------------------------
\* A new or changed row is later than every other.
LEMMA StampedDiffer ==
    ASSUME WalkTypeOK, StampsDiffer, NEW r \in Rows, Stamped(r), changes' = changes + 1
    PROVE  /\ StampsDiffer'
           /\ \A s \in shown \ {r} : at[s] < at'[r]
<1>1. /\ \A s \in Rows \ {r} : at'[s] = at[s]
      /\ at'[r] = MaxRows + changes + 1
  BY StampedType
<1>2. MaxRows \in Nat /\ changes \in Nat
  BY ListsAssumption DEF WalkTypeOK
<1>3. \A s \in Rows : at[s] \in Nat /\ at[s] <= MaxRows + changes
  BY <1>2 DEF WalkTypeOK
<1>4. \A s \in Rows \ {r} : at[s] < at'[r]
  BY <1>1, <1>2, <1>3
<1>5. \A s \in Rows \ {r} : at'[s] # at'[r]
  BY <1>1, <1>2, <1>3
<1>6. StampsDiffer'
  BY <1>1, <1>5 DEF StampsDiffer, Present
<1>7. shown \subseteq Rows
  BY DEF WalkTypeOK, Present
<1> QED
  BY <1>4, <1>6, <1>7

LEMMA FilteredDiffer ==
    ASSUME WalkTypeOK, StampsDiffer, NEW r \in Rows, Filtered(r), changes' = changes + 1
    PROVE  StampsDiffer'
<1>1. CASE Stamped(r)
  BY <1>1, StampedDiffer
<1>2. CASE UNCHANGED at
  BY <1>2 DEF StampsDiffer, Present
<1> QED
  BY <1>1, <1>2 DEF Filtered, Reordered

\* What a change must show: it puts no more rows behind the walk, or beyond the
\* count, than it is charged for.
LEMMA ChangeKeeps ==
    ASSUME WalkInv, WalkTypeOK', StampsDiffer',
           NEW disturbs \in BOOLEAN, Change(disturbs),
           Cardinality(Passed') + Grown'
             <= Cardinality(Passed) + Grown + IF disturbs THEN 1 ELSE 0
    PROVE  WalkInv'
<1>1. page # 0 /\ UNCHANGED <<list, page, total>>
  BY DEF Change
<1>2. page > 0
  BY <1>1 DEF WalkInv, WalkTypeOK
<1>3. moved' = moved + IF disturbs THEN 1 ELSE 0
  BY DEF Change
<1>4. /\ Cardinality(Passed) \in Nat /\ Cardinality(Passed') \in Nat
      /\ Grown \in Nat /\ Grown' \in Nat /\ moved \in Nat
  <2>1. Cardinality(Passed) \in Nat /\ Grown \in Nat /\ moved \in Nat
    BY PassedFinite, GrownType DEF WalkInv, WalkTypeOK
  <2>2. (Cardinality(Passed) \in Nat /\ Grown \in Nat)'
    BY CountsType, PTL
  <2> QED
    BY <2>1, <2>2
<1>5. Cardinality(Passed) + Grown <= moved
  BY <1>2 DEF WalkInv, PassesOnlyMoved
<1>6. Cardinality(Passed') + Grown' <= moved'
  BY <1>3, <1>4, <1>5
<1>7. PassesOnlyMoved'
  BY <1>6 DEF PassesOnlyMoved
<1>8. EndMissesOnlyMoved'
  BY <1>1 DEF EndMissesOnlyMoved
<1>9. ClampedInRange'
  BY <1>1 DEF WalkInv, ClampedInRange, Counted
<1> QED
  BY <1>7, <1>8, <1>9 DEF WalkInv

LEMMA GrownByOne ==
    ASSUME WalkTypeOK, UNCHANGED total,
           Cardinality(shown') \in Nat, Cardinality(shown') <= Cardinality(shown) + 1
    PROVE  Grown \in Nat /\ Grown' \in Nat /\ Grown' <= Grown + IF Counted THEN 1 ELSE 0
<1>1. Cardinality(shown) \in Nat
  BY ViewFinite
<1>2. Counted => total \in Nat
  BY DEF WalkTypeOK, Counted
<1>3. Counted' = Counted /\ Counted \in BOOLEAN
  BY DEF Counted
<1> QED
  BY <1>1, <1>2, <1>3 DEF Grown

LEMMA GrownByNone ==
    ASSUME WalkTypeOK, UNCHANGED total,
           Cardinality(shown') \in Nat, Cardinality(shown') <= Cardinality(shown)
    PROVE  Grown \in Nat /\ Grown' \in Nat /\ Grown' <= Grown
<1>1. Cardinality(shown) \in Nat
  BY ViewFinite
<1>2. Counted => total \in Nat
  BY DEF WalkTypeOK, Counted
<1>3. Counted' = Counted /\ Counted \in BOOLEAN
  BY DEF Counted
<1> QED
  BY <1>1, <1>2, <1>3 DEF Grown

LEMMA PassedByNone ==
    ASSUME WalkTypeOK, Passed' \subseteq Passed
    PROVE  /\ Cardinality(Passed) \in Nat /\ Cardinality(Passed') \in Nat
           /\ Cardinality(Passed') <= Cardinality(Passed)
<1>1. IsFiniteSet(Passed)
  BY PassedFinite
<1>2. IsFiniteSet(Passed') /\ Cardinality(Passed') <= Cardinality(Passed)
  BY <1>1, FS_Subset
<1> QED
  BY <1>1, <1>2, FS_CardinalityType

LEMMA PassedByOne ==
    ASSUME WalkTypeOK, NEW y, Passed' \subseteq Passed \cup {y}
    PROVE  /\ Cardinality(Passed) \in Nat /\ Cardinality(Passed') \in Nat
           /\ Cardinality(Passed') <= Cardinality(Passed) + 1
<1>1. IsFiniteSet(Passed)
  BY PassedFinite
<1> QED
  BY <1>1, OneMore

LEMMA AheadSame ==
    ASSUME NEW view, NEW stamp, NEW new, \A r \in view : new[r] = stamp[r],
           NEW S \in SUBSET view, NEW k
    PROVE  Ahead(S, k, view, new) = Ahead(S, k, view, stamp)
<1>1. \A r \in S : Before(r, view, new) = Before(r, view, stamp)
  BY DEF Before
<1> QED
  BY <1>1 DEF Ahead, Rank

-----------------------------------------------------------------------------
(***************************************************************************)
(* Every change keeps the invariant.                                       *)
(***************************************************************************)

\* A row that enters the view, new or not, with or without a new place.
LEMMA ArrivalKeeps ==
    ASSUME WalkInv, WalkTypeOK', StampsDiffer',
           NEW r, shown' = shown \cup {r}, \A s \in shown : at'[s] = at[s],
           UNCHANGED stayed, Change(Counted)
    PROVE  WalkInv'
<1>1. /\ WalkTypeOK /\ Ordered(shown, at)
      /\ Missed \subseteq shown /\ Offset(page) \in Int /\ IsFiniteSet(shown)
  BY ViewFinite, ViewOrdered DEF WalkInv
<1>2. UNCHANGED <<seen, page, total>>
  BY DEF Change
<1>3. Missed' = Missed /\ Offset(page)' = Offset(page)
  BY <1>2 DEF Missed, Offset
<1>4. Ahead(Missed, Offset(page), shown \cup {r}, at')
        \subseteq Ahead(Missed, Offset(page), shown, at)
  BY <1>1, AheadAfterArrival
<1>5. Passed' \subseteq Passed
  BY <1>3, <1>4 DEF Passed
<1>6. /\ Cardinality(Passed) \in Nat /\ Cardinality(Passed') \in Nat
      /\ Cardinality(Passed') <= Cardinality(Passed)
  BY <1>1, <1>5, PassedByNone
<1>7. Cardinality(shown') \in Nat /\ Cardinality(shown') <= Cardinality(shown) + 1
  BY <1>1, OneMore
<1>8. Grown \in Nat /\ Grown' \in Nat /\ Grown' <= Grown + IF Counted THEN 1 ELSE 0
  BY <1>1, <1>2, <1>7, GrownByOne
<1>9. Cardinality(Passed') + Grown'
        <= Cardinality(Passed) + Grown + IF Counted THEN 1 ELSE 0
  BY <1>6, <1>8
<1>10. Counted \in BOOLEAN
  BY DEF Counted
<1> QED
  BY <1>9, <1>10, ChangeKeeps

LEMMA InsertKeeps ==
    ASSUME WalkInv, WalkTypeOK', NEW r \in Rows, NEW visible \in BOOLEAN, Insert(r, visible)
    PROVE  WalkInv'
<1>1. changes' = changes + 1 /\ Stamped(r) /\ UNCHANGED stayed
  BY DEF Insert, Change
<1>2. StampsDiffer'
  BY <1>1, StampedDiffer DEF WalkInv
<1>3. r \notin shown /\ shown \subseteq Rows
  BY DEF Insert, WalkInv, WalkTypeOK, Present
<1>4. \A s \in shown : at'[s] = at[s]
  BY <1>1, <1>3, StampedType DEF WalkInv
<1>5. CASE visible
  <2>1. shown' = shown \cup {r} /\ Change(visible /\ Counted)
    BY <1>5 DEF Insert
  <2>2. (visible /\ Counted) = Counted
    BY <1>5 DEF Counted
  <2>3. Change(Counted)
    BY <2>1, <2>2
  <2> QED
    BY <1>1, <1>2, <1>4, <2>1, <2>3, ArrivalKeeps
<1>6. CASE ~ visible
  <2>1. shown' = shown /\ UNCHANGED <<seen, page, total>>
    BY <1>6 DEF Insert, Change
  <2>2. /\ WalkTypeOK /\ Missed \subseteq shown /\ IsFiniteSet(shown)
        /\ Cardinality(shown) \in Nat
    BY ViewFinite DEF WalkInv
  <2>3. Missed' = Missed /\ Offset(page)' = Offset(page)
    BY <1>1, <2>1 DEF Missed, Offset
  <2>4. Ahead(Missed, Offset(page), shown, at') = Ahead(Missed, Offset(page), shown, at)
    BY <1>4, <2>2, AheadSame
  <2>5. Passed' = Passed
    BY <2>1, <2>3, <2>4 DEF Passed
  <2>6. Grown' = Grown
    BY <2>1 DEF Grown, Counted
  <2>7. Cardinality(Passed) \in Nat /\ Grown \in Nat
    BY CountsType DEF WalkInv
  <2>8. Change(FALSE)
    <3>1. (visible /\ Counted) = FALSE
      BY <1>6
    <3>2. Change(visible /\ Counted)
      BY DEF Insert
    <3> QED
      BY <3>1, <3>2
  <2>9. Cardinality(Passed') + Grown'
          <= Cardinality(Passed) + Grown + IF FALSE THEN 1 ELSE 0
    BY <2>5, <2>6, <2>7
  <2> QED
    BY <1>2, <2>8, <2>9, ChangeKeeps
<1> QED
  BY <1>5, <1>6

LEMMA EnterKeeps ==
    ASSUME WalkInv, WalkTypeOK', NEW r \in Rows, Enter(r)
    PROVE  WalkInv'
<1>1. /\ changes' = changes + 1 /\ Filtered(r) /\ UNCHANGED stayed
      /\ shown' = shown \cup {r} /\ Change(Counted) /\ r \notin shown
  BY DEF Enter, Change
<1>2. StampsDiffer'
  BY <1>1, FilteredDiffer DEF WalkInv
<1>3. shown \subseteq Rows
  BY DEF WalkInv, WalkTypeOK, Present
<1>4. \A s \in shown : at'[s] = at[s]
  BY <1>1, <1>3, FilteredType DEF WalkInv
<1> QED
  BY <1>1, <1>2, <1>4, ArrivalKeeps

LEMMA LeaveKeeps ==
    ASSUME WalkInv, WalkTypeOK', NEW r \in Rows, Leave(r)
    PROVE  WalkInv'
<1>1. /\ changes' = changes + 1 /\ Filtered(r) /\ r \in shown
      /\ shown' = shown \ {r} /\ stayed' = stayed \ {r} /\ Change(TRUE)
      /\ UNCHANGED <<seen, page, total>>
  BY DEF Leave, Change
<1>2. StampsDiffer'
  BY <1>1, FilteredDiffer DEF WalkInv
<1>3. /\ WalkTypeOK /\ Ordered(shown, at) /\ shown \subseteq Rows
      /\ Missed \subseteq shown /\ Offset(page) \in Int
      /\ IsFiniteSet(shown) /\ Cardinality(shown) \in Nat
  BY ViewFinite, ViewOrdered DEF WalkInv, WalkTypeOK, Present
<1>4. \A s \in shown \ {r} : at'[s] = at[s]
  BY <1>1, <1>3, FilteredType
<1>5. Missed' = Missed \ {r} /\ Offset(page)' = Offset(page)
  BY <1>1 DEF Missed, Offset
<1>6. PICK y : Ahead(Missed \ {r}, Offset(page), shown \ {r}, at')
                 \subseteq Ahead(Missed, Offset(page), shown, at) \cup {y}
  BY <1>1, <1>3, <1>4, AheadAfterLeave
<1>7. Passed' \subseteq Passed \cup {y}
  BY <1>1, <1>5, <1>6 DEF Passed
<1>8. /\ Cardinality(Passed) \in Nat /\ Cardinality(Passed') \in Nat
      /\ Cardinality(Passed') <= Cardinality(Passed) + 1
  BY <1>3, <1>7, PassedByOne
<1>9. Cardinality(shown') \in Nat /\ Cardinality(shown') <= Cardinality(shown)
  BY <1>1, <1>3, FS_Subset, FS_CardinalityType
<1>10. Grown \in Nat /\ Grown' \in Nat /\ Grown' <= Grown
  BY <1>1, <1>3, <1>9, GrownByNone
<1>11. Cardinality(Passed') + Grown'
         <= Cardinality(Passed) + Grown + IF TRUE THEN 1 ELSE 0
  BY <1>8, <1>10
<1> QED
  BY <1>1, <1>2, <1>11, ChangeKeeps

LEMMA TouchKeeps ==
    ASSUME WalkInv, WalkTypeOK', NEW r \in Rows, Touch(r)
    PROVE  WalkInv'
<1>1. /\ changes' = changes + 1 /\ Stamped(r) /\ r \in shown
      /\ UNCHANGED <<shown, stayed, seen, page, total>> /\ Change(TRUE)
  BY DEF Touch, Reordered, Change
<1>2. StampsDiffer' /\ \A s \in shown \ {r} : at[s] < at'[r]
  BY <1>1, StampedDiffer DEF WalkInv
<1>3. /\ WalkTypeOK /\ Ordered(shown, at) /\ shown \subseteq Rows
      /\ Missed \subseteq shown /\ Offset(page) \in Int
      /\ IsFiniteSet(shown) /\ Cardinality(shown) \in Nat
  BY ViewFinite, ViewOrdered DEF WalkInv, WalkTypeOK, Present
<1>4. \A s \in shown \ {r} : at'[s] = at[s]
  BY <1>1, <1>3, StampedType
<1>5. Missed' = Missed /\ Offset(page)' = Offset(page)
  BY <1>1 DEF Missed, Offset
<1>6. Ahead(Missed, Offset(page), shown, at')
        \subseteq Ahead(Missed, Offset(page), shown, at) \cup {r}
  BY <1>1, <1>2, <1>3, <1>4, AheadAfterTouch
<1>7. Passed' \subseteq Passed \cup {r}
  BY <1>1, <1>5, <1>6 DEF Passed
<1>8. /\ Cardinality(Passed) \in Nat /\ Cardinality(Passed') \in Nat
      /\ Cardinality(Passed') <= Cardinality(Passed) + 1
  BY <1>3, <1>7, PassedByOne
<1>9. Grown' = Grown /\ Grown \in Nat
  BY <1>1, <1>3, GrownType DEF Grown, Counted
<1>10. Cardinality(Passed') + Grown'
         <= Cardinality(Passed) + Grown + IF TRUE THEN 1 ELSE 0
  BY <1>8, <1>9
<1> QED
  BY <1>1, <1>2, <1>10, ChangeKeeps

-----------------------------------------------------------------------------
(***************************************************************************)
(* A request of the walk keeps the invariant.                              *)
(***************************************************************************)

\* Counting shows no row and passes none; a page past the end is drawn back.
LEMMA CountKeeps ==
    ASSUME WalkInv, WalkTypeOK', Count
    PROVE  WalkInv'
<1>1. /\ WalkTypeOK /\ page \in Nat /\ page > 0 /\ ~ Counted
      /\ UNCHANGED <<list, at, shown, stayed, seen, moved, changes>>
      /\ total' = Cardinality(shown) /\ Cardinality(shown) \in Nat
  BY ViewFinite DEF Count, WalkInv, WalkTypeOK, listed
<1>2. Pages(total') \in Nat \ {0}
  BY <1>1, PagesCover
<1>3. page' \in Nat /\ 0 < page' /\ page' <= page
  BY <1>1, <1>2 DEF Count, Least
<1>4. Passed' \subseteq Passed
  <2>1. Offset(page') <= Offset(page) /\ Offset(page') \in Int /\ Offset(page) \in Int
    BY <1>1, <1>3, OffsetMonotone
  <2>2. \A r \in Missed : Rank(r, shown, at) \in Nat
    BY <1>1, ViewFinite, RankType
  <2>3. Missed' = Missed /\ Offset(page)' = Offset(page')
    BY <1>1 DEF Missed, Offset
  <2>4. Ahead(Missed, Offset(page'), shown, at) \subseteq Passed
    BY <2>1, <2>2 DEF Ahead, Passed
  <2>5. Passed' = Ahead(Missed, Offset(page'), shown, at)
    BY <1>1, <2>3 DEF Passed
  <2> QED
    BY <2>4, <2>5
<1>5. /\ Cardinality(Passed) \in Nat /\ Cardinality(Passed') \in Nat
      /\ Cardinality(Passed') <= Cardinality(Passed)
  BY <1>1, <1>4, PassedByNone
<1>6. Grown' = 0 /\ Grown = 0
  BY <1>1 DEF Grown
<1>7. moved \in Nat /\ moved' = moved /\ Cardinality(Passed) + Grown <= moved
  BY <1>1 DEF WalkInv, PassesOnlyMoved, WalkTypeOK
<1>8. PassesOnlyMoved'
  BY <1>5, <1>6, <1>7 DEF PassesOnlyMoved
<1>9. EndMissesOnlyMoved'
  BY <1>3 DEF EndMissesOnlyMoved
<1>10. ClampedInRange'
  BY <1>1, <1>2 DEF ClampedInRange, Count, Least
<1>11. StampsDiffer'
  BY <1>1 DEF StampsDiffer, Present, WalkInv
<1> QED
  BY <1>8, <1>9, <1>10, <1>11 DEF WalkInv

\* The rows of a page, and what comes before and after them.
LEMMA AroundPage ==
    ASSUME WalkInv
    PROVE  LET rest == {r \in shown : Rank(r, shown, at) >= Offset(page) + PageSize}
           IN  /\ Ahead(Missed \ PageOf(page), Offset(page) + PageSize, shown, at)
                    \subseteq Passed
               /\ Missed \ PageOf(page) \subseteq Passed \cup rest
<1>1. /\ Missed \subseteq shown /\ Offset(page) \in Int
      /\ \A r \in Missed : Rank(r, shown, at) \in Nat
  BY ViewFinite, RankType DEF WalkInv
<1>2. PageSize \in Nat \ {0}
  BY ListsAssumption
<1>3. \A r \in Missed \ PageOf(page) :
          \/ Rank(r, shown, at) < Offset(page)
          \/ Rank(r, shown, at) >= Offset(page) + PageSize
  BY <1>1, <1>2 DEF PageOf, Rank
<1>4. Ahead(Missed \ PageOf(page), Offset(page) + PageSize, shown, at) \subseteq Passed
  BY <1>1, <1>2, <1>3 DEF Ahead, Passed
<1>5. \A r \in Missed \ PageOf(page) :
          r \in Passed \/ Rank(r, shown, at) >= Offset(page) + PageSize
  BY <1>3 DEF Ahead, Passed
<1> QED
  BY <1>1, <1>4, <1>5

\* The rows left out after the last page are beyond the count.
LEMMA BeyondLastPage ==
    ASSUME WalkInv, Counted, page > 0, ~ page < Pages(total)
    PROVE  LET rest == {r \in shown : Rank(r, shown, at) >= Offset(page) + PageSize}
           IN  IsFiniteSet(rest) /\ Cardinality(rest) \in Nat /\ Cardinality(rest) <= Grown
<1>1. /\ Ordered(shown, at) /\ Cardinality(shown) \in Nat
      /\ total \in Nat /\ page \in Nat
  BY ViewFinite, ViewOrdered DEF WalkInv, WalkTypeOK, Counted
<1>2. PageSize \in Nat \ {0}
  BY ListsAssumption
<1>3. Pages(total) \in Nat /\ Pages(total) * PageSize >= total
  BY <1>1, PagesCover
<1>4. Offset(page) + PageSize = page * PageSize
  BY <1>1, OffsetNext
<1>5. PICK k : k = page * PageSize
  OBVIOUS
<1>6. k \in Nat /\ k >= total
  <2>1. page >= Pages(total)
    BY <1>1, <1>3
  <2>2. page * PageSize >= Pages(total) * PageSize
    <3>1. ASSUME NEW a \in Nat, NEW b \in Nat, NEW c \in Nat, a >= b PROVE a * c >= b * c
      BY <3>1
    <3> QED
      BY <1>1, <1>2, <1>3, <2>1, <3>1
  <2>3. page * PageSize \in Nat /\ Pages(total) * PageSize \in Nat
    BY <1>1, <1>2, <1>3
  <2> QED
    BY <1>1, <1>3, <1>5, <2>2, <2>3
<1> DEFINE rest == {r \in shown : Rank(r, shown, at) >= k}
<1>7. /\ IsFiniteSet(rest)
      /\ Cardinality(rest) \in Nat
      /\ Cardinality(rest) <= IF Cardinality(shown) > k THEN Cardinality(shown) - k ELSE 0
  BY <1>1, <1>6, RanksBeyond
<1>8. Grown = IF Cardinality(shown) > total THEN Cardinality(shown) - total ELSE 0
  BY DEF Grown
<1>9. Cardinality(rest) <= Grown
  <2> HIDE DEF rest
  <2> QED
    BY <1>1, <1>6, <1>7, <1>8
<1> QED
  BY <1>4, <1>5, <1>7, <1>9

LEMMA SelectKeeps ==
    ASSUME WalkInv, WalkTypeOK', Select
    PROVE  WalkInv'
<1>1. /\ WalkTypeOK /\ page \in Nat /\ Counted /\ total \in Nat
      /\ UNCHANGED <<list, at, shown, stayed, moved, changes>>
      /\ ~ Counted'
      /\ Missed' = Missed \ PageOf(page)
  BY DEF Select, WalkInv, WalkTypeOK, listed, Counted, Missed
<1>2. page > 0
  BY <1>1 DEF WalkInv, EndMissesOnlyMoved
<1>3. /\ Cardinality(Passed) \in Nat /\ Grown \in Nat /\ IsFiniteSet(Passed)
      /\ moved \in Nat /\ moved' = moved /\ Cardinality(Passed) + Grown <= moved
  BY <1>1, <1>2, CountsType, PassedFinite DEF WalkInv, PassesOnlyMoved, WalkTypeOK
<1>4. StampsDiffer' /\ ClampedInRange'
  BY <1>1 DEF StampsDiffer, Present, WalkInv, ClampedInRange
<1>5. Grown' = 0
  BY <1>1 DEF Grown
<1>6. CASE page < Pages(total)
  <2>1. page' = page + 1
    BY <1>6 DEF Select
  <2>2. Offset(page)' = Offset(page) + PageSize
    BY <1>1, <2>1, OffsetNext DEF Offset
  <2>3. Passed' = Ahead(Missed \ PageOf(page), Offset(page) + PageSize, shown, at)
    BY <1>1, <2>2 DEF Passed
  <2>4. Passed' \subseteq Passed
    BY <2>3, AroundPage
  <2>5. Cardinality(Passed') \in Nat /\ Cardinality(Passed') <= Cardinality(Passed)
    BY <1>1, <2>4, PassedByNone
  <2>6. PassesOnlyMoved'
    BY <1>3, <1>5, <2>5 DEF PassesOnlyMoved
  <2>7. EndMissesOnlyMoved'
    BY <1>1, <2>1 DEF EndMissesOnlyMoved
  <2> QED
    BY <1>4, <2>6, <2>7 DEF WalkInv
<1>7. CASE ~ page < Pages(total)
  <2> DEFINE rest == {r \in shown : Rank(r, shown, at) >= Offset(page) + PageSize}
  <2>1. page' = 0
    BY <1>7 DEF Select
  <2>2. IsFiniteSet(rest) /\ Cardinality(rest) \in Nat /\ Cardinality(rest) <= Grown
    BY <1>1, <1>2, <1>7, BeyondLastPage
  <2>3. Missed' \subseteq Passed \cup rest
    BY <1>1, AroundPage
  <2>4. /\ IsFiniteSet(Passed \cup rest)
        /\ Cardinality(Passed \cup rest) \in Nat
        /\ Cardinality(Passed \cup rest) <= Cardinality(Passed) + Cardinality(rest)
    <3>1. /\ IsFiniteSet(Passed \cup rest)
          /\ Cardinality(Passed \cup rest) =
               Cardinality(Passed) + Cardinality(rest) - Cardinality(Passed \cap rest)
      BY <1>3, <2>2, FS_Union
    <3>2. Cardinality(Passed \cap rest) \in Nat /\ Cardinality(Passed \cup rest) \in Nat
      BY <1>3, <3>1, FS_Intersection, FS_CardinalityType
    <3> HIDE DEF rest
    <3> QED
      BY <1>3, <2>2, <3>1, <3>2
  <2>5. Cardinality(Missed') \in Nat /\ Cardinality(Missed') <= Cardinality(Passed \cup rest)
    BY <2>3, <2>4, FS_Subset, FS_CardinalityType
  <2>6. Cardinality(Missed') <= moved
    <3> HIDE DEF rest
    <3> QED
      BY <1>3, <2>2, <2>4, <2>5
  <2>7. EndMissesOnlyMoved' /\ PassesOnlyMoved'
    BY <1>1, <1>3, <2>1, <2>6 DEF EndMissesOnlyMoved, PassesOnlyMoved
  <2> QED
    BY <1>4, <2>7 DEF WalkInv
<1> QED
  BY <1>6, <1>7

LEMMA WalkInvInitial ==
    ASSUME WalkInit
    PROVE  WalkInv
<1>1. WalkTypeOK
  BY WalkTypeInitial
<1>2. StampsDiffer
  BY ListsAssumption DEF WalkInit, StampsDiffer, Present, Rows
<1>3. page = 1 /\ ~ Counted /\ moved = 0
  BY DEF WalkInit, Counted
<1>4. Passed = {}
  <2>1. Offset(page) = 0
    BY <1>3, ListsAssumption DEF Offset
  <2>2. \A r \in Missed : Rank(r, shown, at) \in Nat
    BY <1>1, ViewFinite, RankType
  <2> QED
    BY <2>1, <2>2 DEF Passed, Ahead
<1>5. Cardinality(Passed) = 0 /\ Grown = 0
  BY <1>3, <1>4, FS_EmptySet DEF Grown
<1> QED
  BY <1>1, <1>2, <1>3, <1>5
     DEF WalkInv, PassesOnlyMoved, EndMissesOnlyMoved, ClampedInRange

LEMMA WalkInvStep ==
    ASSUME WalkInv, [WalkNext]_walkVars
    PROVE  WalkInv'
<1>1. WalkTypeOK'
  BY WalkTypeStep DEF WalkInv
<1>2. CASE WalkNext
  BY <1>1, <1>2, CountKeeps, SelectKeeps, InsertKeeps, EnterKeeps, LeaveKeeps, TouchKeeps
     DEF WalkNext
<1>3. CASE UNCHANGED walkVars
  <2>1. UNCHANGED <<list, at, shown, stayed, moved, changes, page, total, seen, last>>
    BY <1>3 DEF walkVars, listed
  <2>2. StampsDiffer' /\ UNCHANGED Missed /\ Counted' = Counted
    BY <2>1 DEF WalkInv, StampsDiffer, Present, Missed, Counted
  <2>3. UNCHANGED Passed /\ UNCHANGED Grown
    BY <2>1, <2>2 DEF Passed, Grown, Offset
  <2> QED
    BY <1>1, <2>1, <2>2, <2>3
       DEF WalkInv, PassesOnlyMoved, EndMissesOnlyMoved, ClampedInRange
<1> QED
  BY <1>2, <1>3

LEMMA WalkInvariant == WalkSpec => []WalkInv
<1>1. WalkInit => WalkInv
  BY WalkInvInitial
<1>2. WalkInv /\ [WalkNext]_walkVars => WalkInv'
  BY WalkInvStep
<1> QED
  BY <1>1, <1>2, PTL DEF WalkSpec

-----------------------------------------------------------------------------
(***************************************************************************)
(* What the pages of a list show.                                          *)
(***************************************************************************)

\* For any number of rows, any size of the page and any number of changes, a
\* walk to the last page misses no more rows than the changes that can put one
\* behind it or beyond the count of its last request.
THEOREM WalkMisses == WalkSpec => []WalkMissesOnlyMoved
<1>1. WalkInv => WalkMissesOnlyMoved
  BY DEF WalkInv, EndMissesOnlyMoved, WalkMissesOnlyMoved, Missed
<1> QED
  BY <1>1, WalkInvariant, PTL

\* The page of a clamped request is one of those counted, and its places are
\* taken by rows of the view as far as the view still reaches.
LEMMA PageFilled ==
    ASSUME WalkInv, Select, list = ListReports
    PROVE  /\ Cardinality(PageOf(page)) \in Nat
           /\ Cardinality(PageOf(page)) + Lost >= Due
<1>1. /\ Counted /\ list.clamps /\ total \in Nat /\ page \in Nat
      /\ Ordered(shown, at) /\ Cardinality(shown) \in Nat /\ IsFiniteSet(shown)
  BY ViewFinite, ViewOrdered
     DEF Select, WalkInv, WalkTypeOK, ListReports, ByCreation, Counted
<1>2. page > 0
  BY <1>1 DEF WalkInv, EndMissesOnlyMoved
<1>3. page <= Pages(total) /\ Pages(total) \in Nat
  BY <1>1, PagesCover DEF WalkInv, ClampedInRange
<1>4. PageSize \in Nat \ {0}
  BY ListsAssumption
<1>5. Offset(page) \in Nat
  BY <1>1, <1>2, <1>4 DEF Offset
<1>6. Due = Least(PageSize, total - Offset(page))
  <2>1. Least(page, Pages(total)) = page
    BY <1>1, <1>3 DEF Least
  <2> QED
    BY <2>1 DEF Due
<1>7. Cardinality(PageOf(page)) \in Nat
  BY <1>1, FS_Subset, FS_CardinalityType DEF PageOf
<1>8. Lost = IF Cardinality(shown) < total THEN total - Cardinality(shown) ELSE 0
  BY DEF Lost
<1>9. ASSUME NEW n \in Nat, n <= PageSize, Offset(page) + n <= Cardinality(shown)
      PROVE  n <= Cardinality(PageOf(page))
  <2>1. PageOf(page) \in SUBSET shown
    BY DEF PageOf
  <2>2. \A r \in shown : Rank(r, shown, at) \in Offset(page) .. Offset(page) + n - 1
                            => r \in PageOf(page)
    BY <1>4, <1>5, <1>9 DEF PageOf, Rank
  <2> QED
    BY <1>1, <1>5, <1>9, <2>1, <2>2, PlacesFilled
<1>10. CASE Cardinality(shown) <= Offset(page)
  BY <1>1, <1>4, <1>5, <1>6, <1>7, <1>8, <1>10 DEF Least
<1>11. CASE Offset(page) < Cardinality(shown)
  <2> DEFINE n == Least(PageSize, Cardinality(shown) - Offset(page))
  <2>1. n \in Nat /\ n <= PageSize /\ Offset(page) + n <= Cardinality(shown)
    BY <1>1, <1>4, <1>5, <1>11 DEF Least
  <2>2. n <= Cardinality(PageOf(page))
    <3> HIDE DEF n
    <3> QED
      BY <1>9, <2>1
  <2>3. n + Lost >= Due /\ Lost \in Nat /\ Due \in Int
    BY <1>1, <1>4, <1>5, <1>6, <1>8, <1>11 DEF Least
  <2> HIDE DEF n
  <2> QED
    BY <1>7, <2>1, <2>2, <2>3
<1> QED
  BY <1>1, <1>5, <1>7, <1>10, <1>11

\* A page of the reports, past the end or not, lacks no more rows than were
\* closed between the count and the SELECT (list_reports).
THEOREM ReportPagesHaveRows == WalkSpec => ClampedPageHasRows
<1>1. ASSUME WalkInv, Select, list = ListReports
      PROVE  Cardinality(last') + Lost >= Due
  <2>1. last' = PageOf(page)
    BY <1>1 DEF Select
  <2> QED
    BY <1>1, <2>1, PageFilled
<1>2. WalkInv /\ [WalkNext]_walkVars
        => [Select /\ list = ListReports => Cardinality(last') + Lost >= Due]_walkVars
  BY <1>1
<1> QED
  BY <1>2, WalkInvariant, PTL DEF WalkSpec, ClampedPageHasRows

=============================================================================
