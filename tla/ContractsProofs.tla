--------------------------- MODULE ContractsProofs ---------------------------
(***************************************************************************)
(* What holds of Contracts for every number of milestones, submissions and *)
(* disputes: first however requests overlap, then, when requests follow    *)
(* one another, that the rows are an escrow whose money the pages show.    *)
(***************************************************************************)
EXTENDS ContractPages, TLAPS

-----------------------------------------------------------------------------
(***************************************************************************)
(* Type correctness.                                                       *)
(***************************************************************************)

\* A row holds a status after a flush if it held one before and the handler
\* assigns one.
LEMMA FlushedType ==
    ASSUME NEW S, NEW current \in S, NEW loaded, NEW new \in S
    PROVE  Flushed(current, loaded, new) \in S
BY DEF Flushed

\* Idle is a value a request slot may hold.
LEMMA IdleType == Idle \in LoadedRows
BY DEF Idle, LoadedRows

\* SetMilestones writes milestone statuses only, for the four ways the
\* handlers assign them.
LEMMA SetMilestonesType ==
    ASSUME TypeOK, NEW q \in Requests,
           \/ SetMilestones(q, AfterAcceptance)
           \/ SetMilestones(q, Frozen)
           \/ SetMilestones(q, FundedReleased)
           \/ SetMilestones(q, AllReleased)
           \/ SetMilestones(q, AllRefunded)
    PROVE  milestone' \in [Milestones -> MilestoneStatus]
<1> USE DEF SetMilestones, Flushed, TypeOK, LoadedRows, MilestoneStatus
<1>1. CASE SetMilestones(q, AfterAcceptance)
  BY <1>1 DEF AfterAcceptance
<1>2. CASE SetMilestones(q, Frozen)
  BY <1>2 DEF Frozen, Freezable
<1>3. CASE SetMilestones(q, FundedReleased)
  BY <1>3 DEF FundedReleased
<1>4. CASE SetMilestones(q, AllReleased)
  BY <1>4 DEF AllReleased, MovedTo, Movable
<1>5. CASE SetMilestones(q, AllRefunded)
  BY <1>5 DEF AllRefunded, MovedTo, Movable
<1> QED
  BY <1>1, <1>2, <1>3, <1>4, <1>5

\* A finished request leaves an idle slot, a SELECT a slot of loaded rows.
LEMMA DoneType ==
    ASSUME TypeOK, NEW q \in Requests, Done(q)
    PROVE  req' \in [Requests -> LoadedRows]
BY IdleType DEF Done, TypeOK

LEMMA LoadType ==
    ASSUME TypeOK, NEW q \in Requests, NEW loaded \in LoadedRows, Load(q, loaded)
    PROVE  TypeOK'
BY DEF Load, TypeOK, rows

LEMMA SetContractType ==
    ASSUME TypeOK, NEW q, NEW status \in ContractStatus, SetContract(q, status)
    PROVE  contract' \in ContractStatus
BY DEF SetContract, Flushed, TypeOK

\* The SELECTs of a request load rows of the right type.
LEMMA SelectType ==
    ASSUME TypeOK, NEW q \in Requests, Begin(q) \/ Read(q)
    PROVE  TypeOK'
<1>0. req[q] \in LoadedRows
  BY DEF TypeOK
<1>1. CASE BeginContract(q)
  <2>1. [Idle EXCEPT !.kind = "contract", !.contract = contract] \in LoadedRows
    BY DEF Idle, LoadedRows, TypeOK
  <2> QED
    BY <1>1, <2>1, LoadType DEF BeginContract
<1>2. ASSUME NEW m \in Milestones, BeginMilestone(q, m) PROVE TypeOK'
  <2>1. [Idle EXCEPT !.kind = "milestone", !.milestone[m] = milestone[m]] \in LoadedRows
    BY DEF Idle, LoadedRows, TypeOK
  <2> QED
    BY <1>2, <2>1, LoadType DEF BeginMilestone
<1>3. ASSUME NEW d \in Disputes, BeginDispute(q, d) PROVE TypeOK'
  <2>1. [Idle EXCEPT !.kind = "dispute", !.dispute[d] = dispute[d]] \in LoadedRows
    BY DEF Idle, LoadedRows, TypeOK
  <2> QED
    BY <1>3, <2>1, LoadType DEF BeginDispute
<1>4. CASE ReadContract(q)
  <2>1. [req[q] EXCEPT !.contract = contract] \in LoadedRows
    BY <1>0 DEF LoadedRows, TypeOK
  <2> QED
    BY <1>4, <2>1, LoadType DEF ReadContract
<1>5. CASE ReadMilestones(q)
  <2>1. [req[q] EXCEPT !.milestone = milestone] \in LoadedRows
    BY <1>0 DEF LoadedRows, TypeOK
  <2> QED
    BY <1>5, <2>1, LoadType DEF ReadMilestones
<1>6. CASE ReadCollections(q)
  <2>1. [req[q] EXCEPT !.milestone = milestone, !.submission = submission, !.rfq = rfq]
            \in LoadedRows
    BY <1>0 DEF LoadedRows, TypeOK
  <2> QED
    BY <1>6, <2>1, LoadType DEF ReadCollections
<1>7. CASE ReadDisputes(q)
  <2>1. [req[q] EXCEPT !.dispute = dispute] \in LoadedRows
    BY <1>0 DEF LoadedRows, TypeOK
  <2> QED
    BY <1>7, <2>1, LoadType DEF ReadDisputes
<1> QED
  BY <1>1, <1>2, <1>3, <1>4, <1>5, <1>6, <1>7 DEF Begin, Read

\* The handlers write statuses of the right kind.
LEMMA WriteType ==
    ASSUME TypeOK, NEW q \in Requests,
           PaymentStep(q) \/ SubmissionStep(q) \/ ContractActionStep(q) \/ DisputeStep(q)
    PROVE  TypeOK'
<1> USE DoneType, SetContractType, SetMilestonesType
<1> USE DEF TypeOK, ContractStatus
<1>1. ASSUME NEW m \in Milestones, FundMilestone(q, m) PROVE TypeOK'
  <2>1. Activated(req[q].contract) \in ContractStatus
    BY <1>1 DEF FundMilestone, Activated, LoadedRows
  <2> QED
    BY <1>1, <2>1 DEF FundMilestone, MilestoneStatus
<1>2. ASSUME NEW m \in Milestones, ApproveMilestone(q, m) PROVE TypeOK'
  BY <1>2, ConstantsAssumption DEF ApproveMilestone, MilestoneStatus
<1>3. ASSUME NEW s \in Submissions, SubmitWork(q, s) PROVE TypeOK'
  BY <1>3 DEF SubmitWork, SubmissionStatus
<1>4. ASSUME NEW s \in Submissions, ApproveSubmission(q, s) PROVE TypeOK'
  BY <1>4 DEF ApproveSubmission, Flushed, SubmissionStatus, RfqStatus
<1>5. ASSUME NEW s \in Submissions, RejectSubmission(q, s) PROVE TypeOK'
  BY <1>5 DEF RejectSubmission, Flushed, SubmissionStatus
<1>6. CASE FreezeContract(q)
  BY <1>6 DEF FreezeContract
<1>7. CASE CancelContract(q)
  BY <1>7 DEF CancelContract
<1>8. CASE ForceComplete(q)
  BY <1>8 DEF ForceComplete
<1>9. ASSUME NEW d \in Disputes, OpenDispute(q, d) PROVE TypeOK'
  BY <1>9 DEF OpenDispute, InsertDispute, Flushed, DisputeStatus, ActiveDispute, RfqStatus
<1>10. ASSUME NEW d \in Disputes, OpenInvestigation(q, d) PROVE TypeOK'
  BY <1>10 DEF OpenInvestigation, InsertDispute, DisputeStatus, ActiveDispute
<1>11. ASSUME NEW d \in Disputes, RequestEvidence(q, d) PROVE TypeOK'
  BY <1>11 DEF RequestEvidence, Flushed, DisputeStatus, ActiveDispute
<1>12. ASSUME NEW d \in Disputes, ReleaseFunds(q, d) PROVE TypeOK'
  BY <1>12 DEF ReleaseFunds, Decide, DisputeStatus
<1>13. ASSUME NEW d \in Disputes, RefundBuyer(q, d) PROVE TypeOK'
  <2>1. refund' \in [Disputes -> 0..MaxEntries]
    <3>1. CASE RecordRefund(d)
      BY <3>1, ConstantsAssumption DEF RecordRefund
    <3>2. CASE UNCHANGED refund
      BY <3>2
    <3> QED
      BY <1>13, <3>1, <3>2 DEF RefundBuyer
  <2>2. /\ dispute' \in [Disputes -> DisputeStatus]
        /\ contract' \in ContractStatus
    BY <1>13 DEF RefundBuyer, Decide, DisputeStatus
  <2> QED
    BY <1>13, <2>1, <2>2 DEF RefundBuyer
<1>14. ASSUME NEW d \in Disputes, NEW Refunded \in SUBSET Milestones,
              PartialRefund(q, d, Refunded)
       PROVE  TypeOK'
  BY <1>14, ConstantsAssumption
     DEF PartialRefund, RecordRefund, Decide, DisputeStatus, MilestoneStatus
<1>15. ASSUME NEW d \in Disputes, CloseCase(q, d) PROVE TypeOK'
  BY <1>15 DEF CloseCase, Decide, DisputeStatus
<1> QED
  BY <1>1, <1>2, <1>3, <1>4, <1>5, <1>6, <1>7, <1>8, <1>9, <1>10, <1>11, <1>12, <1>13,
     <1>14, <1>15
     DEF PaymentStep, SubmissionStep, ContractActionStep, DisputeStep

\* Every reachable state is well typed: no handler stores a status the rest of
\* the code does not know.
THEOREM TypeCorrect == Spec => []TypeOK
<1>1. Init => TypeOK
  BY IdleType, ConstantsAssumption
     DEF Init, TypeOK, ContractStatus, MilestoneStatus, SubmissionStatus, DisputeStatus,
         RfqStatus
<1>2. TypeOK /\ [Next]_vars => TypeOK'
  <2> SUFFICES ASSUME TypeOK, [Next]_vars PROVE TypeOK'
    OBVIOUS
  <2>1. ASSUME NEW q \in Requests, Begin(q) \/ Read(q) PROVE TypeOK'
    BY <2>1, SelectType
  <2>2. ASSUME NEW q \in Requests,
               PaymentStep(q) \/ SubmissionStep(q) \/ ContractActionStep(q) \/ DisputeStep(q)
        PROVE  TypeOK'
    BY <2>2, WriteType
  <2>3. ASSUME NEW q \in Requests, End(q) PROVE TypeOK'
    BY <2>3, DoneType DEF End, TypeOK, rows
  <2>4. CASE UNCHANGED vars
    BY <2>4 DEF TypeOK, vars
  <2> QED
    BY <2>1, <2>2, <2>3, <2>4 DEF Next
<1> QED
  BY <1>1, <1>2, PTL DEF Spec

-----------------------------------------------------------------------------
(***************************************************************************)
(* The disputes of a contract under overlapping requests.                  *)
(*                                                                         *)
(* DisputedHasActiveDispute is not inductive: a request that loaded a      *)
(* dispute as active, and the contract in another status than "disputed",  *)
(* may resolve that dispute without rewriting the contract.  StaleDecision *)
(* says why this is harmless: if the contract has become disputed in the   *)
(* meantime, another dispute was inserted for it, and the unique index     *)
(* keeps the loaded one from being active.                                 *)
(***************************************************************************)

OneActiveDispute ==
    \A d, e \in Disputes :
        dispute[d] \in ActiveDispute /\ dispute[e] \in ActiveDispute => d = e

LoadedDisputeExists ==
    \A q \in Requests, d \in Disputes :
        req[q].dispute[d] \in ActiveDispute \cup {"resolved"} => dispute[d] # "none"

StaleDecision ==
    \A q \in Requests, d \in Disputes :
        /\ req[q].kind = "dispute"
        /\ req[q].dispute[d] \in ActiveDispute
        /\ req[q].contract \notin {"unread", "disputed"}
        /\ contract = "disputed"
        => dispute[d] \notin ActiveDispute

DisputeInv ==
    /\ OneActiveDispute
    /\ DisputedHasActiveDispute
    /\ AppealFollowsDecision
    /\ LoadedDisputeExists
    /\ StaleDecision

\* The steps fall into five classes by what they do to the contract and to
\* its disputes.
Leaves(q) ==
    /\ UNCHANGED dispute
    /\ contract' = contract \/ contract' # "disputed"
    /\ Done(q)

Inserts(q) ==
    /\ \E d \in Disputes : InsertDispute(q, d)
    /\ SetContract(q, "disputed")
    /\ Done(q)

Decides(q) ==
    /\ \E d \in Disputes, status \in {"completed", "cancelled"} :
          DisputeLoaded(q, d) /\ Decide(q, d, status)
    /\ Done(q)

Reviews(q) == \E d \in Disputes : RequestEvidence(q, d)

Selects(q) == Begin(q) \/ Read(q)

LEMMA StepClasses ==
    ASSUME NEW q \in Requests,
           \/ PaymentStep(q) \/ SubmissionStep(q) \/ ContractActionStep(q)
           \/ DisputeStep(q) \/ End(q)
    PROVE  Leaves(q) \/ Inserts(q) \/ Decides(q) \/ Reviews(q)
<1>1. ASSUME PaymentStep(q) PROVE Leaves(q)
  BY <1>1 DEF PaymentStep, FundMilestone, ApproveMilestone, Leaves, SetContract, Flushed,
              Activated
<1>2. ASSUME SubmissionStep(q) PROVE Leaves(q)
  BY <1>2 DEF SubmissionStep, SubmitWork, ApproveSubmission, RejectSubmission, Leaves,
              SetContract, Flushed
<1>3. ASSUME ContractActionStep(q) PROVE Leaves(q)
  BY <1>3 DEF ContractActionStep, FreezeContract, CancelContract, ForceComplete, Leaves,
              SetContract, Flushed
<1>4. ASSUME End(q) PROVE Leaves(q)
  BY <1>4 DEF End, Leaves, rows
<1>5. ASSUME DisputeStep(q) PROVE Inserts(q) \/ Decides(q) \/ Reviews(q)
  BY <1>5 DEF DisputeStep, OpenDispute, OpenInvestigation, ReleaseFunds, RefundBuyer,
              PartialRefund, CloseCase, Inserts, Decides, Reviews
<1> QED
  BY <1>1, <1>2, <1>3, <1>4, <1>5

\* After Done every slot is as it was or has nothing loaded.
LEMMA DoneSlots ==
    ASSUME TypeOK, NEW q \in Requests, Done(q), NEW r \in Requests
    PROVE  req'[r] = req[r] \/ req'[r] = Idle
BY DEF Done, TypeOK

LEMMA IdleLoadsNothing ==
    ASSUME NEW d \in Disputes
    PROVE  Idle.dispute[d] = "unread" /\ Idle.kind = "idle"
BY DEF Idle

LEMMA LeavesKeepsDisputeInv ==
    ASSUME TypeOK, DisputeInv, NEW q \in Requests, Leaves(q)
    PROVE  DisputeInv'
<1>1. OneActiveDispute' /\ DisputedHasActiveDispute' /\ AppealFollowsDecision'
  BY DEF DisputeInv, OneActiveDispute, DisputedHasActiveDispute, AppealFollowsDecision, Leaves
<1>2. LoadedDisputeExists'
  BY DoneSlots, IdleLoadsNothing DEF Leaves, DisputeInv, LoadedDisputeExists, ActiveDispute
<1>3. StaleDecision'
  BY DoneSlots, IdleLoadsNothing DEF Leaves, DisputeInv, StaleDecision, ActiveDispute
<1> QED
  BY <1>1, <1>2, <1>3 DEF DisputeInv

LEMMA InsertsKeepsDisputeInv ==
    ASSUME TypeOK, DisputeInv, NEW q \in Requests, Inserts(q)
    PROVE  DisputeInv'
<1>1. PICK d \in Disputes : InsertDispute(q, d)
  BY DEF Inserts
<1>2. /\ dispute[d] = "none"
      /\ dispute'[d] \in {"open", "appealed"}
      /\ \A e \in Disputes \ {d} : dispute'[e] = dispute[e] /\ dispute[e] \notin ActiveDispute
  BY <1>1 DEF InsertDispute, IndexAllowsActive, TypeOK
<1>3. OneActiveDispute' /\ DisputedHasActiveDispute'
  BY <1>2 DEF OneActiveDispute, DisputedHasActiveDispute, ActiveDispute
<1>4. AppealFollowsDecision'
  <2> SUFFICES ASSUME NEW e \in Disputes, dispute'[e] = "appealed"
               PROVE  \E f \in Disputes \ {e} : dispute'[f] = "resolved"
    BY DEF AppealFollowsDecision
  <2>1. e = d
    BY <1>2 DEF ActiveDispute
  <2>2. PICK f \in Disputes : req[q].dispute[f] = "resolved"
    BY <1>1, <2>1 DEF InsertDispute, TypeOK
  <2>3. dispute[f] # "none"
    BY <2>2 DEF DisputeInv, LoadedDisputeExists
  <2>4. f # d /\ dispute'[f] = "resolved"
    BY <1>2, <2>3 DEF TypeOK, DisputeStatus
  <2> QED
    BY <2>1, <2>4
<1>5. LoadedDisputeExists'
  BY <1>2, DoneSlots, IdleLoadsNothing
     DEF Inserts, DisputeInv, LoadedDisputeExists, ActiveDispute
<1>6. StaleDecision'
  <2> SUFFICES ASSUME NEW r \in Requests, NEW e \in Disputes,
                      req'[r].dispute[e] \in ActiveDispute
               PROVE  dispute'[e] \notin ActiveDispute
    BY DEF StaleDecision
  <2>1. req'[r] = req[r]
    BY DoneSlots, IdleLoadsNothing DEF Inserts, ActiveDispute
  <2>2. e # d
    BY <1>2, <2>1 DEF DisputeInv, LoadedDisputeExists
  <2> QED
    BY <1>2, <2>2
<1> QED
  BY <1>3, <1>4, <1>5, <1>6 DEF DisputeInv

LEMMA DecidesKeepsDisputeInv ==
    ASSUME TypeOK, DisputeInv, NEW q \in Requests, Decides(q)
    PROVE  DisputeInv'
<1>1. PICK d \in Disputes, status \in {"completed", "cancelled"} :
          DisputeLoaded(q, d) /\ Decide(q, d, status)
  BY DEF Decides
<1>2. dispute' = [dispute EXCEPT ![d] = "resolved"]
  BY <1>1 DEF Decide
<1>3. /\ dispute'[d] = "resolved"
      /\ \A e \in Disputes \ {d} : dispute'[e] = dispute[e]
  BY <1>2 DEF TypeOK
<1>4. contract' = contract \/ contract' # "disputed"
  BY <1>1 DEF Decide, SetContract, Flushed
<1>5. OneActiveDispute' /\ AppealFollowsDecision' /\ LoadedDisputeExists'
  <2>1. OneActiveDispute'
    BY <1>3 DEF DisputeInv, OneActiveDispute, ActiveDispute
  <2>2. AppealFollowsDecision'
    BY <1>3 DEF DisputeInv, AppealFollowsDecision
  <2>3. LoadedDisputeExists'
    BY <1>3, DoneSlots, IdleLoadsNothing
       DEF Decides, DisputeInv, LoadedDisputeExists, ActiveDispute
  <2> QED
    BY <2>1, <2>2, <2>3
<1>6. DisputedHasActiveDispute'
  \* Only a contract loaded in the status the decision gives it is not
  \* rewritten; StaleDecision then speaks of the dispute decided here.
  <2> SUFFICES ASSUME contract' = "disputed"
               PROVE  \E e \in Disputes : dispute'[e] \in ActiveDispute
    BY DEF DisputedHasActiveDispute
  <2>1. contract = "disputed" /\ req[q].contract = status
    BY <1>1, <1>4 DEF Decide, SetContract, Flushed
  <2>2. PICK e \in Disputes : dispute[e] \in ActiveDispute
    BY <2>1 DEF DisputeInv, DisputedHasActiveDispute
  <2>3. dispute[d] \notin ActiveDispute
    BY <1>1, <2>1 DEF DisputeInv, StaleDecision, DisputeLoaded
  <2> QED
    BY <1>3, <2>2, <2>3
<1>7. StaleDecision'
  BY <1>3, <1>4, DoneSlots, IdleLoadsNothing
     DEF Decides, DisputeInv, StaleDecision, ActiveDispute
<1> QED
  BY <1>5, <1>6, <1>7 DEF DisputeInv

LEMMA ReviewsKeepsDisputeInv ==
    ASSUME TypeOK, DisputeInv, NEW q \in Requests, Reviews(q)
    PROVE  DisputeInv'
<1>1. PICK d \in Disputes : RequestEvidence(q, d)
  BY DEF Reviews
<1>2. /\ \/ dispute'[d] = dispute[d]
         \/ dispute'[d] = "under_review" /\ IndexAllowsActive(d)
      /\ \A e \in Disputes \ {d} : dispute'[e] = dispute[e]
      /\ contract' = contract
      /\ Done(q)
      /\ dispute[d] # "none"
  <2>1. dispute[d] # "none"
    BY <1>1 DEF RequestEvidence, DisputeLoaded, DisputeInv, LoadedDisputeExists
  <2>2. "under_review" \in ActiveDispute
    BY DEF ActiveDispute
  <2> QED
    BY <1>1, <2>1, <2>2 DEF RequestEvidence, Flushed, TypeOK
<1>3. OneActiveDispute'
  BY <1>2 DEF DisputeInv, OneActiveDispute, IndexAllowsActive
<1>4. DisputedHasActiveDispute'
  BY <1>2 DEF DisputeInv, DisputedHasActiveDispute, ActiveDispute
<1>5. AppealFollowsDecision'
  \* While an appeal is open the index keeps the decided dispute decided.
  <2> SUFFICES ASSUME NEW e \in Disputes, dispute'[e] = "appealed"
               PROVE  \E f \in Disputes \ {e} : dispute'[f] = "resolved"
    BY DEF AppealFollowsDecision
  <2>1. dispute[e] = "appealed"
    BY <1>2
  <2>2. PICK f \in Disputes \ {e} : dispute[f] = "resolved"
    BY <2>1 DEF DisputeInv, AppealFollowsDecision
  <2>3. dispute'[f] = "resolved"
    BY <1>2, <2>1, <2>2 DEF IndexAllowsActive, ActiveDispute
  <2> QED
    BY <2>2, <2>3
<1>6. LoadedDisputeExists'
  BY <1>2, DoneSlots, IdleLoadsNothing DEF DisputeInv, LoadedDisputeExists, ActiveDispute
<1>7. StaleDecision'
  <2> SUFFICES ASSUME NEW r \in Requests, NEW e \in Disputes,
                      req'[r].kind = "dispute",
                      req'[r].dispute[e] \in ActiveDispute,
                      req'[r].contract \notin {"unread", "disputed"},
                      contract' = "disputed"
               PROVE  dispute'[e] \notin ActiveDispute
    BY DEF StaleDecision
  <2>1. req'[r] = req[r]
    BY <1>2, DoneSlots, IdleLoadsNothing
  <2>2. dispute[e] \notin ActiveDispute
    BY <1>2, <2>1 DEF DisputeInv, StaleDecision
  <2>3. PICK f \in Disputes : dispute[f] \in ActiveDispute
    BY <1>2 DEF DisputeInv, DisputedHasActiveDispute
  <2> QED
    BY <1>2, <2>2, <2>3 DEF IndexAllowsActive
<1> QED
  BY <1>3, <1>4, <1>5, <1>6, <1>7 DEF DisputeInv

LEMMA SelectsKeepsDisputeInv ==
    ASSUME TypeOK, DisputeInv, NEW q \in Requests, Selects(q)
    PROVE  DisputeInv'
<1>1. UNCHANGED rows /\ \A r \in Requests \ {q} : req'[r] = req[r]
  BY DEF Selects, Begin, Read, BeginContract, BeginMilestone, BeginDispute, ReadContract,
         ReadMilestones, ReadCollections, ReadDisputes, Load, TypeOK
<1>2. OneActiveDispute' /\ DisputedHasActiveDispute' /\ AppealFollowsDecision'
  BY <1>1 DEF rows, DisputeInv, OneActiveDispute, DisputedHasActiveDispute,
              AppealFollowsDecision
<1>3. \A d \in Disputes : req'[q].dispute[d] \in {"unread", dispute[d], req[q].dispute[d]}
  <2>1. \A d \in Disputes : Idle.dispute[d] = "unread"
    BY IdleLoadsNothing
  <2>2. req[q] \in LoadedRows
    BY DEF TypeOK
  <2>3. CASE BeginContract(q)
    BY <2>1, <2>3 DEF BeginContract, Load, TypeOK, Idle
  <2>4. CASE ReadContract(q)
    BY <2>2, <2>4 DEF ReadContract, Load, TypeOK, LoadedRows
  <2>5. CASE ReadMilestones(q)
    BY <2>2, <2>5 DEF ReadMilestones, Load, TypeOK, LoadedRows
  <2>6. CASE ReadCollections(q)
    BY <2>2, <2>6 DEF ReadCollections, Load, TypeOK, LoadedRows
  <2>7. CASE ReadDisputes(q)
    BY <2>2, <2>7 DEF ReadDisputes, Load, TypeOK, LoadedRows
  <2>8. ASSUME NEW m \in Milestones, BeginMilestone(q, m)
        PROVE  \A d \in Disputes : req'[q].dispute[d] \in {"unread", dispute[d], req[q].dispute[d]}
    BY <2>1, <2>8 DEF BeginMilestone, Load, TypeOK, Idle
  <2>9. ASSUME NEW e \in Disputes, BeginDispute(q, e)
        PROVE  \A d \in Disputes : req'[q].dispute[d] \in {"unread", dispute[d], req[q].dispute[d]}
    BY <2>1, <2>9 DEF BeginDispute, Load, TypeOK, Idle
  <2> QED
    BY <2>3, <2>4, <2>5, <2>6, <2>7, <2>8, <2>9 DEF Selects, Begin, Read
<1>4. LoadedDisputeExists'
  BY <1>1, <1>3 DEF rows, DisputeInv, LoadedDisputeExists, ActiveDispute
<1>5. StaleDecision'
  <2> SUFFICES ASSUME NEW d \in Disputes,
                      req'[q].kind = "dispute",
                      req'[q].dispute[d] \in ActiveDispute,
                      req'[q].contract \notin {"unread", "disputed"},
                      contract = "disputed"
               PROVE  dispute[d] \notin ActiveDispute
    BY <1>1 DEF rows, DisputeInv, StaleDecision
  <2>1. CASE ReadMilestones(q)
    <3>1. /\ req'[q].kind = req[q].kind
          /\ req'[q].dispute = req[q].dispute
          /\ req'[q].contract = req[q].contract
      BY <2>1 DEF ReadMilestones, Load, TypeOK, LoadedRows
    <3> QED
      BY <3>1 DEF DisputeInv, StaleDecision
  <2>2. CASE ReadContract(q)
    BY <2>2 DEF ReadContract, Load, TypeOK, LoadedRows
  <2>3. CASE Begin(q)
    BY <2>3 DEF Begin, BeginContract, BeginMilestone, BeginDispute, Load, TypeOK, Idle
  <2>4. CASE ReadCollections(q)
    BY <2>4 DEF ReadCollections, Load, TypeOK, LoadedRows
  <2>5. CASE ReadDisputes(q)
    BY <2>5 DEF ReadDisputes, Load, TypeOK, LoadedRows
  <2> QED
    BY <2>1, <2>2, <2>3, <2>4, <2>5 DEF Selects, Read
<1> QED
  BY <1>2, <1>4, <1>5 DEF DisputeInv

LEMMA DisputeInvInductive == TypeOK /\ DisputeInv /\ [Next]_vars => DisputeInv'
<1> SUFFICES ASSUME TypeOK, DisputeInv, [Next]_vars PROVE DisputeInv'
  OBVIOUS
<1>1. CASE UNCHANGED vars
  BY <1>1 DEF vars, DisputeInv, OneActiveDispute, DisputedHasActiveDispute,
              AppealFollowsDecision, LoadedDisputeExists, StaleDecision
<1>2. ASSUME NEW q \in Requests, Begin(q) \/ Read(q) PROVE DisputeInv'
  BY <1>2, SelectsKeepsDisputeInv DEF Selects
<1>3. ASSUME NEW q \in Requests,
             \/ PaymentStep(q) \/ SubmissionStep(q) \/ ContractActionStep(q)
             \/ DisputeStep(q) \/ End(q)
      PROVE  DisputeInv'
  BY <1>3, StepClasses, LeavesKeepsDisputeInv, InsertsKeepsDisputeInv,
     DecidesKeepsDisputeInv, ReviewsKeepsDisputeInv
<1> QED
  BY <1>1, <1>2, <1>3 DEF Next

LEMMA DisputeInvHolds == Spec => []DisputeInv
<1>1. Init => DisputeInv
  BY IdleLoadsNothing
     DEF Init, DisputeInv, OneActiveDispute, DisputedHasActiveDispute, AppealFollowsDecision,
         LoadedDisputeExists, StaleDecision, ActiveDispute
<1> QED
  BY <1>1, DisputeInvInductive, TypeCorrect, PTL DEF Spec

\* A contract shown as disputed can always be decided, whatever requests
\* overlapped: it has an active dispute.
THEOREM DisputedIsDecidable == Spec => []DisputedHasActiveDispute
<1>1. DisputeInv => DisputedHasActiveDispute
  BY DEF DisputeInv
<1> QED
  BY <1>1, DisputeInvHolds, PTL

\* An appeal is only ever open against a decision that stands.
THEOREM AppealsAreAgainstDecisions == Spec => []AppealFollowsDecision
<1>1. DisputeInv => AppealFollowsDecision
  BY DEF DisputeInv
<1> QED
  BY <1>1, DisputeInvHolds, PTL
-----------------------------------------------------------------------------
(***************************************************************************)
(* What was paid, under overlapping requests.                              *)
(*                                                                         *)
(* InvoicedWasPaid is not inductive: approve_milestone believes the status *)
(* it loaded.  PaidInv adds that a milestone is funded, in its row or in   *)
(* the memory of a request however old, only if the buyer paid it; paid    *)
(* never shrinks, so no later write can make that wrong.                   *)
(***************************************************************************)

FundedWasPaid ==
    \A m \in Milestones : milestone[m] = "funded" => m \in paid

LoadedFundedWasPaid ==
    \A q \in Requests, m \in Milestones : req[q].milestone[m] = "funded" => m \in paid

PaidInv ==
    /\ FundedWasPaid
    /\ LoadedFundedWasPaid
    /\ InvoicedWasPaid

\* No handler but fund_milestone writes "funded": the others move a milestone
\* out of it or leave it.
LEMMA WritersNeverFund ==
    ASSUME TypeOK, NEW q \in Requests,
           \/ SetMilestones(q, AfterAcceptance)
           \/ SetMilestones(q, Frozen)
           \/ SetMilestones(q, FundedReleased)
           \/ SetMilestones(q, AllReleased)
           \/ SetMilestones(q, AllRefunded)
    PROVE  \A m \in Milestones : milestone'[m] = "funded" => milestone[m] = "funded"
<1> USE DEF SetMilestones, Flushed
<1>1. CASE SetMilestones(q, AfterAcceptance)
  BY <1>1 DEF AfterAcceptance
<1>2. CASE SetMilestones(q, Frozen)
  BY <1>2 DEF Frozen, Freezable
<1>3. CASE SetMilestones(q, FundedReleased)
  BY <1>3 DEF FundedReleased
<1>4. CASE SetMilestones(q, AllReleased)
  BY <1>4 DEF AllReleased, MovedTo, Movable
<1>5. CASE SetMilestones(q, AllRefunded)
  BY <1>5 DEF AllRefunded, MovedTo, Movable
<1> QED
  BY <1>1, <1>2, <1>3, <1>4, <1>5

\* Idle slots have loaded no milestone.
LEMMA IdleMilestones == \A m \in Milestones : Idle.milestone[m] = "unread"
BY DEF Idle

\* A SELECT copies rows: a slot keeps what it holds of a milestone, forgets it
\* or takes the row as it is now.
LEMMA SelectsCopy ==
    ASSUME TypeOK, NEW q \in Requests, Begin(q) \/ Read(q)
    PROVE  \A r \in Requests, m \in Milestones :
               req'[r].milestone[m] \in {req[r].milestone[m], milestone[m], "unread"}
<1>0. req[q] \in LoadedRows /\ req \in [Requests -> LoadedRows]
  BY DEF TypeOK
<1> USE DEF Load, LoadedRows, Idle
<1>1. CASE BeginContract(q)
  BY <1>0, <1>1 DEF BeginContract
<1>2. ASSUME NEW n \in Milestones, BeginMilestone(q, n)
      PROVE  \A r \in Requests, m \in Milestones :
               req'[r].milestone[m] \in {req[r].milestone[m], milestone[m], "unread"}
  BY <1>0, <1>2 DEF BeginMilestone
<1>3. CASE \E d \in Disputes : BeginDispute(q, d)
  BY <1>0, <1>3 DEF BeginDispute
<1>4. CASE ReadContract(q)
  BY <1>0, <1>4 DEF ReadContract
<1>5. CASE ReadMilestones(q)
  BY <1>0, <1>5 DEF ReadMilestones
<1>6. CASE ReadCollections(q)
  BY <1>0, <1>6 DEF ReadCollections
<1>7. CASE ReadDisputes(q)
  BY <1>0, <1>7 DEF ReadDisputes
<1> QED
  BY <1>1, <1>2, <1>3, <1>4, <1>5, <1>6, <1>7 DEF Begin, Read

\* What a slot holds as funded it held before or the row has now.
LEMMA SelectsFunded ==
    ASSUME TypeOK, NEW q \in Requests, Begin(q) \/ Read(q)
    PROVE  \A r \in Requests, m \in Milestones :
               req'[r].milestone[m] = "funded" =>
                   req[r].milestone[m] = "funded" \/ milestone[m] = "funded"
BY SelectsCopy

\* The writing steps in three classes, by what they do to the payments.
Pays(q) == \E m \in Milestones : FundMilestone(q, m)

Invoices(q) == \E m \in Milestones : ApproveMilestone(q, m)

Moves(q) ==
    /\ \A m \in Milestones : milestone'[m] = "funded" => milestone[m] = "funded"
    /\ UNCHANGED <<invoice, paid>>
    /\ Done(q)

LEMMA PaymentClasses ==
    ASSUME TypeOK, NEW q \in Requests,
           \/ PaymentStep(q) \/ SubmissionStep(q) \/ ContractActionStep(q)
           \/ DisputeStep(q) \/ End(q)
    PROVE  Pays(q) \/ Invoices(q) \/ Moves(q)
<1>1. ASSUME PaymentStep(q) PROVE Pays(q) \/ Invoices(q)
  BY <1>1 DEF PaymentStep, Pays, Invoices
<1>2. ASSUME SubmissionStep(q) PROVE Moves(q)
  BY <1>2, WritersNeverFund
     DEF SubmissionStep, SubmitWork, ApproveSubmission, RejectSubmission, Moves
<1>3. ASSUME ContractActionStep(q) PROVE Moves(q)
  BY <1>3, WritersNeverFund
     DEF ContractActionStep, FreezeContract, CancelContract, ForceComplete, Moves
<1>4. ASSUME NEW d \in Disputes, NEW Refunded \in SUBSET Milestones,
             PartialRefund(q, d, Refunded)
      PROVE  Moves(q)
  BY <1>4 DEF PartialRefund, Moves
<1>5. ASSUME NEW d \in Disputes,
             \/ OpenDispute(q, d) \/ OpenInvestigation(q, d) \/ RequestEvidence(q, d)
             \/ ReleaseFunds(q, d) \/ RefundBuyer(q, d) \/ CloseCase(q, d)
      PROVE  Moves(q)
  BY <1>5, WritersNeverFund
     DEF OpenDispute, OpenInvestigation, RequestEvidence, ReleaseFunds, RefundBuyer,
         CloseCase, Moves
<1>6. ASSUME End(q) PROVE Moves(q)
  BY <1>6 DEF End, rows, Moves
<1> QED
  BY <1>1, <1>2, <1>3, <1>4, <1>5, <1>6 DEF DisputeStep

LEMMA PaidInvInductive == TypeOK /\ PaidInv /\ [Next]_vars => PaidInv'
<1> SUFFICES ASSUME TypeOK, PaidInv, [Next]_vars PROVE PaidInv'
  OBVIOUS
<1> USE DEF PaidInv, FundedWasPaid, LoadedFundedWasPaid, InvoicedWasPaid
<1>0. ASSUME NEW q \in Requests, Done(q)
      PROVE  \A r \in Requests, m \in Milestones :
                 req'[r].milestone[m] = "funded" => req[r].milestone[m] = "funded"
  BY <1>0, IdleMilestones DEF Done, TypeOK
<1>1. ASSUME NEW q \in Requests, Begin(q) \/ Read(q) PROVE PaidInv'
  <2>1. UNCHANGED rows
    BY <1>1 DEF Begin, Read, BeginContract, BeginMilestone, BeginDispute, ReadContract,
                ReadMilestones, ReadCollections, ReadDisputes, Load
  <2> QED
    BY <1>1, <2>1, SelectsFunded DEF rows
<1>2. ASSUME NEW q \in Requests, Pays(q) PROVE PaidInv'
  <2>1. PICK m \in Milestones : FundMilestone(q, m)
    BY <1>2 DEF Pays
  <2>2. paid' = paid \cup {m} /\ invoice' = invoice /\ Done(q)
    BY <2>1 DEF FundMilestone
  <2>3. \A n \in Milestones : milestone'[n] = "funded" => n = m \/ milestone[n] = "funded"
    BY <2>1 DEF FundMilestone, TypeOK
  <2> QED
    BY <2>2, <2>3, <1>0
<1>3. ASSUME NEW q \in Requests, Invoices(q) PROVE PaidInv'
  <2>1. PICK m \in Milestones : ApproveMilestone(q, m)
    BY <1>3 DEF Invoices
  <2>2. m \in paid /\ paid' = paid /\ Done(q)
    BY <2>1 DEF ApproveMilestone, FundedAsLoaded
  <2>3. \A n \in Milestones :
            /\ milestone'[n] = "funded" => milestone[n] = "funded"
            /\ n # m => invoice'[n] = invoice[n]
    BY <2>1 DEF ApproveMilestone, TypeOK
  <2> QED
    BY <2>2, <2>3, <1>0
<1>4. ASSUME NEW q \in Requests, Moves(q) PROVE PaidInv'
  BY <1>4, <1>0 DEF Moves
<1>5. CASE UNCHANGED vars
  BY <1>5 DEF vars
<1> QED
  BY <1>1, <1>2, <1>3, <1>4, <1>5, PaymentClasses DEF Next

LEMMA PaidInvHolds == Spec => []PaidInv
<1>1. Init => PaidInv
  BY IdleMilestones
     DEF Init, PaidInv, FundedWasPaid, LoadedFundedWasPaid, InvoicedWasPaid
<1> QED
  BY <1>1, PaidInvInductive, TypeCorrect, PTL DEF Spec

\* An invoice, and with it revenue and commission, is only ever issued for a
\* milestone the buyer paid, whatever requests overlapped.
THEOREM InvoicesAreForPaidMilestones == Spec => []InvoicedWasPaid
<1>1. PaidInv => InvoicedWasPaid
  BY DEF PaidInv
<1> QED
  BY <1>1, PaidInvHolds, PTL

\* A milestone nobody paid is settled by the decision of a dispute only,
\* whatever requests overlapped: every other handler that settles one has
\* loaded it as funded.
LEMMA UnpaidSettledStep ==
    ASSUME TypeOK, PaidInv, [Next]_vars,
           NEW m \in Milestones, m \notin paid,
           milestone[m] \notin Settled, milestone'[m] \in Settled
    PROVE  \E q \in Requests : req[q].kind = "dispute" /\ req'[q].kind = "idle"
<1> USE DEF Settled
<1>0. \A q \in Requests : req[q].milestone[m] # "funded"
  BY DEF PaidInv, LoadedFundedWasPaid
<1>1. ASSUME NEW q \in Requests, Begin(q) \/ Read(q) PROVE FALSE
  BY <1>1 DEF Begin, Read, BeginContract, BeginMilestone, BeginDispute, ReadContract,
              ReadMilestones, ReadCollections, ReadDisputes, Load, rows
<1>2. ASSUME NEW q \in Requests, PaymentStep(q) PROVE FALSE
  <2>1. PICK n \in Milestones : FundMilestone(q, n) \/ ApproveMilestone(q, n)
    BY <1>2 DEF PaymentStep
  <2>2. CASE FundMilestone(q, n)
    BY <2>2 DEF FundMilestone, TypeOK
  <2>3. CASE ApproveMilestone(q, n)
    BY <2>3, <1>0 DEF ApproveMilestone, FundedAsLoaded, TypeOK
  <2> QED
    BY <2>1, <2>2, <2>3
<1>3. ASSUME NEW q \in Requests, SubmissionStep(q) PROVE FALSE
  BY <1>3, <1>0 DEF SubmissionStep, SubmitWork, ApproveSubmission, RejectSubmission,
                    SetMilestones, Flushed, AfterAcceptance
<1>4. ASSUME NEW q \in Requests, ContractActionStep(q) PROVE FALSE
  BY <1>4, <1>0 DEF ContractActionStep, FreezeContract, CancelContract, ForceComplete,
                    SetMilestones, Flushed, Frozen, FundedReleased
<1>5. ASSUME NEW q \in Requests, DisputeStep(q)
      PROVE  req[q].kind = "dispute" /\ req'[q].kind = "idle"
  <2>1. Idle.kind = "idle"
    BY DEF Idle
  <2>2. ASSUME Done(q) PROVE req'[q].kind = "idle"
    BY <2>1, <2>2 DEF Done, TypeOK
  <2>3. ASSUME NEW d \in Disputes, OpenDispute(q, d) \/ OpenInvestigation(q, d) PROVE FALSE
    BY <2>3 DEF OpenDispute, OpenInvestigation
  <2>4. ASSUME NEW d \in Disputes, NEW Refunded \in SUBSET Milestones,
               \/ RequestEvidence(q, d) \/ ReleaseFunds(q, d) \/ RefundBuyer(q, d)
               \/ CloseCase(q, d) \/ PartialRefund(q, d, Refunded)
        PROVE  req[q].kind = "dispute" /\ req'[q].kind = "idle"
    BY <2>2, <2>4 DEF RequestEvidence, ReleaseFunds, RefundBuyer, CloseCase,
                      PartialRefund, DisputeLoaded
  <2> QED
    BY <1>5, <2>3, <2>4 DEF DisputeStep
<1>6. ASSUME NEW q \in Requests, End(q) PROVE FALSE
  BY <1>6 DEF End, rows
<1>7. CASE UNCHANGED vars
  BY <1>7 DEF vars
<1> QED
  BY <1>1, <1>2, <1>3, <1>4, <1>5, <1>6, <1>7 DEF Next

\* Approval of a milestone or of the work and a forced completion never settle
\* a milestone nobody paid; only an administrator's decision of a dispute does.
THEOREM UnpaidIsSettledByDecision == Spec => UnpaidSettledOnlyByDecision
<1>1. TypeOK /\ PaidInv /\ [Next]_vars =>
          [\A m \in Milestones :
              m \notin paid /\ milestone[m] \notin Settled /\ milestone'[m] \in Settled =>
                  \E q \in Requests : req[q].kind = "dispute" /\ req'[q].kind = "idle"]_vars
  BY UnpaidSettledStep
<1> QED
  BY <1>1, PaidInvHolds, TypeCorrect, PTL DEF Spec, UnpaidSettledOnlyByDecision

-----------------------------------------------------------------------------
(***************************************************************************)
(* What overlapping requests cannot undo.                                  *)
(*                                                                         *)
(* A handler decides on the status it loaded, so a stale one may move a    *)
(* milestone that is settled by now.  KnownAs(m, S) says that no stale     *)
(* request is left: each that read m found a status of S.  Such a request  *)
(* assigns a status of S again if S is NotDue, and assigns nothing if S is *)
(* Settled, for every handler; and a SELECT can only copy the row.         *)
(***************************************************************************)

\* A SELECT changes no row.
LEMMA SelectRows == ASSUME NEW q, Begin(q) \/ Read(q) PROVE UNCHANGED rows
BY DEF Begin, Read, BeginContract, BeginMilestone, BeginDispute, ReadContract, ReadMilestones,
       ReadCollections, ReadDisputes, Load

\* A handler ends its request.
LEMMA HandlerEnds ==
    ASSUME NEW q,
           \/ PaymentStep(q) \/ SubmissionStep(q) \/ ContractActionStep(q)
           \/ DisputeStep(q) \/ End(q)
    PROVE  Done(q)
BY DEF PaymentStep, FundMilestone, ApproveMilestone, SubmissionStep, SubmitWork,
       ApproveSubmission, RejectSubmission, ContractActionStep, FreezeContract,
       CancelContract, ForceComplete, DisputeStep, OpenDispute, OpenInvestigation,
       RequestEvidence, ReleaseFunds, RefundBuyer, PartialRefund, CloseCase, End

\* What the handlers assign to a milestone that is not due is not due, and
\* what they assign to a settled one is the status it has.
LEMMA Assigned ==
    ASSUME NEW status
    PROVE  /\ status \in NotDue =>
                  /\ AfterAcceptance(status) \in NotDue
                  /\ Frozen(status) \in NotDue
                  /\ FundedReleased(status) \in NotDue
                  /\ AllReleased(status) \in NotDue
                  /\ AllRefunded(status) \in NotDue
           /\ status \in Settled \cup {"unread"} =>
                  /\ AfterAcceptance(status) = status
                  /\ Frozen(status) = status
                  /\ FundedReleased(status) = status
                  /\ AllReleased(status) = status
                  /\ AllRefunded(status) = status
BY DEF AfterAcceptance, Frozen, Freezable, FundedReleased, AllReleased, AllRefunded,
       MovedTo, Movable, NotDue, Settled

\* So the row stays in S when the milestones are written from a request that
\* knows m as one of S.
LEMMA SetMilestonesKeep ==
    ASSUME TypeOK, NEW q \in Requests, NEW m \in Milestones,
           \/ SetMilestones(q, AfterAcceptance)
           \/ SetMilestones(q, Frozen)
           \/ SetMilestones(q, FundedReleased)
           \/ SetMilestones(q, AllReleased)
           \/ SetMilestones(q, AllRefunded)
    PROVE  /\ KnownAs(m, NotDue) => milestone'[m] \in NotDue
           /\ KnownAs(m, Settled) => milestone'[m] = milestone[m]
<1>1. /\ KnownAs(m, NotDue) => /\ milestone[m] \in NotDue
                               /\ req[q].milestone[m] \in NotDue \cup {"unread"}
      /\ KnownAs(m, Settled) => req[q].milestone[m] \in Settled \cup {"unread"}
  BY DEF KnownAs
<1>2. req[q].milestone[m] = "unread" => req[q].milestone[m] \in Settled \cup {"unread"}
  OBVIOUS
<1> USE <1>1, <1>2, Assigned DEF SetMilestones, Flushed
<1>3. CASE SetMilestones(q, AfterAcceptance)
  BY <1>3
<1>4. CASE SetMilestones(q, Frozen)
  BY <1>4
<1>5. CASE SetMilestones(q, FundedReleased)
  BY <1>5
<1>6. CASE SetMilestones(q, AllReleased)
  BY <1>6
<1>7. CASE SetMilestones(q, AllRefunded)
  BY <1>7
<1> QED
  BY <1>3, <1>4, <1>5, <1>6, <1>7

\* The same for every handler, the invoice of approve_milestone included.
LEMMA HandlersKeep ==
    ASSUME TypeOK, NEW q \in Requests, NEW m \in Milestones,
           \/ PaymentStep(q) \/ SubmissionStep(q) \/ ContractActionStep(q)
           \/ DisputeStep(q) \/ End(q)
    PROVE  /\ KnownAs(m, NotDue) => milestone'[m] \in NotDue
           /\ KnownAs(m, Settled) => /\ milestone'[m] = milestone[m]
                                     /\ invoice'[m] = invoice[m]
<1> DEFINE Kept == /\ KnownAs(m, NotDue) => milestone'[m] \in NotDue
                   /\ KnownAs(m, Settled) => /\ milestone'[m] = milestone[m]
                                             /\ invoice'[m] = invoice[m]
<1>1. ASSUME UNCHANGED milestone, UNCHANGED invoice PROVE Kept
  BY <1>1 DEF KnownAs
<1>2. ASSUME PaymentStep(q) PROVE Kept
  <2>1. PICK n \in Milestones : FundMilestone(q, n) \/ ApproveMilestone(q, n)
    BY <1>2 DEF PaymentStep
  <2>2. CASE n # m
    BY <2>1, <2>2 DEF FundMilestone, ApproveMilestone, KnownAs, TypeOK
  <2>3. CASE n = m
    BY <2>1, <2>3
       DEF FundMilestone, ApproveMilestone, FundedAsLoaded, KnownAs, NotDue, Settled, TypeOK
  <2> QED
    BY <2>2, <2>3
<1>3. ASSUME SubmissionStep(q) PROVE Kept
  BY <1>1, <1>3, SetMilestonesKeep
     DEF SubmissionStep, SubmitWork, ApproveSubmission, RejectSubmission
<1>4. ASSUME ContractActionStep(q) PROVE Kept
  BY <1>1, <1>4, SetMilestonesKeep
     DEF ContractActionStep, FreezeContract, CancelContract, ForceComplete
<1>5. ASSUME NEW d \in Disputes, NEW Refunded \in SUBSET Milestones,
             PartialRefund(q, d, Refunded)
      PROVE  Kept
  BY <1>5 DEF PartialRefund, KnownAs, NotDue, Settled, Movable
<1>6. ASSUME NEW d \in Disputes,
             \/ OpenDispute(q, d) \/ OpenInvestigation(q, d) \/ RequestEvidence(q, d)
             \/ ReleaseFunds(q, d) \/ RefundBuyer(q, d) \/ CloseCase(q, d)
      PROVE  Kept
  BY <1>1, <1>6, SetMilestonesKeep
     DEF OpenDispute, OpenInvestigation, RequestEvidence, ReleaseFunds, RefundBuyer,
         CloseCase
<1>7. ASSUME End(q) PROVE Kept
  BY <1>1, <1>7 DEF End, rows
<1> QED
  BY <1>2, <1>3, <1>4, <1>5, <1>6, <1>7 DEF DisputeStep

\* What every request knows stays known as long as the row agrees.
LEMMA KnownStays ==
    ASSUME TypeOK, [Next]_vars, NEW m \in Milestones, NEW S,
           KnownAs(m, S), milestone'[m] \in S
    PROVE  KnownAs(m, S)'
<1> SUFFICES \A r \in Requests : req'[r].milestone[m] \in S \cup {"unread"}
  BY DEF KnownAs
<1>1. ASSUME NEW q \in Requests, Begin(q) \/ Read(q)
      PROVE  \A r \in Requests : req'[r].milestone[m] \in S \cup {"unread"}
  BY <1>1, SelectsCopy DEF KnownAs
<1>2. ASSUME NEW q \in Requests,
             \/ PaymentStep(q) \/ SubmissionStep(q) \/ ContractActionStep(q)
             \/ DisputeStep(q) \/ End(q)
      PROVE  \A r \in Requests : req'[r].milestone[m] \in S \cup {"unread"}
  <2>1. Done(q)
    BY <1>2, HandlerEnds
  <2> QED
    BY <2>1, IdleMilestones DEF Done, KnownAs, TypeOK
<1>3. CASE UNCHANGED vars
  BY <1>3 DEF vars, KnownAs
<1> QED
  BY <1>1, <1>2, <1>3 DEF Next

\* A decided dispute that every request knows as decided is left alone: no
\* handler takes it for active, and none inserts it.
LEMMA DecidedStays ==
    ASSUME TypeOK, [Next]_vars, NEW d \in Disputes, KnownDecided(d)
    PROVE  KnownDecided(d)' /\ refund'[d] = refund[d]
<1>1. /\ dispute[d] = "resolved"
      /\ \A q \in Requests : req[q].dispute[d] \in {"resolved", "unread"}
  BY DEF KnownDecided
<1>2. ASSUME NEW q \in Requests, Begin(q) \/ Read(q)
      PROVE  KnownDecided(d)' /\ refund'[d] = refund[d]
  <2>1. UNCHANGED rows
    BY <1>2, SelectRows
  <2>2. req[q] \in LoadedRows /\ req \in [Requests -> LoadedRows]
    BY DEF TypeOK
  <2>3. \A r \in Requests : req'[r].dispute[d] \in {req[r].dispute[d], dispute[d], "unread"}
    <3> USE <2>2 DEF Load, LoadedRows, Idle
    <3>1. CASE BeginContract(q)
      BY <3>1 DEF BeginContract
    <3>2. CASE \E m \in Milestones : BeginMilestone(q, m)
      BY <3>2 DEF BeginMilestone
    <3>3. ASSUME NEW e \in Disputes, BeginDispute(q, e)
          PROVE  \A r \in Requests :
                     req'[r].dispute[d] \in {req[r].dispute[d], dispute[d], "unread"}
      BY <3>3 DEF BeginDispute
    <3>4. CASE ReadContract(q)
      BY <3>4 DEF ReadContract
    <3>5. CASE ReadMilestones(q)
      BY <3>5 DEF ReadMilestones
    <3>6. CASE ReadCollections(q)
      BY <3>6 DEF ReadCollections
    <3>7. CASE ReadDisputes(q)
      BY <3>7 DEF ReadDisputes
    <3> QED
      BY <1>2, <3>1, <3>2, <3>3, <3>4, <3>5, <3>6, <3>7 DEF Begin, Read
  <2> QED
    BY <1>1, <2>1, <2>3 DEF KnownDecided, rows
<1>3. ASSUME NEW q \in Requests,
             \/ PaymentStep(q) \/ SubmissionStep(q) \/ ContractActionStep(q)
             \/ DisputeStep(q) \/ End(q)
      PROVE  KnownDecided(d)' /\ refund'[d] = refund[d]
  <2>1. \A r \in Requests : req'[r].dispute[d] \in {"resolved", "unread"}
    <3>1. Idle.dispute[d] = "unread"
      BY DEF Idle
    <3>2. Done(q)
      BY <1>3, HandlerEnds
    <3> QED
      BY <1>1, <3>1, <3>2 DEF Done, TypeOK
  <2>2. ASSUME NEW e \in Disputes,
               \/ OpenDispute(q, e) \/ OpenInvestigation(q, e) \/ RequestEvidence(q, e)
               \/ ReleaseFunds(q, e) \/ RefundBuyer(q, e) \/ CloseCase(q, e)
               \/ \E Refunded \in SUBSET Milestones : PartialRefund(q, e, Refunded)
        PROVE  dispute'[d] = dispute[d] /\ refund'[d] = refund[d]
    <3>1. e # d
      BY <1>1, <2>2
         DEF OpenDispute, OpenInvestigation, InsertDispute, RequestEvidence, ReleaseFunds,
             RefundBuyer, CloseCase, PartialRefund, DisputeLoaded, ActiveDispute
    <3>2. dispute'[d] = dispute[d]
      BY <2>2, <3>1
         DEF OpenDispute, OpenInvestigation, InsertDispute, RequestEvidence, ReleaseFunds,
             RefundBuyer, CloseCase, PartialRefund, Decide, TypeOK
    <3>3. refund'[d] = refund[d]
      BY <2>2, <3>1
         DEF OpenDispute, OpenInvestigation, RequestEvidence, ReleaseFunds, RefundBuyer,
             CloseCase, PartialRefund, RecordRefund, TypeOK
    <3> QED
      BY <3>2, <3>3
  <2>3. dispute'[d] = dispute[d] /\ refund'[d] = refund[d]
    BY <1>3, <2>2
       DEF PaymentStep, FundMilestone, ApproveMilestone, SubmissionStep, SubmitWork,
           ApproveSubmission, RejectSubmission, ContractActionStep, FreezeContract,
           CancelContract, ForceComplete, DisputeStep, End, rows
  <2> QED
    BY <1>1, <2>1, <2>3 DEF KnownDecided
<1>4. CASE UNCHANGED vars
  BY <1>1, <1>4 DEF vars, KnownDecided
<1> QED
  BY <1>2, <1>3, <1>4 DEF Next

\* Once the requests that had read a milestone before have ended, one that
\* stopped being due is never due again, and a settled one is never moved nor
\* invoiced, however many requests overlap from then on; and so with a dispute
\* that was decided.
THEOREM KnownOutcomesAreFinal == Spec => KnownOutcomeIsFinal
<1>1. ASSUME TypeOK, [Next]_vars, NEW m \in Milestones
      PROVE  /\ KnownAs(m, NotDue) => milestone'[m] \in NotDue
             /\ KnownAs(m, Settled) => /\ milestone'[m] = milestone[m]
                                       /\ invoice'[m] = invoice[m]
  <2>1. ASSUME NEW q \in Requests, Begin(q) \/ Read(q)
        PROVE  UNCHANGED <<milestone, invoice>>
    BY <2>1, SelectRows DEF rows
  <2>2. CASE UNCHANGED <<milestone, invoice>>
    BY <2>2 DEF KnownAs
  <2>3. CASE UNCHANGED vars
    BY <2>2, <2>3 DEF vars
  <2> QED
    BY <1>1, <2>1, <2>2, <2>3, HandlersKeep DEF Next
<1>2. ASSUME TypeOK, [Next]_vars, NEW m \in Milestones
      PROVE  /\ KnownAs(m, NotDue) => KnownAs(m, NotDue)'
             /\ KnownAs(m, Settled) => KnownAs(m, Settled)'
  <2>1. KnownAs(m, NotDue) => KnownAs(m, NotDue)'
    BY <1>1, <1>2, KnownStays
  <2>2. KnownAs(m, Settled) => KnownAs(m, Settled)'
    <3>1. KnownAs(m, Settled) => milestone[m] \in Settled
      BY DEF KnownAs
    <3> QED
      BY <1>1, <1>2, <3>1, KnownStays
  <2> QED
    BY <2>1, <2>2
<1>3. TypeOK /\ [Next]_vars =>
          [/\ \A m \in Milestones :
                 /\ KnownAs(m, NotDue) => KnownAs(m, NotDue)'
                 /\ KnownAs(m, Settled) =>
                       /\ KnownAs(m, Settled)'
                       /\ milestone'[m] = milestone[m]
                       /\ invoice'[m] = invoice[m]
           /\ \A d \in Disputes :
                 KnownDecided(d) => KnownDecided(d)' /\ refund'[d] = refund[d]]_vars
  BY <1>1, <1>2, DecidedStays
<1> QED
  BY <1>3, TypeCorrect, PTL DEF Spec, KnownOutcomeIsFinal

-----------------------------------------------------------------------------
(***************************************************************************)
(* A contract that waits for its first payment.                            *)
(*                                                                         *)
(* Nothing writes pending_payment, so such a contract has waited since it  *)
(* was made, and no request can have loaded anything later.  Each handler  *)
(* that would touch it either has loaded what it needs, and then moves the *)
(* contract on in the same step, or has loaded that there is nothing.      *)
(***************************************************************************)

Untouched(status, submitted, disputed) ==
    /\ \A m \in Milestones : status[m] \in {"unread", "pending", "awaiting_payment", "disputed"}
    /\ \A s \in Submissions : submitted[s] \in {"unread", "none"}
    /\ \A d \in Disputes : disputed[d] \in {"unread", "none"}

\* A request that starts from the contract has loaded it.
ContractLoaded ==
    \A q \in Requests : req[q].kind = "contract" => req[q].contract # "unread"

LoadedUntouched ==
    contract = "pending_payment" =>
        \A q \in Requests :
            /\ req[q].contract \in {"unread", "pending_payment"}
            /\ Untouched(req[q].milestone, req[q].submission, req[q].dispute)

PendingInv ==
    /\ ContractLoaded
    /\ PendingPaymentIsUntouched
    /\ LoadedUntouched

LEMMA IdleUntouched ==
    /\ Idle.kind = "idle"
    /\ Idle.contract = "unread"
    /\ Untouched(Idle.milestone, Idle.submission, Idle.dispute)
BY DEF Idle, Untouched

\* Of the handlers only freeze leaves a contract pending, and it moves the
\* milestones to "disputed" at most.
LEMMA PendingStays ==
    ASSUME TypeOK, PendingInv, NEW q \in Requests, contract' = "pending_payment",
           \/ PaymentStep(q) \/ SubmissionStep(q) \/ ContractActionStep(q)
           \/ DisputeStep(q) \/ End(q)
    PROVE  /\ contract = "pending_payment"
           /\ UNCHANGED <<submission, dispute, paid>>
           /\ \A m \in Milestones : milestone'[m] \in {milestone[m], "disputed"}
           /\ Done(q)
<1> USE DEF SetContract, Flushed
<1>1. ASSUME contract # "pending_payment" PROVE FALSE
  <2>1. CASE PaymentStep(q)
    BY <1>1, <2>1 DEF PaymentStep, FundMilestone, ApproveMilestone, Activated
  <2>2. CASE SubmissionStep(q)
    BY <1>1, <2>2 DEF SubmissionStep, SubmitWork, ApproveSubmission, RejectSubmission
  <2>3. CASE ContractActionStep(q)
    BY <1>1, <2>3 DEF ContractActionStep, FreezeContract, CancelContract, ForceComplete
  <2>4. CASE DisputeStep(q)
    BY <1>1, <2>4 DEF DisputeStep, OpenDispute, OpenInvestigation, RequestEvidence,
                      ReleaseFunds, RefundBuyer, PartialRefund, CloseCase, Decide
  <2>5. CASE End(q)
    BY <1>1, <2>5 DEF End, rows
  <2> QED
    BY <2>1, <2>2, <2>3, <2>4, <2>5
<1>2. /\ req[q].contract \in {"unread", "pending_payment"}
      /\ req[q].kind = "contract" => req[q].contract = "pending_payment"
      /\ \A m \in Milestones : req[q].milestone[m] # "funded"
      /\ \A s \in Submissions : req[q].submission[s] \in {"unread", "none"}
      /\ \A d \in Disputes : req[q].dispute[d] \notin ActiveDispute
  BY <1>1 DEF PendingInv, LoadedUntouched, ContractLoaded, Untouched, ActiveDispute
<1>3. CASE PaymentStep(q)
  BY <1>2, <1>3 DEF PaymentStep, FundMilestone, ApproveMilestone, Activated, FundedAsLoaded
<1>4. CASE SubmissionStep(q)
  BY <1>2, <1>4 DEF SubmissionStep, SubmitWork, ApproveSubmission, RejectSubmission
<1>5. CASE ContractActionStep(q)
  BY <1>1, <1>2, <1>5 DEF ContractActionStep, FreezeContract, CancelContract, ForceComplete,
                          AdminLoaded, SetMilestones, Frozen
<1>6. CASE DisputeStep(q)
  <2>1. ASSUME NEW d \in Disputes, OpenDispute(q, d) \/ OpenInvestigation(q, d) PROVE FALSE
    BY <1>2, <2>1 DEF OpenDispute, OpenInvestigation, PartyLoaded, AdminLoaded
  <2>2. ASSUME NEW d \in Disputes, NEW Refunded \in SUBSET Milestones,
               \/ RequestEvidence(q, d) \/ ReleaseFunds(q, d) \/ RefundBuyer(q, d)
               \/ CloseCase(q, d) \/ PartialRefund(q, d, Refunded)
        PROVE  FALSE
    BY <1>2, <2>2 DEF RequestEvidence, ReleaseFunds, RefundBuyer, CloseCase,
                      PartialRefund, DisputeLoaded
  <2> QED
    BY <1>6, <2>1, <2>2 DEF DisputeStep
<1>7. CASE End(q)
  BY <1>1, <1>7 DEF End, rows
<1> QED
  BY <1>3, <1>4, <1>5, <1>6, <1>7

\* A SELECT copies rows nothing has touched into a slot that has loaded
\* nothing touched.
LEMMA PendingSelects ==
    ASSUME TypeOK, PendingInv, NEW q \in Requests, Begin(q) \/ Read(q)
    PROVE  PendingInv'
<1>0. req[q] \in LoadedRows /\ req \in [Requests -> LoadedRows]
  BY DEF TypeOK
<1>1. UNCHANGED rows
  BY DEF Begin, Read, BeginContract, BeginMilestone, BeginDispute, ReadContract,
         ReadMilestones, ReadCollections, ReadDisputes, Load
<1>2. PendingPaymentIsUntouched'
  BY <1>1 DEF PendingInv, PendingPaymentIsUntouched, rows
<1>3. ContractLoaded'
  <2> USE <1>0 DEF PendingInv, ContractLoaded, Load, LoadedRows, Idle, TypeOK, ContractStatus
  <2>1. CASE BeginContract(q)
    BY <2>1 DEF BeginContract
  <2>2. CASE \E m \in Milestones : BeginMilestone(q, m)
    BY <2>2 DEF BeginMilestone
  <2>3. CASE \E d \in Disputes : BeginDispute(q, d)
    BY <2>3 DEF BeginDispute
  <2>4. CASE ReadContract(q)
    BY <2>4 DEF ReadContract
  <2>5. CASE ReadMilestones(q)
    BY <2>5 DEF ReadMilestones
  <2>6. CASE ReadCollections(q)
    BY <2>6 DEF ReadCollections
  <2>7. CASE ReadDisputes(q)
    BY <2>7 DEF ReadDisputes
  <2> QED
    BY <2>1, <2>2, <2>3, <2>4, <2>5, <2>6, <2>7 DEF Begin, Read
<1>4. LoadedUntouched'
  <2> SUFFICES ASSUME contract = "pending_payment", NEW r \in Requests
               PROVE  /\ req'[r].contract \in {"unread", "pending_payment"}
                      /\ Untouched(req'[r].milestone, req'[r].submission, req'[r].dispute)
    BY <1>1 DEF LoadedUntouched, rows
  <2>1. /\ req[r].contract \in {"unread", "pending_payment"}
        /\ Untouched(req[r].milestone, req[r].submission, req[r].dispute)
    BY DEF PendingInv, LoadedUntouched
  <2>2. Untouched(milestone, submission, dispute)
    BY DEF PendingInv, PendingPaymentIsUntouched, Untouched
  <2> USE <1>0, <2>1, <2>2 DEF Load, LoadedRows, Untouched, Idle
  <2>3. CASE BeginContract(q)
    BY <2>3 DEF BeginContract
  <2>4. CASE \E m \in Milestones : BeginMilestone(q, m)
    BY <2>4 DEF BeginMilestone
  <2>5. CASE \E d \in Disputes : BeginDispute(q, d)
    BY <2>5 DEF BeginDispute
  <2>6. CASE ReadContract(q)
    BY <2>6 DEF ReadContract
  <2>7. CASE ReadMilestones(q)
    BY <2>7 DEF ReadMilestones
  <2>8. CASE ReadCollections(q)
    BY <2>8 DEF ReadCollections
  <2>9. CASE ReadDisputes(q)
    BY <2>9 DEF ReadDisputes
  <2> QED
    BY <2>3, <2>4, <2>5, <2>6, <2>7, <2>8, <2>9 DEF Begin, Read
<1> QED
  BY <1>2, <1>3, <1>4 DEF PendingInv

LEMMA PendingWrites ==
    ASSUME TypeOK, PendingInv, NEW q \in Requests,
           \/ PaymentStep(q) \/ SubmissionStep(q) \/ ContractActionStep(q)
           \/ DisputeStep(q) \/ End(q)
    PROVE  PendingInv'
<1>1. Done(q)
  BY DEF PaymentStep, FundMilestone, ApproveMilestone, SubmissionStep, SubmitWork,
         ApproveSubmission, RejectSubmission, ContractActionStep, FreezeContract,
         CancelContract, ForceComplete, DisputeStep, OpenDispute, OpenInvestigation,
         RequestEvidence, ReleaseFunds, RefundBuyer, PartialRefund, CloseCase, End
<1>2. \A r \in Requests : req'[r] = req[r] \/ req'[r] = Idle
  BY <1>1 DEF Done, TypeOK
<1>3. ContractLoaded'
  BY <1>2, IdleUntouched DEF PendingInv, ContractLoaded
<1>4. ASSUME contract' = "pending_payment"
      PROVE  /\ contract = "pending_payment"
             /\ UNCHANGED <<submission, dispute, paid>>
             /\ \A m \in Milestones : milestone'[m] \in {milestone[m], "disputed"}
  BY <1>4, PendingStays
<1>5. PendingPaymentIsUntouched'
  BY <1>4 DEF PendingInv, PendingPaymentIsUntouched
<1>6. LoadedUntouched'
  BY <1>2, <1>4, IdleUntouched DEF PendingInv, LoadedUntouched
<1> QED
  BY <1>3, <1>5, <1>6 DEF PendingInv

LEMMA PendingInvHolds == Spec => []PendingInv
<1>1. Init => PendingInv
  <2> SUFFICES ASSUME Init PROVE PendingInv
    OBVIOUS
  <2>1. \A q \in Requests : req[q] = Idle
    BY DEF Init
  <2>2. ContractLoaded /\ LoadedUntouched
    BY <2>1, IdleUntouched DEF ContractLoaded, LoadedUntouched
  <2>3. PendingPaymentIsUntouched
    BY DEF Init, PendingPaymentIsUntouched
  <2> QED
    BY <2>2, <2>3 DEF PendingInv
<1>2. TypeOK /\ PendingInv /\ [Next]_vars => PendingInv'
  <2>1. ASSUME TypeOK, PendingInv, UNCHANGED vars PROVE PendingInv'
    BY <2>1 DEF vars, PendingInv, ContractLoaded, PendingPaymentIsUntouched,
                LoadedUntouched, Untouched
  <2> QED
    BY <2>1, PendingSelects, PendingWrites DEF Next
<1> QED
  BY <1>1, <1>2, TypeCorrect, PTL DEF Spec

\* However requests overlap, a contract that waits for its first payment has
\* nothing paid, settled, delivered or disputed.
THEOREM PendingIsUntouched == Spec => []PendingPaymentIsUntouched
<1>1. PendingInv => PendingPaymentIsUntouched
  BY DEF PendingInv
<1> QED
  BY <1>1, PendingInvHolds, PTL

-----------------------------------------------------------------------------
(***************************************************************************)
(* What a request that nothing overlaps has loaded is what the rows hold.  *)
(***************************************************************************)
Current(q) ==
    /\ req[q].contract \in {"unread", contract}
    /\ req[q].rfq \in {"unread", rfq}
    /\ \A m \in Milestones : req[q].milestone[m] \in {"unread", milestone[m]}
    /\ \A s \in Submissions : req[q].submission[s] \in {"unread", submission[s]}
    /\ \A d \in Disputes : req[q].dispute[d] \in {"unread", dispute[d]}

LEMMA DoneCurrent ==
    ASSUME TypeOK, NEW q \in Requests, Done(q)
    PROVE  Current(q)'
BY DEF Done, Idle, Current, TypeOK

LEMMA SelectCurrent ==
    ASSUME TypeOK, NEW q \in Requests, Current(q), Begin(q) \/ Read(q)
    PROVE  Current(q)'
<1>1. req[q] \in LoadedRows /\ req \in [Requests -> LoadedRows]
  BY DEF TypeOK
<1>2. UNCHANGED rows
  BY SelectRows
<1> USE DEF rows, Load, Current
<1>3. CASE BeginContract(q)
  BY <1>1, <1>2, <1>3 DEF BeginContract, Idle
<1>4. ASSUME NEW m \in Milestones, BeginMilestone(q, m) PROVE Current(q)'
  BY <1>1, <1>2, <1>4 DEF BeginMilestone, Idle
<1>5. ASSUME NEW d \in Disputes, BeginDispute(q, d) PROVE Current(q)'
  BY <1>1, <1>2, <1>5 DEF BeginDispute, Idle
<1>6. CASE ReadContract(q)
  BY <1>1, <1>2, <1>6 DEF ReadContract, LoadedRows
<1>7. CASE ReadMilestones(q)
  BY <1>1, <1>2, <1>7 DEF ReadMilestones, LoadedRows
<1>8. CASE ReadCollections(q)
  BY <1>1, <1>2, <1>8 DEF ReadCollections, LoadedRows
<1>9. CASE ReadDisputes(q)
  BY <1>1, <1>2, <1>9 DEF ReadDisputes, LoadedRows
<1> QED
  BY <1>3, <1>4, <1>5, <1>6, <1>7, <1>8, <1>9 DEF Begin, Read

\* With no other request running, what a request has loaded of the
\* contract, its milestones and its disputes is what is stored (get_db).
THEOREM RequestsAreCurrent ==
    ASSUME NEW q, Requests = {q}
    PROVE  Spec => []Current(q)
<1>1. Init => Current(q)
  BY DEF Init, Current, Idle
<1>2. TypeOK /\ Current(q) /\ [Next]_vars => Current(q)'
  <2> SUFFICES ASSUME TypeOK, Current(q), [Next]_vars PROVE Current(q)'
    OBVIOUS
  <2>1. CASE Next
    BY <2>1, HandlerEnds, DoneCurrent, SelectCurrent DEF Next
  <2>2. CASE UNCHANGED vars
    BY <2>2 DEF vars, Current
  <2> QED
    BY <2>1, <2>2
<1> QED
  BY <1>1, <1>2, TypeCorrect, PTL DEF Spec

-----------------------------------------------------------------------------
(***************************************************************************)
(* What the handlers do to milestones, payments, invoices and disputes,    *)
(* when each decides on the rows as they are.                              *)
(***************************************************************************)
Unpaid(status) == status \in {"pending", "awaiting_payment"}

Funding(m) ==
    /\ Unpaid(milestone[m])
    /\ milestone' = [milestone EXCEPT ![m] = "funded"]
    /\ paid' = paid \cup {m}
    /\ UNCHANGED <<dispute, invoice, refund>>

Invoicing(m) ==
    /\ milestone[m] = "funded"
    /\ milestone' = [milestone EXCEPT ![m] = "released"]
    /\ invoice' = [invoice EXCEPT ![m] = @ + 1]
    /\ UNCHANGED <<paid, dispute, refund>>

\* The milestones S are released; of the others some become due.
Releasing(S) ==
    /\ \A m \in S : milestone[m] = "funded" /\ milestone'[m] = "released"
    /\ \A m \in Milestones \ S :
          milestone'[m] = milestone[m] \/ (Unpaid(milestone[m]) /\ Unpaid(milestone'[m]))
    /\ UNCHANGED <<paid, dispute, invoice, refund>>

Freezing(S) ==
    /\ \A m \in S : milestone[m] \in Freezable
    /\ \A m \in Milestones : milestone'[m] = IF m \in S THEN "disputed" ELSE milestone[m]
    /\ UNCHANGED <<paid, dispute, invoice, refund>>

\* The decision of dispute d shares the movable milestones out.
Awarding(d, supplier, buyer) ==
    /\ dispute[d] \in ActiveDispute
    /\ dispute' = [dispute EXCEPT ![d] = "resolved"]
    /\ supplier \cap buyer = {}
    /\ supplier \cup buyer = {m \in Milestones : milestone[m] \in Movable}
    /\ \A m \in Milestones : milestone'[m] =
          IF m \in supplier THEN "released" ELSE IF m \in buyer THEN "refunded" ELSE milestone[m]
    /\ \A e \in Disputes \ {d} : refund'[e] = refund[e]
    /\ UNCHANGED <<paid, invoice>>

Closing(d) ==
    /\ dispute[d] \in ActiveDispute
    /\ dispute' = [dispute EXCEPT ![d] = "resolved"]
    /\ UNCHANGED <<milestone, paid, invoice, refund>>

\* A dispute is opened or comes under review.
Disputing(d) ==
    /\ dispute[d] # "resolved"
    /\ dispute'[d] # "resolved"
    /\ \A e \in Disputes \ {d} : dispute'[e] = dispute[e]
    /\ UNCHANGED <<milestone, paid, invoice, refund>>

EscrowStep ==
    \/ \E m \in Milestones : Funding(m) \/ Invoicing(m)
    \/ \E S \in SUBSET Milestones : Releasing(S) \/ Freezing(S)
    \/ \E d \in Disputes :
          \/ \E supplier, buyer \in SUBSET Milestones : Awarding(d, supplier, buyer)
          \/ Closing(d)
          \/ Disputing(d)

\* Nothing that concerns the escrow happens.
LEMMA Idling ==
    ASSUME UNCHANGED <<milestone, paid, dispute, invoice, refund>>
    PROVE  EscrowStep
<1>1. Releasing({})
  BY DEF Releasing
<1> QED
  BY <1>1 DEF EscrowStep

LEMMA PaymentSteps ==
    ASSUME TypeOK, NEW q \in Requests, Current(q), PaymentStep(q) PROVE EscrowStep
<1>1. ASSUME NEW m \in Milestones, FundMilestone(q, m) PROVE Funding(m)
  BY <1>1 DEF FundMilestone, Funding, Unpaid, Current
<1>2. ASSUME NEW m \in Milestones, ApproveMilestone(q, m) PROVE Invoicing(m)
  BY <1>2 DEF ApproveMilestone, FundedAsLoaded, Invoicing, Current
<1> QED
  BY <1>1, <1>2 DEF PaymentStep, EscrowStep

LEMMA SubmissionSteps ==
    ASSUME TypeOK, NEW q \in Requests, Current(q), SubmissionStep(q) PROVE EscrowStep
<1>1. ASSUME NEW s \in Submissions, ApproveSubmission(q, s) PROVE EscrowStep
  <2> DEFINE S == {m \in Milestones : req[q].milestone[m] = "funded"}
  <2>1. Releasing(S)
    BY <1>1 DEF ApproveSubmission, SetMilestones, Flushed, AfterAcceptance, Releasing, Unpaid, Current
  <2> QED
    BY <2>1 DEF EscrowStep
<1>2. ASSUME NEW s \in Submissions, SubmitWork(q, s) \/ RejectSubmission(q, s) PROVE EscrowStep
  BY <1>2, Idling DEF SubmitWork, RejectSubmission
<1> QED
  BY <1>1, <1>2 DEF SubmissionStep

LEMMA ContractActionSteps ==
    ASSUME TypeOK, NEW q \in Requests, Current(q), ContractActionStep(q) PROVE EscrowStep
<1>1. CASE FreezeContract(q)
  <2> DEFINE S == {m \in Milestones : milestone[m] \in Freezable}
  <2>1. Freezing(S)
    BY <1>1
    DEF FreezeContract, AdminLoaded, MilestonesLoaded, SetMilestones, Flushed, Frozen, Freezing, Current
  <2> QED
    BY <2>1 DEF EscrowStep
<1>2. CASE ForceComplete(q)
  <2> DEFINE S == {m \in Milestones : milestone[m] = "funded"}
  <2>1. Releasing(S)
    BY <1>2
    DEF ForceComplete, AdminLoaded, MilestonesLoaded, SetMilestones, Flushed, FundedReleased, Releasing, Current
  <2> QED
    BY <2>1 DEF EscrowStep
<1>3. CASE CancelContract(q)
  BY <1>3, Idling DEF CancelContract
<1> QED
  BY <1>1, <1>2, <1>3 DEF ContractActionStep

LEMMA DisputeSteps ==
    ASSUME TypeOK, NEW q \in Requests, Current(q), DisputeStep(q) PROVE EscrowStep
<1>0. req[q].dispute \in [Disputes -> DisputeStatus \cup {"unread"}]
  BY DEF TypeOK, LoadedRows
<1>1. ASSUME NEW d \in Disputes, InsertDispute(q, d), UNCHANGED <<milestone, paid, invoice, refund>>
      PROVE  EscrowStep
  <2>1. Disputing(d)
    BY <1>1 DEF InsertDispute, Disputing, TypeOK
  <2> QED
    BY <2>1 DEF EscrowStep
<1>2. ASSUME NEW d \in Disputes, RequestEvidence(q, d) PROVE EscrowStep
  <2>1. Disputing(d)
    BY <1>2 DEF RequestEvidence, DisputeLoaded, ActiveDispute, Flushed, Disputing, TypeOK, Current
  <2> QED
    BY <2>1 DEF EscrowStep
\* What every decision is based on.
<1>3. ASSUME NEW d \in Disputes, DisputeLoaded(q, d)
      PROVE  /\ dispute[d] \in ActiveDispute
             /\ \A m \in Milestones : req[q].milestone[m] = milestone[m]
  BY <1>3 DEF DisputeLoaded, MilestonesLoaded, ActiveDispute, Current
<1> DEFINE pool == {m \in Milestones : milestone[m] \in Movable}
<1>4. ASSUME NEW d \in Disputes, ReleaseFunds(q, d) PROVE EscrowStep
  <2>1. Awarding(d, pool, {})
    BY <1>3, <1>4
    DEF ReleaseFunds, Decide, SetMilestones, Flushed, AllReleased, MovedTo, Awarding
  <2> QED
    BY <2>1 DEF EscrowStep
<1>5. ASSUME NEW d \in Disputes, RefundBuyer(q, d) PROVE EscrowStep
  <2>1. Awarding(d, {}, pool)
    BY <1>3, <1>5
    DEF RefundBuyer, RecordRefund, Decide, SetMilestones, Flushed, AllRefunded, MovedTo, Awarding, TypeOK
  <2> QED
    BY <2>1 DEF EscrowStep
<1>6. ASSUME NEW d \in Disputes, NEW Refunded \in SUBSET Milestones, PartialRefund(q, d, Refunded)
      PROVE  EscrowStep
  <2>1. DisputeLoaded(q, d)
    BY <1>6 DEF PartialRefund
  <2>2. pool = {m \in Milestones : req[q].milestone[m] \in Movable}
    BY <1>3, <2>1
  <2>3. Awarding(d, pool \ Refunded, Refunded)
    BY <1>3, <1>6, <2>1, <2>2 DEF PartialRefund, RecordRefund, Decide, Awarding, TypeOK
  <2> QED
    BY <2>3 DEF EscrowStep
<1>7. ASSUME NEW d \in Disputes, CloseCase(q, d) PROVE EscrowStep
  <2>1. Closing(d)
    BY <1>3, <1>7 DEF CloseCase, Decide, Closing
  <2> QED
    BY <2>1 DEF EscrowStep
<1> QED
  BY <1>1, <1>2, <1>4, <1>5, <1>6, <1>7 DEF DisputeStep, OpenDispute, OpenInvestigation

LEMMA Steps ==
    ASSUME NEW q, Requests = {q}, TypeOK, Current(q), [Next]_vars
    PROVE  EscrowStep
<1>1. CASE UNCHANGED rows
  BY <1>1, Idling DEF rows
<1>2. CASE Next
  BY <1>1, <1>2, SelectRows, PaymentSteps, SubmissionSteps, ContractActionSteps, DisputeSteps
  DEF Next, End
<1>3. CASE UNCHANGED vars
  BY <1>1, <1>3 DEF vars, rows
<1> QED
  BY <1>2, <1>3

-----------------------------------------------------------------------------
(***************************************************************************)
(* The rows as an escrow.                                                  *)
(***************************************************************************)

\* Being paid is kept in the status alone: a milestone counts as funded because
\* it was paid, and a paid one never looks unpaid again.
EscrowInv ==
    /\ \A m \in Milestones : milestone[m] = "funded" => m \in paid
    /\ \A m \in Milestones : m \in paid => ~ Unpaid(milestone[m])
    /\ InvoicedStaysReleased

LEMMA EscrowInvInductive ==
    ASSUME TypeOK, EscrowInv, EscrowStep
    PROVE  EscrowInv'
<1> USE DEF EscrowInv, InvoicedStaysReleased, Unpaid, TypeOK
<1>1. ASSUME NEW m \in Milestones, Funding(m) PROVE EscrowInv'
  BY <1>1 DEF Funding
<1>2. ASSUME NEW m \in Milestones, Invoicing(m) PROVE EscrowInv'
  <2>1. invoice[m] = 0
    BY <1>2 DEF Invoicing
  <2> QED
    BY <1>2, <2>1 DEF Invoicing
<1>3. ASSUME NEW S \in SUBSET Milestones, Releasing(S) PROVE EscrowInv'
  BY <1>3 DEF Releasing
<1>4. ASSUME NEW S \in SUBSET Milestones, Freezing(S) PROVE EscrowInv'
  BY <1>4 DEF Freezing, Freezable
<1>5. ASSUME NEW d \in Disputes, NEW supplier \in SUBSET Milestones, NEW buyer \in SUBSET Milestones,
             Awarding(d, supplier, buyer)
      PROVE  EscrowInv'
  BY <1>5 DEF Awarding, Movable
<1>6. ASSUME NEW d \in Disputes, Closing(d) \/ Disputing(d) PROVE EscrowInv'
  BY <1>6 DEF Closing, Disputing
<1> QED
  BY <1>1, <1>2, <1>3, <1>4, <1>5, <1>6 DEF EscrowStep

LEMMA EscrowInvHolds ==
    ASSUME NEW q, Requests = {q}
    PROVE  Spec => []EscrowInv
<1>1. Init => EscrowInv
  BY DEF Init, EscrowInv, InvoicedStaysReleased
<1>2. TypeOK /\ Current(q) /\ EscrowInv /\ [Next]_vars => EscrowInv'
  BY Steps, EscrowInvInductive
<1> QED
  BY <1>1, <1>2, TypeCorrect, RequestsAreCurrent, PTL DEF Spec

\* One request at a time, a milestone is invoiced once, and what was invoiced is
\* never refunded as well (approve_milestone, apply_dispute_action).
THEOREM InvoicedIsReleased ==
    ASSUME NEW q, Requests = {q}
    PROVE  Spec => []InvoicedStaysReleased
<1>1. EscrowInv => InvoicedStaysReleased
  BY DEF EscrowInv
<1> QED
  BY <1>1, EscrowInvHolds, PTL

\* One request at a time, money the escrow holds is on every page it belongs to
\* and on no list of what is still owed (get_dashboard, _escrow_summary,
\* payment_history, pending_payments, supplier_payment_history,
\* supplier_pending_payouts).
THEOREM HeldIsOnThePages ==
    ASSUME NEW q, Requests = {q}
    PROVE  Spec => []HeldIsShownAsHeld
<1>1. TypeOK /\ EscrowInv => HeldIsShownAsHeld
  <2> SUFFICES ASSUME TypeOK, EscrowInv, NEW m \in Held
               PROVE  m \in Milestones /\ milestone[m] \in {"funded", "disputed"}
    BY DEF HeldIsShownAsHeld, With, EscrowBalance, HeldByContract, DisputedByContract,
           History, SupplierHistory, PendingPayouts, PendingPayments, Held
  <2>1. m \in Milestones /\ m \in paid /\ milestone[m] \notin {"released", "refunded"}
    BY DEF Held, PlaceOf
  <2> QED
    BY <2>1 DEF EscrowInv, Unpaid, TypeOK, MilestoneStatus
<1> QED
  BY <1>1, EscrowInvHolds, TypeCorrect, PTL

\* One request at a time, a decided dispute is neither reopened nor paid out a
\* second time (apply_dispute_action).
THEOREM DecisionsAreFinal ==
    ASSUME NEW q, Requests = {q}
    PROVE  Spec => ResolvedIsFinal
<1>1. ASSUME TypeOK, EscrowStep, NEW d \in Disputes, dispute[d] = "resolved"
      PROVE  dispute'[d] = "resolved" /\ refund'[d] = refund[d]
  BY <1>1
  DEF EscrowStep, Funding, Invoicing, Releasing, Freezing, Awarding, Closing, Disputing,
      ActiveDispute, TypeOK
<1>2. TypeOK /\ Current(q) /\ [Next]_vars =>
        [\A d \in Disputes : dispute[d] = "resolved" =>
            dispute'[d] = "resolved" /\ refund'[d] = refund[d]]_vars
  BY <1>1, Steps
<1> QED
  BY <1>2, TypeCorrect, RequestsAreCurrent, PTL DEF Spec, ResolvedIsFinal

-----------------------------------------------------------------------------
(***************************************************************************)
(* The contract implements Escrow.                                         *)
(***************************************************************************)
Place == [m \in Milestones |-> PlaceOf(m)]
FrozenOnes == {m \in Milestones : milestone[m] = "disputed"}
Decided == {d \in Disputes : dispute[d] = "resolved"}

LEMMA EscrowInit == Init => Escrow!Init
BY DEF Init, Escrow!Init, PlaceOf

\* Each kind of step is one of Escrow, or none.
LEMMA EscrowRefines ==
    ASSUME TypeOK, EscrowInv, EscrowStep
    PROVE  [Escrow!Next]_(Escrow!vars)
<1> USE DEF EscrowInv, Unpaid
<1>1. ASSUME NEW m \in Milestones, Funding(m) PROVE Escrow!Pay(m)
  <2>1. m \in Escrow!In("owed") \ FrozenOnes
    BY <1>1 DEF Funding, Escrow!In, PlaceOf, FrozenOnes
  <2>2. Place' = [Place EXCEPT ![m] = "held"]
    BY <1>1 DEF Funding, Place, PlaceOf, TypeOK
  <2>3. FrozenOnes' = FrozenOnes /\ Decided' = Decided
    BY <1>1 DEF Funding, FrozenOnes, Decided, TypeOK
  <2> QED
    BY <2>1, <2>2, <2>3 DEF Escrow!Pay, Place, FrozenOnes, Decided
<1>2. ASSUME NEW m \in Milestones, Invoicing(m) PROVE Escrow!Release({m})
  <2>1. {m} \subseteq Escrow!In("held") \ FrozenOnes
    BY <1>2 DEF Invoicing, Escrow!In, PlaceOf, FrozenOnes
  <2>2. Place' = Escrow!Moved({m}, {})
    BY <1>2 DEF Invoicing, Place, PlaceOf, Escrow!Moved, TypeOK
  <2>3. FrozenOnes' = FrozenOnes /\ Decided' = Decided
    BY <1>2 DEF Invoicing, FrozenOnes, Decided, TypeOK
  <2> QED
    BY <2>1, <2>2, <2>3 DEF Escrow!Release, Place, FrozenOnes, Decided
<1>3. ASSUME NEW S \in SUBSET Milestones, Releasing(S) PROVE Escrow!Release(S)
  <2>1. S \subseteq Escrow!In("held") \ FrozenOnes
    BY <1>3 DEF Releasing, Escrow!In, PlaceOf, FrozenOnes
  <2>2. Place' = Escrow!Moved(S, {})
    BY <1>3 DEF Releasing, Place, PlaceOf, Escrow!Moved, TypeOK
  <2>3. FrozenOnes' = FrozenOnes /\ Decided' = Decided
    BY <1>3 DEF Releasing, FrozenOnes, Decided, TypeOK
  <2> QED
    BY <2>1, <2>2, <2>3 DEF Escrow!Release, Place, FrozenOnes, Decided
<1>4. ASSUME NEW S \in SUBSET Milestones, Freezing(S) PROVE Escrow!Freeze(S)
  <2>1. S \subseteq Escrow!Unsettled
    BY <1>4 DEF Freezing, Freezable, Escrow!Unsettled, Escrow!In, PlaceOf
  <2>2. Place' = Place
    BY <1>4 DEF Freezing, Freezable, Place, PlaceOf
  <2>3. FrozenOnes' = FrozenOnes \cup S /\ Decided' = Decided
    BY <1>4 DEF Freezing, FrozenOnes, Decided
  <2> QED
    BY <2>1, <2>2, <2>3 DEF Escrow!Freeze, Place, FrozenOnes, Decided
<1>5. ASSUME NEW d \in Disputes, NEW supplier \in SUBSET Milestones, NEW buyer \in SUBSET Milestones,
             Awarding(d, supplier, buyer)
      PROVE  Escrow!Award(d, supplier, buyer)
  <2>1. d \notin Decided /\ Decided' = Decided \cup {d}
    BY <1>5 DEF Awarding, Decided, ActiveDispute, TypeOK
  <2>2. Escrow!In("held") \cup FrozenOnes \subseteq supplier \cup buyer
    BY <1>5 DEF Awarding, Movable, Escrow!In, PlaceOf, FrozenOnes, TypeOK, MilestoneStatus
  <2>3. supplier \cup buyer \subseteq Escrow!Unsettled
    BY <1>5 DEF Awarding, Movable, Escrow!Unsettled, Escrow!In, PlaceOf
  <2>4. Place' = Escrow!Moved(supplier, buyer)
    BY <1>5 DEF Awarding, Movable, Place, PlaceOf, Escrow!Moved
  <2>5. FrozenOnes' = {}
    BY <1>5 DEF Awarding, Movable, FrozenOnes
  <2> QED
    BY <1>5, <2>1, <2>2, <2>3, <2>4, <2>5 DEF Awarding, Escrow!Award, Place, FrozenOnes, Decided
<1>6. ASSUME NEW d \in Disputes, Closing(d) PROVE Escrow!Close(d)
  <2>1. d \notin Decided /\ Decided' = Decided \cup {d}
    BY <1>6 DEF Closing, Decided, ActiveDispute, TypeOK
  <2>2. Place' = Place /\ FrozenOnes' = FrozenOnes
    BY <1>6 DEF Closing, Place, PlaceOf, FrozenOnes
  <2> QED
    BY <2>1, <2>2 DEF Escrow!Close, Place, FrozenOnes, Decided
<1>7. ASSUME NEW d \in Disputes, Disputing(d) PROVE UNCHANGED Escrow!vars
  <2>1. Decided' = Decided
    BY <1>7 DEF Disputing, Decided
  <2>2. Place' = Place /\ FrozenOnes' = FrozenOnes
    BY <1>7 DEF Disputing, Place, PlaceOf, FrozenOnes
  <2> QED
    BY <2>1, <2>2 DEF Escrow!vars, Place, FrozenOnes, Decided
<1> QED
  BY <1>1, <1>2, <1>3, <1>4, <1>5, <1>6, <1>7 DEF EscrowStep, Escrow!Next

\* One request at a time, the handlers of ContractService, PaymentService and
\* AdminService keep the promise of Escrow: money that is held stays where the
\* statuses say, moves once, and frozen money by a decision only.
THEOREM ContractsAreEscrows ==
    ASSUME NEW q, Requests = {q}
    PROVE  Spec => ImplementsEscrow
<1>1. TypeOK /\ Current(q) /\ EscrowInv /\ [Next]_vars => [Escrow!Next]_(Escrow!vars)
  BY Steps, EscrowRefines
<1> QED
  BY <1>1, EscrowInit, EscrowInvHolds, TypeCorrect, RequestsAreCurrent, PTL
  DEF Spec, ImplementsEscrow, Escrow!Spec
=============================================================================
