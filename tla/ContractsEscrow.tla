---------------------------- MODULE ContractsEscrow ----------------------------
(***************************************************************************)
(* The rows of Contracts seen as the escrow of Escrow.                     *)
(***************************************************************************)
EXTENDS Contracts

\* An unsettled milestone is held once fund_milestone has funded it: the
\* status "disputed" says whether it is frozen, not whether it was paid.
PlaceOf(m) ==
    IF milestone[m] = "released" THEN "supplier"
    ELSE IF milestone[m] = "refunded" THEN "buyer"
    ELSE IF m \in paid THEN "held" ELSE "owed"

Escrow ==
    INSTANCE Escrow WITH
        Cases   <- Disputes,
        place   <- [m \in Milestones |-> PlaceOf(m)],
        frozen  <- {m \in Milestones : milestone[m] = "disputed"},
        decided <- {d \in Disputes : dispute[d] = "resolved"}

\* Handled one request at a time, the handlers of ContractService,
\* PaymentService and AdminService keep the promise of Escrow: every change
\* of milestones, disputes and payments is one of its steps, or none.
ImplementsEscrow == Escrow!Spec
=============================================================================
