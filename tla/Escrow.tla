-------------------------------- MODULE Escrow --------------------------------
(***************************************************************************)
(* What the escrow of a contract promises, whatever rows and statuses it   *)
(* is kept in.  The money of a milestone is owed by the buyer, then held,  *)
(* then with the supplier or back with the buyer, where it stays.  Frozen  *)
(* money moves by the decision of a case only, and a case is decided once. *)
(* A decision settles everything that is held, or nothing; it may also     *)
(* settle what is still owed.                                              *)
(***************************************************************************)
EXTENDS FiniteSets

CONSTANTS
    Milestones,
    Cases

VARIABLES
    place,      \* where the money of a milestone is
    frozen,     \* the milestones under a freeze
    decided     \* the cases decided

vars == <<place, frozen, decided>>

Places == {"owed", "held", "supplier", "buyer"}
In(p) == {m \in Milestones : place[m] = p}
Unsettled == In("owed") \cup In("held")

Init ==
    /\ place = [m \in Milestones |-> "owed"]
    /\ frozen = {}
    /\ decided = {}

Moved(supplier, buyer) ==
    [m \in Milestones |-> IF m \in supplier THEN "supplier"
                          ELSE IF m \in buyer THEN "buyer" ELSE place[m]]

Pay(m) ==
    /\ m \in In("owed") \ frozen
    /\ place' = [place EXCEPT ![m] = "held"]
    /\ UNCHANGED <<frozen, decided>>

Release(S) ==
    /\ S \subseteq In("held") \ frozen
    /\ place' = Moved(S, {})
    /\ UNCHANGED <<frozen, decided>>

Freeze(S) ==
    /\ S \subseteq Unsettled
    /\ frozen' = frozen \cup S
    /\ UNCHANGED <<place, decided>>

Award(c, supplier, buyer) ==
    /\ c \notin decided
    /\ supplier \cap buyer = {}
    /\ In("held") \cup frozen \subseteq supplier \cup buyer
    /\ supplier \cup buyer \subseteq Unsettled
    /\ place' = Moved(supplier, buyer)
    /\ frozen' = {}
    /\ decided' = decided \cup {c}

Close(c) ==
    /\ c \notin decided
    /\ decided' = decided \cup {c}
    /\ UNCHANGED <<place, frozen>>

Next ==
    \/ \E m \in Milestones : Pay(m)
    \/ \E S \in SUBSET Milestones : Release(S) \/ Freeze(S)
    \/ \E c \in Cases :
        \/ \E supplier, buyer \in SUBSET Milestones : Award(c, supplier, buyer)
        \/ Close(c)

Spec == Init /\ [][Next]_vars
=============================================================================
