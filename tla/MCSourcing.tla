------------------------------ MODULE MCSourcing ------------------------------
(***************************************************************************)
(* Sourcing on small instances; the ids are interchangeable.               *)
(***************************************************************************)
EXTENDS Sourcing, TLC

\* RfqCreate.status: whatever the client asks for.
AnyStatus == RfqStatus \ {"deleted"}

Symmetry == Permutations(Requests) \cup Permutations(Suppliers)
=============================================================================
