-------------------------- MODULE MCSupplierFinance --------------------------
(***************************************************************************)
(* SupplierFinance on small instances; the ids are interchangeable.        *)
(***************************************************************************)
EXTENDS SupplierFinance, TLC

Symmetry == Permutations(Requests) \cup Permutations(Withdrawals)
            \cup Permutations(Invoices)
=============================================================================
