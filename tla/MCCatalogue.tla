----------------------------- MODULE MCCatalogue -----------------------------
(***************************************************************************)
(* Two items, two reports, two requests of one client under way; the plans *)
(* "none" and "start" with their company limits, catalogue limits of one   *)
(* and two items instead of ten.                                           *)
(***************************************************************************)
EXTENDS Catalogue, TLC

PaidPlansMC == {"start"}
CompanyLimitsMC == [p \in Plans |-> IF p = "start" THEN 2 ELSE 1]
CatalogLimitsMC == [p \in Plans |-> IF p = "start" THEN 2 ELSE 1]

Symmetry == Permutations(Items) \cup Permutations(Reports) \cup Permutations(Requests)
=============================================================================
