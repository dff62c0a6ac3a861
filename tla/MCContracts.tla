----------------------------- MODULE MCContracts -----------------------------
(***************************************************************************)
(* Contracts on small instances.  The ids of requests, milestones,         *)
(* submissions and disputes are interchangeable.                           *)
(***************************************************************************)
EXTENDS ContractPages, TLC

Symmetry ==
    Permutations(Requests) \cup Permutations(Milestones)
        \cup Permutations(Submissions) \cup Permutations(Disputes)
=============================================================================
