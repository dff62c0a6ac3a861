---------------------------- MODULE MCOrganisation ----------------------------
(***************************************************************************)
(* Two accounts, each of staff or not, and one company.                    *)
(***************************************************************************)
EXTENDS Organisation, TLC

Symmetry == Permutations(Users)
=============================================================================
