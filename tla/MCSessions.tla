------------------------------ MODULE MCSessions ------------------------------
(***************************************************************************)
(* Two refresh tokens that live for two seconds, and one login allowed per *)
(* second and a half.                                                      *)
(***************************************************************************)
EXTENDS Sessions, TLC

Symmetry == Permutations(Tokens)
=============================================================================
