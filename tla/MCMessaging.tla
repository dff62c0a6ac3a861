----------------------------- MODULE MCMessaging -----------------------------
(***************************************************************************)
(* A chat between a buyer and a supplier.                                  *)
(***************************************************************************)
EXTENDS Messaging
=============================================================================
