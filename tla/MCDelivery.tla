----------------------------- MODULE MCDelivery -----------------------------
(***************************************************************************)
(* Small instances of Delivery.                                            *)
(***************************************************************************)
EXTENDS Delivery
=============================================================================
