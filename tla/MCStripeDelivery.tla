-------------------------- MODULE MCStripeDelivery --------------------------
(* Small instances of StripeDelivery for TLC.                              *)
EXTENDS StripeDelivery
=============================================================================
