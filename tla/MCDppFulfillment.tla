------------------------- MODULE MCDppFulfillment --------------------------
(* Small instances of DppFulfillment for TLC.                              *)
EXTENDS DppFulfillment
=============================================================================
