--------------------------- MODULE MCLedgerAnchor ---------------------------
(* Small instances of LedgerAnchor for TLC.                                *)
EXTENDS LedgerAnchor
=============================================================================
