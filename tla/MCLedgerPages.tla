---------------------------- MODULE MCLedgerPages ---------------------------
(* The read side of a wallet on a small instance; the cfg gives the values. *)
EXTENDS LedgerPages
=============================================================================
