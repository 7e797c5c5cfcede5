--------------------------- MODULE MCExpirationSweep ---------------------------
(***************************************************************************)
(* A small instance of ExpirationSweep for TLC.                            *)
(***************************************************************************)
EXTENDS ExpirationSweep
================================================================================
