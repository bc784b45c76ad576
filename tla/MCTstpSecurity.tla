--------------------------- MODULE MCTstpSecurity ---------------------------
(* TstpSecurity with two sensors.                                           *)
EXTENDS TstpSecurity
=============================================================================
