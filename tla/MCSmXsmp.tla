----------------------------- MODULE MCSmXsmp -----------------------------
(* SmXsmp for TLC.                                                          *)
EXTENDS SmXsmp

CONSTANTS c1, c2     \* two clients
=============================================================================
