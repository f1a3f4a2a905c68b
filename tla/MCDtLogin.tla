----------------------------- MODULE MCDtLogin -----------------------------
(* DtLogin for TLC.                                                         *)
EXTENDS DtLogin

CONSTANTS L, F     \* a Local and a Foreign display
=============================================================================
