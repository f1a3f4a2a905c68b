-------------------------- MODULE MCTtFailedProcs --------------------------
(* The instance of TtFailedProcs for TLC.                                  *)
EXTENDS TtFailedProcs

FairSpec == Spec /\ Fairness
=============================================================================
