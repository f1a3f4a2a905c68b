---------------------------- MODULE MCTtSignal ----------------------------
(* Instances of TtSignal for TLC.                                          *)
EXTENDS TtSignal

CONSTANT MaxBytes   \* how many bytes may be on the channel

BoundedNext ==
  \/ /\ flying + arrived < MaxBytes
     /\ \E m \in Msg : AddMessage(m)
  \/ NextMessage \/ Arrive \/ Receive \/ Received

BoundedSpec == Init /\ [][BoundedNext]_vars /\ Fairness
=============================================================================
