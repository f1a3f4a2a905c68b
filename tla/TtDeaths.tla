------------------------------ MODULE TtDeaths ------------------------------
(***************************************************************************)
(* What ttsession promises of the processes it started: every death its    *)
(* signal handler records is handed to notify_start_failure once, in the   *)
(* order of the deaths, and none is forgotten.                             *)
(***************************************************************************)
EXTENDS Sequences

CONSTANT Pid

VARIABLE queue      \* deaths recorded and not handed over yet, oldest first

Init == queue = <<>>

Record(p) == queue' = Append(queue, p)

HandOver == queue # <<>> /\ queue' = Tail(queue)

Next == (\E p \in Pid : Record(p)) \/ HandOver

Spec == Init /\ [][Next]_queue
=============================================================================
