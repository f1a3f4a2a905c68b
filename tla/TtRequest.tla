----------------------------- MODULE TtRequest -----------------------------
(***************************************************************************)
(* What the ToolTalk service promises of a request (ttGuide/ch02.sgm, "The *)
(* ToolTalk service guarantees ..."): one process at a time works on it,   *)
(* a process that refused it is not asked again, it has one outcome, which *)
(* is the worker's answer unless nobody was found to work on it or the     *)
(* worker was lost, and that outcome is what its sender is told.           *)
(***************************************************************************)

CONSTANTS Proc, Msg

VARIABLES
    outcome,    \* none (not sent), open, HANDLED or FAILED
    workers,    \* the processes that work on the request
    refused,    \* the processes that refused it
    told        \* the outcome its sender knows of

vars == <<outcome, workers, refused, told>>

Results == {"HANDLED", "FAILED"}

Init ==
  /\ outcome = [m \in Msg |-> "none"]
  /\ workers = [m \in Msg |-> {}]
  /\ refused = [m \in Msg |-> {}]
  /\ told    = [m \in Msg |-> "open"]

Ask(m) ==
  /\ outcome[m] = "none"
  /\ outcome' = [outcome EXCEPT ![m] = "open"]
  /\ UNCHANGED <<workers, refused, told>>

Take(p, m) ==
  /\ outcome[m] = "open" /\ workers[m] = {} /\ p \notin refused[m]
  /\ workers' = [workers EXCEPT ![m] = {p}]
  /\ UNCHANGED <<outcome, refused, told>>

Refuse(p, m) ==
  /\ workers[m] = {p}
  /\ workers' = [workers EXCEPT ![m] = {}]
  /\ refused' = [refused EXCEPT ![m] = @ \union {p}]
  /\ UNCHANGED <<outcome, told>>

Answer(p, m, result) ==
  /\ outcome[m] = "open" /\ workers[m] = {p}
  /\ workers' = [workers EXCEPT ![m] = {}]
  /\ outcome' = [outcome EXCEPT ![m] = result]
  /\ UNCHANGED <<refused, told>>

(* The worker is lost: the request failed.                                 *)
Lose(p, m) ==
  /\ outcome[m] = "open" /\ workers[m] = {p}
  /\ workers' = [workers EXCEPT ![m] = {}]
  /\ outcome' = [outcome EXCEPT ![m] = "FAILED"]
  /\ UNCHANGED told
  /\ refused' = [refused EXCEPT ![m] = @ \ {p}]

(* A request nobody works on is given up, or a process that is gone is     *)
(* forgotten, or both.                                                     *)
GiveUp(m) ==
  /\ outcome[m] = "open" /\ workers[m] = {}
  /\ outcome' = [outcome EXCEPT ![m] = "FAILED"]
  /\ \E p \in Proc : refused' \in {refused, [refused EXCEPT ![m] = @ \ {p}]}
  /\ UNCHANGED <<workers, told>>

Forget(p, m) ==
  /\ refused' = [refused EXCEPT ![m] = @ \ {p}]
  /\ UNCHANGED <<outcome, workers, told>>

Learn(m) ==
  /\ outcome[m] \in Results
  /\ told' = [told EXCEPT ![m] = outcome[m]]
  /\ UNCHANGED <<outcome, workers, refused>>

Next ==
  \E m \in Msg :
    \/ Ask(m) \/ GiveUp(m) \/ Learn(m)
    \/ \E p \in Proc : \/ Take(p, m) \/ Refuse(p, m) \/ Lose(p, m) \/ Forget(p, m)
                       \/ \E result \in Results : Answer(p, m, result)

Spec == Init /\ [][Next]_vars
=============================================================================
