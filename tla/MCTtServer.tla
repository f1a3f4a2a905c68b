----------------------------- MODULE MCTtServer -----------------------------
(* Instances of TtServer for TLC.                                          *)
EXTENDS TtServer, FiniteSets, TLC

CONSTANTS MaxDeaths,   \* how many processes die, in the runs that bound it
          Registering, \* the tools that register patterns, in those runs
          p1, p2, p3, m1, m2, op1, pt1

(* m1 is sent by p1, m2 by p2.                                             *)
MCSenderOf == [m \in Msg |-> IF m = m1 THEN p1 ELSE p2]
SenderP1 == [m \in Msg |-> p1]
SameOp == [m \in Msg |-> op1]
Typed == [o \in Op |-> pt1]
Untyped == [o \in Op |-> NoPtype]
Discard == [t \in Ptype |-> {}]
Start == [t \in Ptype |-> {"start"}]
Queue == [t \in Ptype |-> {"queue"}]
StartAndQueue == [t \in Ptype |-> {"start", "queue"}]

(* Forked processes that behave as instances of their ptypes: they declare *)
(* them and join the session, and keep it that way until they close or     *)
(* die.  Tools only send, or they register for an op and stay registered.  *)
PtypeRequest(pr) ==
  \/ /\ pr \notin Tools
     /\ \/ \E pt \in Ptype : DeclarePtype(pr, pt)
        \/ /\ \E op \in Op : [owner |-> pr, session |-> FALSE, dynamic |-> FALSE]
                               \in ToSet(patterns[op])
           /\ JoinSession(pr)
  \/ /\ pr \in Registering
     /\ \E op \in Op : AddPattern(pr, op)

ChildrenAndMessages == Permutations(Proc \ Tools) \union Permutations(Msg)

PtypeNext ==
  \/ ServerStep \/ SigChld \/ NotifyStartFailure
  \/ \E pr \in Proc : \/ MessageRequest(pr) \/ PtypeRequest(pr) \/ ChannelLost(pr)
                      \/ /\ Cardinality({p \in Proc : life[p] = "dead"}) < MaxDeaths
                         /\ Crash(pr)

PtypeSpec == Init /\ [][PtypeNext]_vars

(* A process that is started connects to the server, if it lives.          *)
PtypeFairSpec ==
  PtypeSpec /\ Fairness /\ \A pr \in Proc : SF_vars(Connect(pr))

(* The server waits for a process the instance does not have.              *)
OutOfProcesses == ~Idle /\ ~ENABLED ServerStep

(* Every request comes to an end its sender learns of, unless the sender   *)
(* leaves (ttGuide/ch02.sgm: "either a reply will be returned ...").       *)
EveryRequestEnds ==
  \A msg \in Msg :
    state[msg] = "SENT" ~> \/ sender_copy[msg] \in Final
                           \/ conn[SenderOf[msg]] # "active"
                           \/ OutOfProcesses
=============================================================================
