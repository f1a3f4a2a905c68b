--------------------------- MODULE TtServerProofs ---------------------------
(***************************************************************************)
(* Proofs about TtServer, for any processes, messages, operations, ptypes  *)
(* and dispositions: its type invariant and that no wake-up of a process   *)
(* is lost or left over (SignalInv).                                       *)
(***************************************************************************)
EXTENDS TtServer, SequenceTheorems, TLAPS

-----------------------------------------------------------------------------
(* Sequences.                                                              *)

(* Removing one element leaves a sequence that is shorter by one.          *)
LEMMA RemoveAtProperties ==
  ASSUME NEW S, NEW q \in Seq(S), NEW i \in DOMAIN q
  PROVE  /\ RemoveAt(q, i) \in Seq(S)
         /\ Len(RemoveAt(q, i)) = Len(q) - 1
PROOF
<1>0. Len(q) \in Nat /\ i \in Nat
  OBVIOUS
<1>1. /\ SubSeq(q, 1, i - 1) \in Seq(S)
      /\ Len(SubSeq(q, 1, i - 1)) = i - 1
      /\ \A j \in 1..(i - 1) : SubSeq(q, 1, i - 1)[j] = q[j]
  OBVIOUS
<1>2. /\ SubSeq(q, i + 1, Len(q)) \in Seq(S)
      /\ Len(SubSeq(q, i + 1, Len(q))) = Len(q) - i
      /\ \A j \in 1..(Len(q) - i) : SubSeq(q, i + 1, Len(q))[j] = q[i + j]
  OBVIOUS
<1>3. RemoveAt(q, i) = SubSeq(q, 1, i - 1) \o SubSeq(q, i + 1, Len(q))
  BY DEF RemoveAt
<1> QED
  <2> DEFINE front == SubSeq(q, 1, i - 1)
             back  == SubSeq(q, i + 1, Len(q))
  <2> HIDE DEF front, back
  <2>1. front \o back \in Seq(S) /\ Len(front \o back) = Len(front) + Len(back)
    BY <1>1, <1>2 DEF front, back
  <2> QED
    <3>1. RemoveAt(q, i) = front \o back
      BY <1>3 DEF front, back
    <3>2. Len(front) = i - 1 /\ Len(back) = Len(q) - i
      BY <1>1, <1>2 DEF front, back
    <3>3. (i - 1) + (Len(q) - i) = Len(q) - 1
      BY <1>0
    <3> HIDE DEF front, back
    <3> QED
      BY <2>1, <3>1, <3>2, <3>3

-----------------------------------------------------------------------------
(* The call stack.                                                         *)

(* Calls are well-formed frames.                                           *)
LEMMA Frames ==
  /\ \A fn \in {"deliver", "queue", "report", "start_failed"} : \A msg \in Msg :
       OnMsg(fn, msg) \in Frame /\ OnMsg(fn, msg).fn = fn
  /\ \A fn \in {"deactivate", "orphans"} : \A pr \in Proc :
       OnProc(fn, pr) \in Frame /\ OnProc(fn, pr).fn = fn /\ OnProc(fn, pr).p = pr
  /\ \A fn \in TypeCalls \ ProcCalls : \A pt \in Ptype :
       OnType(fn, pt) \in Frame /\ OnType(fn, pt).fn = fn /\ OnType(fn, pt).t = pt
PROOF
  BY DEF OnMsg, OnProc, OnType, Call, Frame, MsgCalls, ProcCalls, TypeCalls,
         ScanCalls, Answer, Final

(* What the innermost call may be replaced by: a loop only by itself or    *)
(* the next stage of the same loop, a cleanup only by itself or by the     *)
(* call that made the process inactive, and no server step starts a        *)
(* process anew (proc_started).                                            *)
Plain(f) == f \in Frame /\ f.fn \notin Loops /\ f.fn # "orphans"

Pushes(cs) ==
  /\ cs \in Seq(Frame)
  /\ \A i, j \in DOMAIN cs : cs[i].fn \in Loops /\ cs[j].fn \in Loops => i = j
  /\ \A i \in DOMAIN cs :
       /\ cs[i].fn \in Loops => Top.fn \in Loops
       /\ cs[i].fn = "orphans" =>
            \/ Top.fn = "orphans" /\ cs[i] = Top
            \/ Top.fn = "deactivate" /\ conn'[cs[i].p] = "inactive"
       /\ cs[i].fn = "pattern_delivered" =>
            Top.fn = "pattern_added" /\ cs[i].i \in DOMAIN queued
       /\ cs[i].fn = "redelivered" =>
            Top.fn = "redeliver" /\ ptype_queue[cs[i].t] # <<>>
       /\ cs[i].fn # "proc_started"

(* Making no call, or a plain call before others.                          *)
LEMMA PushNothing == Pushes(<<>>)
PROOF
  BY DEF Pushes

LEMMA PushPlain ==
  ASSUME NEW f, Plain(f), NEW rest, Pushes(rest)
  PROVE  Pushes(<<f>> \o rest)
PROOF
<1> DEFINE cs == <<f>> \o rest
<1>1. f \in Frame /\ rest \in Seq(Frame) /\ <<f>> \in Seq(Frame)
  BY DEF Plain, Pushes
<1>2. cs \in Seq(Frame) /\ Len(cs) = Len(rest) + 1
  BY <1>1
<1>3. \A i \in DOMAIN cs :
        \/ i = 1 /\ cs[i] = f
        \/ i # 1 /\ i - 1 \in DOMAIN rest /\ cs[i] = rest[i - 1]
  BY <1>1, <1>2
<1>4. \A i \in DOMAIN cs : i \in Nat
  BY <1>2
<1> HIDE DEF cs
<1>5. /\ f.fn \notin Loops
      /\ f.fn \notin {"orphans", "pattern_delivered", "redelivered", "proc_started"}
  BY DEF Plain, Loops, TypeCalls, ScanCalls
<1>6. \A i, j \in DOMAIN cs : cs[i].fn \in Loops /\ cs[j].fn \in Loops => i = j
  <2> SUFFICES ASSUME NEW i \in DOMAIN cs, NEW j \in DOMAIN cs,
                      cs[i].fn \in Loops, cs[j].fn \in Loops
               PROVE  i = j
    OBVIOUS
  <2>1. /\ i - 1 \in DOMAIN rest /\ rest[i - 1].fn \in Loops
        /\ j - 1 \in DOMAIN rest /\ rest[j - 1].fn \in Loops
    BY <1>3, <1>5
  <2>2. i - 1 = j - 1
    BY <2>1 DEF Pushes
  <2> QED
    BY <2>2, <1>4
<1>7. Pushes(cs)
  BY <1>2, <1>3, <1>5, <1>6 DEF Pushes
<1> QED
  BY <1>7 DEF cs

(* Replacing the innermost call by one other, and by one after a plain one.*)
LEMMA PushOne ==
  ASSUME NEW f \in Frame,
         f.fn # "proc_started",
         f.fn \in Loops => Top.fn \in Loops,
         f.fn = "orphans" =>
           \/ Top.fn = "orphans" /\ f = Top
           \/ Top.fn = "deactivate" /\ conn'[f.p] = "inactive",
         f.fn = "pattern_delivered" => Top.fn = "pattern_added" /\ f.i \in DOMAIN queued,
         f.fn = "redelivered" => Top.fn = "redeliver" /\ ptype_queue[f.t] # <<>>
  PROVE  Pushes(<<f>>)
PROOF
<1>1. <<f>> \in Seq(Frame) /\ DOMAIN <<f>> = {1} /\ <<f>>[1] = f
  OBVIOUS
<1> QED
  BY <1>1 DEF Pushes

LEMMA PushTwo ==
  ASSUME NEW f, Plain(f), NEW g \in Frame, Pushes(<<g>>)
  PROVE  Pushes(<<f, g>>)
PROOF
<1>1. <<f, g>> = <<f>> \o <<g>>
  BY DEF Plain
<1> QED
  BY <1>1, PushPlain

(* The stack after it, element by element.                                 *)
LEMMA ThenElements ==
  ASSUME calls \in Seq(Frame), calls # <<>>, NEW cs \in Seq(Frame), Then(cs)
  PROVE  /\ calls' \in Seq(Frame)
         /\ \A i \in DOMAIN calls' :
              \/ i \in DOMAIN cs /\ calls'[i] = cs[i]
              \/ /\ i \notin DOMAIN cs /\ i - Len(cs) + 1 \in DOMAIN calls
                 /\ i - Len(cs) + 1 # 1
                 /\ calls'[i] = calls[i - Len(cs) + 1]
         /\ 1 \in DOMAIN calls /\ calls[1] = Top /\ Top \in Frame
         /\ \A i \in DOMAIN calls' : i \in Nat
         /\ Len(cs) \in Nat
PROOF
<1>1. calls' = cs \o Tail(calls) /\ Tail(calls) \in Seq(Frame)
  BY DEF Then
<1> QED
  BY <1>1 DEF Top

LEMMA ThenOneLoop ==
  ASSUME calls \in Seq(Frame), calls # <<>>, OneLoop, NEW cs, Pushes(cs), Then(cs)
  PROVE  OneLoop'
PROOF
<1>1. cs \in Seq(Frame)
  BY DEF Pushes
<1>2. /\ \A i \in DOMAIN calls' :
           \/ i \in DOMAIN cs /\ calls'[i] = cs[i]
           \/ /\ i \notin DOMAIN cs /\ i - Len(cs) + 1 \in DOMAIN calls
              /\ i - Len(cs) + 1 # 1
              /\ calls'[i] = calls[i - Len(cs) + 1]
      /\ 1 \in DOMAIN calls /\ calls[1] = Top
      /\ \A i \in DOMAIN calls' : i \in Nat
      /\ Len(cs) \in Nat
  BY <1>1, ThenElements
<1>3. \A i \in DOMAIN calls' : calls'[i].fn \in Loops =>
        \/ i \in DOMAIN cs /\ cs[i].fn \in Loops /\ Top.fn \in Loops
        \/ /\ i \notin DOMAIN cs /\ i - Len(cs) + 1 \in DOMAIN calls
           /\ i - Len(cs) + 1 # 1
           /\ calls[i - Len(cs) + 1].fn \in Loops
  BY <1>2 DEF Pushes
<1> SUFFICES ASSUME NEW i \in DOMAIN calls', NEW j \in DOMAIN calls',
                    calls'[i].fn \in Loops, calls'[j].fn \in Loops
             PROVE  i = j
  BY DEF OneLoop
<1>4. i \in Nat /\ j \in Nat /\ Len(cs) \in Nat
  BY <1>2
<1>5. CASE i \in DOMAIN cs /\ j \in DOMAIN cs
  BY <1>2, <1>5 DEF Pushes
<1>6. CASE i \notin DOMAIN cs /\ j \notin DOMAIN cs
  <2>1. i - Len(cs) + 1 = j - Len(cs) + 1
    BY <1>3, <1>6 DEF OneLoop
  <2> QED
    BY <1>4, <2>1
<1>7. ASSUME Top.fn \in Loops, NEW k \in DOMAIN calls, k # 1, calls[k].fn \in Loops
      PROVE  FALSE
  BY <1>2, <1>7 DEF OneLoop
<1> QED
  BY <1>3, <1>5, <1>6, <1>7

(* The arguments of the innermost call have the types it needs.            *)
LEMMA TopTypes ==
  ASSUME calls \in Seq(Frame), calls # <<>>
  PROVE  /\ Top \in Frame
         /\ Top.i \in Nat \ {0} /\ Top.s \in Answer
         /\ Top.fn \in MsgCalls => Top.m \in Msg
         /\ Top.fn \in ProcCalls => Top.p \in Proc
         /\ Top.fn \in TypeCalls => Top.t \in Ptype
         /\ Top.m \in Msg \union {NoMsg}
PROOF
  BY DEF Top, Frame

(* The handler that a message is delivered to: the owner of the pattern    *)
(* that the scan stops at.                                                 *)
LEMMA HandlerChosen ==
  ASSUME TypeOK, calls # <<>>, DeliverToHandler
  PROVE  /\ Top.m \in Msg /\ Top.fn = "deliver" /\ state[Top.m] = "SENT"
         /\ \E pr \in Proc :
              /\ conn[pr] = "active" /\ pr \notin tried[Top.m]
              /\ handler' = [handler EXCEPT ![Top.m] = pr]
              /\ AddMessage(pr, Top.m, <<>>, <<Top>>)
PROOF
<1>1. calls \in Seq(Frame)
  BY DEF TypeOK
<1>2. Top.fn = "deliver" /\ state[Top.m] = "SENT"
  BY DEF DeliverToHandler, Running
<1>3. Top.m \in Msg
  BY <1>1, <1>2, TopTypes DEF MsgCalls
<1> DEFINE ps == patterns[OpOf[Top.m]]
<1>4. ps \in Seq(Pattern)
  BY <1>3, ConstantsAssumption DEF TypeOK
<1>5. PICK i \in Matches(Top.m) :
        /\ handler' = [handler EXCEPT ![Top.m] = ps[i].owner]
        /\ AddMessage(ps[i].owner, Top.m, <<>>, <<Top>>)
  BY DEF DeliverToHandler
<1>6. /\ i \in DOMAIN ps /\ ps[i].owner \notin tried[Top.m]
      /\ \A j \in 1..i : conn[ps[j].owner] = "active"
  BY DEF Matches
<1> HIDE DEF ps
<1>7. ps[i] \in Pattern /\ i \in 1..i
  BY <1>4, <1>6
<1>8. ps[i].owner \in Proc
  BY <1>7 DEF Pattern
<1>9. conn[ps[i].owner] = "active"
  BY <1>6, <1>7
<1> QED
  BY <1>2, <1>3, <1>5, <1>6, <1>8, <1>9

(* Sending a message and finishing one make well-formed calls.             *)
LEMMA AddMessagePushes ==
  ASSUME NEW pr \in Proc, NEW msg, NEW ok, NEW lost, Pushes(ok), Pushes(lost),
         AddMessage(pr, msg, ok, lost)
  PROVE  \E cs : Pushes(cs) /\ Then(cs)
PROOF
<1>1. Plain(OnProc("deactivate", pr))
  BY Frames DEF Plain, Loops, TypeCalls, ScanCalls
<1>2. Pushes(<<OnProc("deactivate", pr)>> \o lost)
  BY <1>1, PushPlain
<1>3. Then(ok) \/ Then(lost) \/ Then(<<OnProc("deactivate", pr)>> \o lost)
  BY DEF AddMessage
<1> QED
  BY <1>2, <1>3

LEMMA FinishPushes ==
  ASSUME NEW msg \in Msg, NEW s, NEW rest, Pushes(rest), Finish(msg, s, rest)
  PROVE  \E cs : Pushes(cs) /\ Then(cs)
PROOF
<1>1. Plain(OnMsg("report", msg))
  BY Frames DEF Plain, Loops, TypeCalls, ScanCalls
<1>2. Pushes(<<OnMsg("report", msg)>> \o rest)
  BY <1>1, PushPlain
<1> QED
  BY <1>2 DEF Finish

(* Every step of the server replaces the innermost call like that.         *)
LEMMA ServerCalls ==
  ASSUME TypeOK, ServerStep
  PROVE  calls # <<>> /\ \E cs : Pushes(cs) /\ Then(cs)
PROOF
<1> USE DEF Running
<1>a. calls # <<>>
  BY DEF ServerStep, Report, DeliverToHandler, DeliverToNobody, NoHandler,
         NoRecipientsStart, StartFailed, NoRecipientsQueue, Deactivate,
         OrphanUndelivered, OrphanDelivered, OrphansDone, ProcStarted,
         ProcStartedIdly, ProcReplied, Redeliver, Redelivered, LaunchFailed,
         PatternAdded, PatternDelivered, UpdateFinal, UpdateRejected, UpdateUnknown
<1>b. calls \in Seq(Frame) /\ Pushes(<<>>)
  BY PushNothing DEF TypeOK
<1>c. /\ Top \in Frame
      /\ Top.i \in Nat \ {0}
      /\ Top.fn \in MsgCalls => Top.m \in Msg
      /\ Top.fn \in ProcCalls => Top.p \in Proc
      /\ Top.fn \in TypeCalls => Top.t \in Ptype
      /\ Top.m \in Msg \union {NoMsg}
  BY <1>a, <1>b, TopTypes
<1>d. \A fn \in {"deliver", "queue", "report", "start_failed"} : \A msg \in Msg :
        Plain(OnMsg(fn, msg))
  BY Frames DEF Plain, Loops, TypeCalls, ScanCalls
<1>e. Top.fn \in {"deliver", "orphans"} => Pushes(<<Top>>)
  BY <1>c, PushOne DEF Pushes, Loops, TypeCalls, ScanCalls
<1> USE DEF MsgCalls, ProcCalls, TypeCalls
<1>1. CASE Report
  <2>1. SenderOf[Top.m] \in Proc
    BY <1>1, <1>c, ConstantsAssumption DEF Report
  <2> QED
    BY <1>1, <1>a, <1>b, <2>1, AddMessagePushes DEF Report
<1>2. CASE DeliverToHandler
  <2>1. PICK pr \in Proc : AddMessage(pr, Top.m, <<>>, <<Top>>)
    BY <1>2, <1>a, HandlerChosen
  <2>2. Pushes(<<Top>>)
    BY <1>2, <1>e DEF DeliverToHandler
  <2> QED
    BY <2>1, <2>2, <1>a, <1>b, AddMessagePushes
<1>3. CASE DeliverToNobody
  BY <1>3, <1>a, <1>b DEF DeliverToNobody
<1>4. CASE NoRecipientsStart
  <2>1. PICK msg \in Msg :
          \/ Then(<<OnMsg("report", msg), OnMsg("queue", msg)>>)
          \/ Then(<<OnMsg("start_failed", msg)>>)
    BY <1>4 DEF NoRecipientsStart
  <2>2. Plain(OnMsg("report", msg)) /\ Plain(OnMsg("queue", msg))
        /\ Plain(OnMsg("start_failed", msg))
    BY <1>d
  <2>3. Pushes(<<OnMsg("start_failed", msg)>>) /\ Pushes(<<OnMsg("queue", msg)>>)
    BY <2>2, PushOne DEF Plain, Loops, ScanCalls
  <2>4. Pushes(<<OnMsg("report", msg), OnMsg("queue", msg)>>)
    BY <2>2, <2>3, PushTwo DEF Plain
  <2> QED
    BY <2>1, <2>3, <2>4, <1>a
<1>5. CASE StartFailed
  BY <1>5, <1>a, <1>b, <1>c, FinishPushes DEF StartFailed
<1>6. CASE NoRecipientsQueue
  <2>1. PICK msg \in Msg : HonourQueue(msg)
    BY <1>6, <1>c DEF NoRecipientsQueue
  <2>2. Pushes(<<OnMsg("report", msg)>>)
    BY <1>d, PushOne DEF Plain, Loops, ScanCalls
  <2>3. CASE Finish(msg, "FAILED", <<>>)
    BY <2>3, <1>a, <1>b, FinishPushes
  <2>4. CASE ~Finish(msg, "FAILED", <<>>)
    BY <2>1, <2>2, <2>4, <1>a, <1>b DEF HonourQueue
  <2> QED
    BY <2>3, <2>4
<1>7. CASE Deactivate
  <2>1. OnProc("orphans", Top.p) \in Frame /\ OnProc("orphans", Top.p).fn = "orphans"
        /\ OnProc("orphans", Top.p).p = Top.p
    BY <1>7, <1>c, Frames DEF Deactivate
  <2>2. CASE conn[Top.p] = "active"
    <3>1. conn'[Top.p] = "inactive" /\ Then(<<OnProc("orphans", Top.p)>>)
      BY <1>7, <2>2, <1>c DEF Deactivate, TypeOK
    <3>2. Pushes(<<OnProc("orphans", Top.p)>>)
      BY <1>7, <2>1, <3>1, PushOne DEF Deactivate, Loops, ScanCalls
    <3> QED
      BY <3>1, <3>2, <1>a
  <2> QED
    BY <1>7, <2>2, <1>a, <1>b DEF Deactivate
<1>8. CASE OrphanUndelivered
  <2>1. Pushes(<<Top>>)
    BY <1>8, <1>e DEF OrphanUndelivered
  <2>2. Head(undelivered[Top.p]) \in Msg
    BY <1>8, <1>c DEF OrphanUndelivered, TypeOK
  <2>3. \/ Finish(Head(undelivered[Top.p]), "FAILED", <<Top>>)
        \/ Then(<<Top>>)
    BY <1>8 DEF OrphanUndelivered
  <2> QED
    BY <2>1, <2>2, <2>3, <1>a, FinishPushes
<1>9. CASE OrphanDelivered
  <2>1. Pushes(<<Top>>)
    BY <1>9, <1>e DEF OrphanDelivered
  <2>2. Head(delivered[Top.p]) \in Msg
    BY <1>9, <1>c DEF OrphanDelivered, TypeOK
  <2>3. Finish(Head(delivered[Top.p]), "FAILED", <<Top>>)
    BY <1>9 DEF OrphanDelivered
  <2> QED
    BY <2>1, <2>2, <2>3, <1>a, FinishPushes
<1>10. CASE OrphansDone
  BY <1>10, <1>a, <1>b DEF OrphansDone
<1>11. CASE ProcStarted
  <2> DEFINE msg  == Head(ptype_queue[Top.t])
             fail == [OnType("launch_failed", Top.t) EXCEPT !.m = msg]
  <2>1. msg \in Msg /\ Top.t \in Ptype /\ Top.p \in Proc
    BY <1>11, <1>c DEF ProcStarted, TypeOK
  <2> HIDE DEF msg
  <2>2. fail \in Frame /\ fail.fn = "launch_failed"
    <3>1. /\ OnType("launch_failed", Top.t) \in Frame
          /\ OnType("launch_failed", Top.t).fn = "launch_failed"
      BY <2>1, Frames
    <3> QED
      BY <2>1, <3>1 DEF Frame
  <2>3. Pushes(<<fail>>)
    BY <1>11, <2>2, PushOne DEF ProcStarted, Loops
  <2>4. AddMessage(Top.p, msg, <<>>, <<fail>>)
    BY <1>11 DEF ProcStarted, msg
  <2> QED
    BY <2>1, <2>3, <2>4, <1>a, <1>b, AddMessagePushes
<1>12. CASE ProcStartedIdly
  BY <1>12, <1>a, <1>b DEF ProcStartedIdly
<1>13. CASE ProcReplied
  <2>1. /\ OnType("redeliver", Top.t) \in Frame
        /\ OnType("redeliver", Top.t).fn = "redeliver"
    BY <1>13, <1>c, Frames DEF ProcReplied
  <2>2. Pushes(<<OnType("redeliver", Top.t)>>)
    BY <1>13, <2>1, PushOne DEF ProcReplied, Loops
  <2>3. Then(<<OnType("redeliver", Top.t)>>) \/ Then(<<>>)
    BY <1>13 DEF ProcReplied
  <2> QED
    BY <2>2, <2>3, <1>a, <1>b
<1>14. CASE Redeliver
  <2>1. CASE ptype_queue[Top.t] = <<>>
    BY <1>14, <2>1, <1>a, <1>b DEF Redeliver
  <2>2. CASE ptype_queue[Top.t] # <<>>
    <3> DEFINE msg == Head(ptype_queue[Top.t])
    <3>1. msg \in Msg /\ Top.t \in Ptype
      BY <1>14, <2>2, <1>c DEF Redeliver, TypeOK
    <3>2. /\ OnType("redelivered", Top.t) \in Frame
          /\ OnType("redelivered", Top.t).fn = "redelivered"
          /\ OnType("redelivered", Top.t).t = Top.t
      BY <3>1, Frames
    <3>3. Pushes(<<OnType("redelivered", Top.t)>>)
      BY <1>14, <2>2, <3>2, PushOne DEF Redeliver, Loops
    <3>4. Pushes(<<OnMsg("deliver", msg), OnType("redelivered", Top.t)>>)
      BY <3>1, <3>2, <3>3, <1>d, PushTwo
    <3> QED
      BY <1>14, <2>2, <3>4, <1>a DEF Redeliver
  <2> QED
    BY <2>1, <2>2
<1>15. CASE Redelivered
  <2>1. /\ OnType("redeliver", Top.t) \in Frame
        /\ OnType("redeliver", Top.t).fn = "redeliver"
    BY <1>15, <1>c, Frames DEF Redelivered
  <2>2. Pushes(<<OnType("redeliver", Top.t)>>)
    BY <1>15, <2>1, PushOne DEF Redelivered, Loops
  <2>3. Then(<<OnType("redeliver", Top.t)>>) \/ Then(<<>>)
    BY <1>15 DEF Redelivered
  <2> QED
    BY <2>2, <2>3, <1>a, <1>b
<1>16. CASE LaunchFailed
  <2> DEFINE again == OnType("launch_failed", Top.t)
  <2>1. again \in Frame /\ again.fn = "launch_failed" /\ Top.t \in Ptype
    BY <1>16, <1>c, Frames DEF LaunchFailed
  <2> HIDE DEF again
  <2>2. Pushes(<<again>>)
    BY <1>16, <2>1, PushOne DEF LaunchFailed, Loops
  <2>3. CASE Top.m # NoMsg
    <3>1. Finish(Top.m, "FAILED", <<again>>) /\ Top.m \in Msg
      BY <1>16, <2>3, <1>c DEF LaunchFailed, again
    <3> QED
      BY <3>1, <2>2, <1>a, FinishPushes
  <2>4. CASE Top.m = NoMsg /\ ptype_queue[Top.t] # <<>>
    <3>1. /\ Finish(Head(ptype_queue[Top.t]), "FAILED", <<again>>)
          /\ Head(ptype_queue[Top.t]) \in Msg
      BY <1>16, <2>1, <2>4 DEF LaunchFailed, again, TypeOK
    <3> QED
      BY <3>1, <2>2, <1>a, FinishPushes
  <2>5. CASE Top.m = NoMsg /\ ptype_queue[Top.t] = <<>>
    BY <1>16, <2>5, <1>a, <1>b DEF LaunchFailed
  <2> QED
    BY <2>3, <2>4, <2>5
<1>17. CASE PatternAdded
  <2>1. CASE Top.i > Len(queued)
    BY <1>17, <2>1, <1>a, <1>b DEF PatternAdded
  <2>2. CASE ~(Top.i > Len(queued))
    <3> DEFINE msg == queued[Top.i]
               wait == [Top EXCEPT !.fn = "pattern_delivered"]
    <3>1. msg \in Msg /\ Top.i \in DOMAIN queued
      BY <2>2, <1>c DEF TypeOK
    <3>2. wait \in Frame /\ wait.fn = "pattern_delivered" /\ wait.i = Top.i
      BY <1>17, <1>c DEF PatternAdded, Frame, ScanCalls
    <3>3. Pushes(<<wait>>)
      BY <1>17, <3>1, <3>2, PushOne DEF PatternAdded, Loops, ScanCalls
    <3>4. Pushes(<<OnMsg("deliver", msg), wait>>)
      BY <3>1, <3>2, <3>3, <1>d, PushTwo
    <3> QED
      BY <1>17, <2>2, <3>4, <1>a DEF PatternAdded
  <2> QED
    BY <2>1, <2>2
<1>18. CASE PatternDelivered
  <2> DEFINE again == [Top EXCEPT !.fn = "pattern_added"]
             next  == [Top EXCEPT !.fn = "pattern_added", !.i = @ + 1]
  <2>1. /\ again \in Frame /\ again.fn = "pattern_added"
        /\ next \in Frame /\ next.fn = "pattern_added"
    <3>1. Top.i + 1 \in Nat \ {0}
      BY <1>c
    <3>2. again \in Frame /\ again.fn = "pattern_added"
      BY <1>c DEF Frame, ScanCalls
    <3>3. next \in Frame /\ next.fn = "pattern_added"
      BY <1>c, <3>1 DEF Frame, ScanCalls
    <3> QED
      BY <3>2, <3>3
  <2>2. Pushes(<<again>>) /\ Pushes(<<next>>)
    BY <1>18, <2>1, PushOne DEF PatternDelivered, Loops, ScanCalls
  <2>3. Then(<<again>>) \/ Then(<<next>>)
    BY <1>18 DEF PatternDelivered
  <2> QED
    BY <2>2, <2>3, <1>a
<1>19. CASE UpdateFinal
  BY <1>19, <1>a, <1>b, <1>c, FinishPushes DEF UpdateFinal
<1>20. CASE UpdateRejected
  <2>1. Pushes(<<OnMsg("deliver", Top.m)>>)
    BY <1>20, <1>c, <1>d, PushOne DEF UpdateRejected, Plain, Loops, ScanCalls
  <2> QED
    BY <1>20, <2>1, <1>a DEF UpdateRejected
<1>21. CASE UpdateUnknown
  BY <1>21, <1>a, <1>b DEF UpdateUnknown
<1> QED
  BY <1>1, <1>2, <1>3, <1>4, <1>5, <1>6, <1>7, <1>8, <1>9, <1>10, <1>11, <1>12,
     <1>13, <1>14, <1>15, <1>16, <1>17, <1>18, <1>19, <1>20, <1>21
  DEF ServerStep

-----------------------------------------------------------------------------
(* Types.                                                                  *)

(* What the actions are built from keeps the types.                        *)
LEMMA AddMessageTypes ==
  ASSUME TypeOK, NEW pr \in Proc, NEW msg \in Msg, NEW ok, NEW lost,
         AddMessage(pr, msg, ok, lost)
  PROVE  undelivered' \in [Proc -> Seq(Msg)] /\ signalled' \in [Proc -> BOOLEAN]
PROOF
<1>1. undelivered[pr] \in Seq(Msg)
  BY DEF TypeOK
<1>2. ASSUME NEW i \in DOMAIN undelivered[pr]
      PROVE  Append(RemoveAt(undelivered[pr], i), msg) \in Seq(Msg)
  BY <1>1, RemoveAtProperties
<1>3. Append(undelivered[pr], msg) \in Seq(Msg)
  BY <1>1
<1>4. \/ UNCHANGED undelivered
      \/ \E i \in DOMAIN undelivered[pr] :
           undelivered' = [undelivered EXCEPT ![pr] = Append(RemoveAt(@, i), msg)]
      \/ undelivered' = [undelivered EXCEPT ![pr] = Append(@, msg)]
  BY DEF AddMessage
<1>5. UNCHANGED signalled \/ signalled' = [signalled EXCEPT ![pr] = TRUE]
  BY DEF AddMessage
<1>6. undelivered' \in [Proc -> Seq(Msg)]
  <2>1. undelivered \in [Proc -> Seq(Msg)]
    BY DEF TypeOK
  <2> QED
    BY <1>2, <1>3, <1>4, <2>1
<1>7. signalled' \in [Proc -> BOOLEAN]
  BY <1>5 DEF TypeOK
<1> QED
  BY <1>6, <1>7

(* The state a request is put in is recorded.                              *)
LEMMA StateTypes ==
  ASSUME TypeOK, NEW msg \in Msg, NEW s \in MsgState,
         state' = [state EXCEPT ![msg] = s],
         state_reported' = [state_reported EXCEPT ![msg] = @ \union {s}]
  PROVE  state' \in [Msg -> MsgState] /\ state_reported' \in [Msg -> SUBSET MsgState]
PROOF
<1>1. state \in [Msg -> MsgState] /\ state_reported \in [Msg -> SUBSET MsgState]
  BY DEF TypeOK
<1>2. state_reported[msg] \union {s} \in SUBSET MsgState
  BY <1>1
<1> QED
  BY <1>1, <1>2

LEMMA FinishTypes ==
  ASSUME TypeOK, NEW msg \in Msg, NEW s \in Final, NEW rest, Finish(msg, s, rest)
  PROVE  state' \in [Msg -> MsgState] /\ state_reported' \in [Msg -> SUBSET MsgState]
PROOF
<1>1. s \in MsgState
  BY DEF MsgState
<1>2. CASE s \in state_reported[msg]
  BY <1>2 DEF Finish, TypeOK
<1>3. CASE s \notin state_reported[msg]
  BY <1>1, <1>3, StateTypes DEF Finish
<1> QED
  BY <1>2, <1>3

LEMMA ForkTypes ==
  ASSUME TypeOK, NEW pt \in Ptype, Fork(pt) \/ ForkFails(pt)
  PROVE  /\ life' \in [Proc -> {"unborn", "running", "dead"}]
         /\ start_token' \in [Proc -> Ptype \union {NoPtype}]
         /\ zombies' \subseteq Proc /\ failed_procs' \subseteq Proc
         /\ sigchld' \in BOOLEAN /\ merged' \in BOOLEAN
         /\ launching' \in [Ptype -> BOOLEAN]
         /\ start_pid' \in [Ptype -> Proc \union {NoProc}]
PROOF
<1>1. CASE Fork(pt)
  BY <1>1 DEF Fork, TypeOK
<1>2. CASE ForkFails(pt)
  BY <1>2 DEF ForkFails, TypeOK, childVars
<1> QED
  BY <1>1, <1>2

LEMMA WithoutType ==
  ASSUME NEW ps \in Seq(Pattern), NEW pr
  PROVE  Without(ps, pr) \in Seq(Pattern)
PROOF
<1>1. CASE \E i \in DOMAIN ps : ps[i].owner = pr
  <2> DEFINE i == CHOOSE i \in DOMAIN ps : ps[i].owner = pr
  <2>1. i \in DOMAIN ps
    BY <1>1
  <2> HIDE DEF i
  <2>2. RemoveAt(ps, i) \in Seq(Pattern)
    BY <2>1, RemoveAtProperties
  <2> QED
    BY <1>1, <2>2 DEF Without, i
<1>2. CASE ~\E i \in DOMAIN ps : ps[i].owner = pr
  BY <1>2 DEF Without
<1> QED
  BY <1>1, <1>2

LEMMA TakeDeliveredType ==
  ASSUME TypeOK, NEW pr \in Proc, NEW msg \in Msg, TakeDelivered(pr, msg)
  PROVE  delivered' \in [Proc -> Seq(Msg)]
PROOF
<1>1. PICK i \in DOMAIN delivered[pr] :
        delivered' = [delivered EXCEPT ![pr] = RemoveAt(@, i)]
  BY DEF TakeDelivered
<1>2. RemoveAt(delivered[pr], i) \in Seq(Msg)
  BY RemoveAtProperties DEF TypeOK
<1> QED
  BY <1>1, <1>2 DEF TypeOK

(* A step of the server keeps the types.                                   *)
LEMMA ServerTypes ==
  ASSUME TypeOK, StartsHavePtype, LoopsInBounds, ServerStep
  PROVE  TypeOK'
PROOF
<1> USE DEF Running, childVars, procVars, msgVars, queueVars
<1>a. calls' \in Seq(Frame)
  BY ServerCalls, ThenElements DEF TypeOK, Pushes
<1>b. calls # <<>> /\ calls \in Seq(Frame)
  BY ServerCalls DEF TypeOK
<1>c. /\ Top.s \in Answer
      /\ Top.fn \in MsgCalls => Top.m \in Msg
      /\ Top.fn \in ProcCalls => Top.p \in Proc
      /\ Top.fn \in TypeCalls => Top.t \in Ptype
      /\ Top.m \in Msg \union {NoMsg} /\ Top.i \in Nat \ {0}
  BY <1>b, TopTypes
<1>d. \A msg \in Msg : SenderOf[msg] \in Proc /\ OpOf[msg] \in Op
  BY ConstantsAssumption
<1> USE DEF MsgCalls, ProcCalls, TypeCalls
<1>1. CASE Report
  <2>1. undelivered' \in [Proc -> Seq(Msg)] /\ signalled' \in [Proc -> BOOLEAN]
    BY <1>1, <1>c, <1>d, AddMessageTypes DEF Report
  <2> QED
    BY <1>1, <1>a, <2>1 DEF Report, TypeOK
<1>2. CASE DeliverToHandler
  <2>1. PICK pr \in Proc : /\ AddMessage(pr, Top.m, <<>>, <<Top>>)
                           /\ handler' = [handler EXCEPT ![Top.m] = pr]
                           /\ Top.m \in Msg
    BY <1>2, <1>b, HandlerChosen
  <2>2. undelivered' \in [Proc -> Seq(Msg)] /\ signalled' \in [Proc -> BOOLEAN]
    BY <2>1, AddMessageTypes
  <2>3. handler' \in [Msg -> Proc \union {NoProc}] /\ ret' \in BOOLEAN
    BY <1>2, <2>1 DEF DeliverToHandler, TypeOK
  <2> QED
    BY <1>2, <1>a, <2>2, <2>3 DEF DeliverToHandler, TypeOK
<1>3. CASE DeliverToNobody
  BY <1>3, <1>a DEF DeliverToNobody, TypeOK
<1>4. CASE NoRecipientsStart
  <2>1. PICK msg \in Msg :
          /\ StartsAnew(msg)
          /\ state' = [state EXCEPT ![msg] = "STARTED"]
          /\ state_reported' = [state_reported EXCEPT ![msg] = @ \union {"STARTED"}]
          /\ \/ UNCHANGED <<childVars, launching, start_pid>>
             \/ Fork(SigPtype[OpOf[msg]])
             \/ ForkFails(SigPtype[OpOf[msg]])
          /\ \/ ptype_queue' =
                  [ptype_queue EXCEPT ![SigPtype[OpOf[msg]]] = Append(@, msg)]
             \/ UNCHANGED ptype_queue
    BY <1>4 DEF NoRecipientsStart
  <2>2. SigPtype[OpOf[msg]] \in Ptype
    BY <2>1 DEF StartsHavePtype, StartsAnew
  <2>3. state' \in [Msg -> MsgState] /\ state_reported' \in [Msg -> SUBSET MsgState]
    BY <2>1, StateTypes DEF MsgState, Open
  <2>4. /\ life' \in [Proc -> {"unborn", "running", "dead"}]
        /\ start_token' \in [Proc -> Ptype \union {NoPtype}]
        /\ zombies' \subseteq Proc /\ failed_procs' \subseteq Proc
        /\ sigchld' \in BOOLEAN /\ merged' \in BOOLEAN
        /\ launching' \in [Ptype -> BOOLEAN]
        /\ start_pid' \in [Ptype -> Proc \union {NoProc}]
    BY <2>1, <2>2, ForkTypes DEF TypeOK
  <2>5. ptype_queue' \in [Ptype -> Seq(Msg)]
    <3> DEFINE pt == SigPtype[OpOf[msg]]
    <3>1. ptype_queue[pt] \in Seq(Msg)
      BY <2>2 DEF TypeOK
    <3>2. Append(ptype_queue[pt], msg) \in Seq(Msg)
      BY <3>1
    <3> QED
      BY <2>1, <2>2, <3>2 DEF TypeOK
  <2> QED
    <3>1. /\ UNCHANGED <<conn, signalled, undelivered, delivered, start_copies, patterns,
                         handler, tried, reliability, start_message, sender_copy, queued>>
          /\ ret' = FALSE
      BY <1>4 DEF NoRecipientsStart, procVars
    <3> QED
      BY <1>a, <2>3, <2>4, <2>5, <3>1 DEF TypeOK
<1>5. CASE StartFailed
  <2>1. state' \in [Msg -> MsgState] /\ state_reported' \in [Msg -> SUBSET MsgState]
    BY <1>5, <1>c, FinishTypes DEF StartFailed, Final
  <2> QED
    BY <1>5, <1>a, <1>c, <2>1 DEF StartFailed, TypeOK
<1>6. CASE NoRecipientsQueue
  <2>1. PICK msg \in Msg : HonourQueue(msg)
    BY <1>6, <1>c DEF NoRecipientsQueue
  <2>2. /\ state' \in [Msg -> MsgState] /\ state_reported' \in [Msg -> SUBSET MsgState]
        /\ queued' \in Seq(Msg)
    <3>1. CASE Finish(msg, "FAILED", <<>>) /\ UNCHANGED queued
      BY <3>1, FinishTypes DEF TypeOK, Final
    <3>2. CASE ~(Finish(msg, "FAILED", <<>>) /\ UNCHANGED queued)
      <4>1. \/ /\ state' = [state EXCEPT ![msg] = "QUEUED"]
               /\ state_reported' = [state_reported EXCEPT ![msg] = @ \union {"QUEUED"}]
               /\ queued' = Append(queued, msg)
            \/ UNCHANGED <<state, state_reported, queued>>
        BY <2>1, <3>2 DEF HonourQueue
      <4>2. Append(queued, msg) \in Seq(Msg)
        BY DEF TypeOK
      <4>3. "QUEUED" \in MsgState
        BY DEF MsgState, Open
      <4> QED
        BY <4>1, <4>2, <4>3, StateTypes DEF TypeOK
    <3> QED
      BY <3>1, <3>2
  <2>3. ret' \in BOOLEAN
    BY <1>6 DEF NoRecipientsQueue, TypeOK
  <2> QED
    BY <1>6, <1>a, <2>2, <2>3 DEF NoRecipientsQueue, TypeOK
<1>7. CASE Deactivate
  BY <1>7, <1>a, <1>c DEF Deactivate, TypeOK
<1>8. CASE OrphanUndelivered
  <2> DEFINE msg == Head(undelivered[Top.p])
  <2>1. Top.p \in Proc /\ msg \in Msg /\ Tail(undelivered[Top.p]) \in Seq(Msg)
    BY <1>8, <1>c DEF OrphanUndelivered, TypeOK
  <2>2. Finish(msg, "FAILED", <<Top>>) \/ UNCHANGED <<state, state_reported>>
    BY <1>8 DEF OrphanUndelivered
  <2>3. /\ undelivered' = [undelivered EXCEPT ![Top.p] = Tail(@)]
        /\ tried' = [tried EXCEPT ![msg] = @ \ {Top.p}]
    BY <1>8 DEF OrphanUndelivered
  <2> HIDE DEF msg
  <2>4. state' \in [Msg -> MsgState] /\ state_reported' \in [Msg -> SUBSET MsgState]
    BY <2>1, <2>2, FinishTypes DEF TypeOK, Final
  <2>5. undelivered' \in [Proc -> Seq(Msg)] /\ tried' \in [Msg -> SUBSET Proc]
    BY <2>1, <2>3 DEF TypeOK
  <2> QED
    BY <1>8, <1>a, <2>4, <2>5 DEF OrphanUndelivered, TypeOK
<1>9. CASE OrphanDelivered
  <2> DEFINE msg == Head(delivered[Top.p])
  <2>1. Top.p \in Proc /\ msg \in Msg /\ Tail(delivered[Top.p]) \in Seq(Msg)
    BY <1>9, <1>c DEF OrphanDelivered, TypeOK
  <2>2. Finish(msg, "FAILED", <<Top>>)
    BY <1>9 DEF OrphanDelivered
  <2>3. /\ delivered' = [delivered EXCEPT ![Top.p] = Tail(@)]
        /\ tried' = [tried EXCEPT ![msg] = @ \ {Top.p}]
    BY <1>9 DEF OrphanDelivered
  <2> HIDE DEF msg
  <2>4. state' \in [Msg -> MsgState] /\ state_reported' \in [Msg -> SUBSET MsgState]
    BY <2>1, <2>2, FinishTypes DEF TypeOK, Final
  <2>5. delivered' \in [Proc -> Seq(Msg)] /\ tried' \in [Msg -> SUBSET Proc]
    BY <2>1, <2>3 DEF TypeOK
  <2> QED
    BY <1>9, <1>a, <2>4, <2>5 DEF OrphanDelivered, TypeOK
<1>10. CASE OrphansDone
  <2>1. patterns' \in [Op -> Seq(Pattern)]
    <3>1. \A op \in Op : Without(patterns[op], Top.p) \in Seq(Pattern)
      BY WithoutType DEF TypeOK
    <3> QED
      BY <1>10, <3>1 DEF OrphansDone
  <2> QED
    BY <1>10, <1>a, <2>1 DEF OrphansDone, TypeOK
<1>11. CASE ProcStarted
  <2> DEFINE msg == Head(ptype_queue[Top.t])
  <2>1. /\ Top.t \in Ptype /\ Top.p \in Proc /\ msg \in Msg
        /\ Tail(ptype_queue[Top.t]) \in Seq(Msg)
    BY <1>11, <1>c DEF ProcStarted, TypeOK
  <2>2. PICK lost : AddMessage(Top.p, msg, <<>>, lost)
    BY <1>11 DEF ProcStarted
  <2>3. /\ handler' = [handler EXCEPT ![msg] = Top.p]
        /\ start_message' = [start_message EXCEPT ![msg] = TRUE]
        /\ ptype_queue' = [ptype_queue EXCEPT ![Top.t] = Tail(@)]
    BY <1>11 DEF ProcStarted
  <2> HIDE DEF msg
  <2>4. undelivered' \in [Proc -> Seq(Msg)] /\ signalled' \in [Proc -> BOOLEAN]
    BY <2>1, <2>2, AddMessageTypes
  <2>5. /\ handler' \in [Msg -> Proc \union {NoProc}]
        /\ start_message' \in [Msg -> BOOLEAN]
        /\ ptype_queue' \in [Ptype -> Seq(Msg)]
    BY <2>1, <2>3 DEF TypeOK
  <2> QED
    BY <1>11, <1>a, <2>4, <2>5 DEF ProcStarted, TypeOK
<1>12. CASE ProcStartedIdly
  BY <1>12, <1>a DEF ProcStartedIdly, TypeOK
<1>13. CASE ProcReplied
  BY <1>13, <1>a DEF ProcReplied, TypeOK
<1>14. CASE Redeliver
  BY <1>14, <1>a DEF Redeliver, TypeOK, MsgState, Open
<1>15. CASE Redelivered
  <2>1. Top.t \in Ptype /\ ptype_queue[Top.t] # <<>> /\ ptype_queue[Top.t] \in Seq(Msg)
    <3>1. Top.t \in Ptype /\ 1 \in DOMAIN calls /\ calls[1] = Top
      BY <1>15, <1>b, <1>c DEF Redelivered, Top
    <3> QED
      BY <1>15, <3>1 DEF Redelivered, LoopsInBounds, TypeOK
  <2>2. Tail(ptype_queue[Top.t]) \in Seq(Msg)
    BY <2>1
  <2>3. ptype_queue' \in [Ptype -> Seq(Msg)]
    BY <1>15, <2>1, <2>2 DEF Redelivered, TypeOK
  <2>4. /\ life' \in [Proc -> {"unborn", "running", "dead"}]
        /\ start_token' \in [Proc -> Ptype \union {NoPtype}]
        /\ zombies' \subseteq Proc /\ failed_procs' \subseteq Proc
        /\ sigchld' \in BOOLEAN /\ merged' \in BOOLEAN
        /\ launching' \in [Ptype -> BOOLEAN]
        /\ start_pid' \in [Ptype -> Proc \union {NoProc}]
    <3>1. CASE Fork(Top.t) \/ ForkFails(Top.t)
      BY <2>1, <3>1, ForkTypes
    <3>2. CASE UNCHANGED <<childVars, launching, start_pid>>
      BY <3>2 DEF TypeOK
    <3> QED
      BY <1>15, <3>1, <3>2 DEF Redelivered
  <2> QED
    BY <1>15, <1>a, <2>3, <2>4 DEF Redelivered, TypeOK
<1>16. CASE LaunchFailed
  <2> DEFINE msg  == Head(ptype_queue[Top.t])
             rest == <<OnType("launch_failed", Top.t)>>
  <2>1. Top.t \in Ptype
    BY <1>16, <1>c DEF LaunchFailed
  <2>2. CASE Top.m # NoMsg
    <3>1. Finish(Top.m, "FAILED", rest) /\ Top.m \in Msg
      BY <1>16, <2>2, <1>c DEF LaunchFailed
    <3>2. state' \in [Msg -> MsgState] /\ state_reported' \in [Msg -> SUBSET MsgState]
      BY <3>1, FinishTypes DEF Final
    <3> QED
      BY <1>16, <2>2, <1>a, <3>2 DEF LaunchFailed, TypeOK
  <2>3. CASE Top.m = NoMsg /\ ptype_queue[Top.t] # <<>>
    <3>1. /\ msg \in Msg /\ Tail(ptype_queue[Top.t]) \in Seq(Msg)
          /\ Finish(msg, "FAILED", rest)
          /\ ptype_queue' = [ptype_queue EXCEPT ![Top.t] = Tail(@)]
      BY <1>16, <2>1, <2>3 DEF LaunchFailed, TypeOK
    <3> HIDE DEF msg, rest
    <3>2. state' \in [Msg -> MsgState] /\ state_reported' \in [Msg -> SUBSET MsgState]
      BY <3>1, FinishTypes DEF Final
    <3>3. ptype_queue' \in [Ptype -> Seq(Msg)]
      BY <2>1, <3>1 DEF TypeOK
    <3> QED
      BY <1>16, <2>3, <1>a, <3>2, <3>3 DEF LaunchFailed, TypeOK
  <2>4. CASE Top.m = NoMsg /\ ptype_queue[Top.t] = <<>>
    BY <1>16, <2>4, <1>a DEF LaunchFailed, TypeOK
  <2> QED
    BY <2>2, <2>3, <2>4
<1>17. CASE PatternAdded
  BY <1>17, <1>a DEF PatternAdded, TypeOK, MsgState, Open
<1>18. CASE PatternDelivered
  <2>1. Top.i \in DOMAIN queued /\ queued \in Seq(Msg)
    <3>1. 1 \in DOMAIN calls /\ calls[1] = Top
      BY <1>b DEF Top
    <3> QED
      BY <1>18, <3>1 DEF PatternDelivered, LoopsInBounds, TypeOK
  <2>2. RemoveAt(queued, Top.i) \in Seq(Msg)
    BY <2>1, RemoveAtProperties
  <2>3. queued' \in Seq(Msg) /\ state' \in [Msg -> MsgState]
    BY <1>18, <2>2 DEF PatternDelivered, TypeOK, MsgState, Open
  <2> QED
    BY <1>18, <1>a, <2>3 DEF PatternDelivered, TypeOK
<1>19. CASE UpdateFinal
  <2>1. Top.m \in Msg /\ Top.p \in Proc /\ Top.s \in Final
    BY <1>19, <1>c DEF UpdateFinal
  <2>2. state' \in [Msg -> MsgState] /\ state_reported' \in [Msg -> SUBSET MsgState]
    BY <1>19, <2>1, FinishTypes DEF UpdateFinal
  <2>3. delivered' \in [Proc -> Seq(Msg)]
    BY <1>19, <2>1, TakeDeliveredType DEF UpdateFinal
  <2> QED
    BY <1>19, <1>a, <2>2, <2>3 DEF UpdateFinal, TypeOK
<1>20. CASE UpdateRejected
  <2>1. Top.m \in Msg /\ Top.p \in Proc
    BY <1>20, <1>c DEF UpdateRejected
  <2>2. delivered' \in [Proc -> Seq(Msg)]
    BY <1>20, <2>1, TakeDeliveredType DEF UpdateRejected
  <2>3. /\ state' \in [Msg -> MsgState] /\ state_reported' \in [Msg -> SUBSET MsgState]
        /\ handler' \in [Msg -> Proc \union {NoProc}] /\ tried' \in [Msg -> SUBSET Proc]
    <3>1. state' \in [Msg -> MsgState]
      BY <1>20, <2>1 DEF UpdateRejected, TypeOK, MsgState, Open
    <3>2. CASE handler[Top.m] = NoProc
      BY <1>20, <3>1, <3>2 DEF UpdateRejected, TypeOK
    <3>3. CASE handler[Top.m] # NoProc
      <4>1. /\ handler[Top.m] \in Proc
            /\ state_reported[Top.m] \ {"STARTED"} \in SUBSET MsgState
            /\ tried[Top.m] \union {handler[Top.m]} \in SUBSET Proc
        BY <2>1, <3>3 DEF TypeOK
      <4>2. /\ state_reported' = [state_reported EXCEPT ![Top.m] = @ \ {"STARTED"}]
            /\ tried' = [tried EXCEPT ![Top.m] = @ \union {handler[Top.m]}]
            /\ handler' = [handler EXCEPT ![Top.m] = NoProc]
        BY <1>20, <3>3 DEF UpdateRejected
      <4> QED
        BY <2>1, <3>1, <4>1, <4>2 DEF TypeOK
    <3> QED
      BY <3>2, <3>3
  <2> QED
    BY <1>20, <1>a, <2>2, <2>3 DEF UpdateRejected, TypeOK
<1>21. CASE UpdateUnknown
  BY <1>21, <1>a DEF UpdateUnknown, TypeOK
<1> QED
  BY <1>1, <1>2, <1>3, <1>4, <1>5, <1>6, <1>7, <1>8, <1>9, <1>10, <1>11, <1>12,
     <1>13, <1>14, <1>15, <1>16, <1>17, <1>18, <1>19, <1>20, <1>21
  DEF ServerStep

(* What the steps that are not the server's leave on the call stack.       *)
Outside ==
  \/ SigChld \/ NotifyStartFailure
  \/ \E pr \in Proc : MessageRequest(pr) \/ PatternRequest(pr)
                      \/ Crash(pr) \/ ChannelLost(pr)

(* What the steps that are not the server's write.  Most of them leave the *)
(* processes' lists, the messages and the queues alone.                    *)
Aside ==
  UNCHANGED <<conn, signalled, undelivered, delivered, start_copies, state, handler,
              tried, state_reported, reliability, start_message, sender_copy,
              queued, ptype_queue, launching, start_pid, ret>>

LEMMA PatternFrame ==
  ASSUME NEW pr \in Proc, PatternRequest(pr)
  PROVE  OnlyPatterns /\ Idle /\ conn[pr] = "active"
PROOF
<1>1. CASE JoinSession(pr) \/ QuitSession(pr)
  BY <1>1 DEF JoinSession, QuitSession, Client
<1>2. ASSUME NEW pt \in Ptype, DeclarePtype(pr, pt) \/ UndeclarePtype(pr, pt)
      PROVE  OnlyPatterns /\ Client(pr)
  BY <1>2 DEF DeclarePtype, UndeclarePtype
<1>3. ASSUME NEW op \in Op, AddPattern(pr, op) \/ DelPattern(pr, op)
      PROVE  OnlyPatterns /\ Client(pr)
  BY <1>3 DEF AddPattern, DelPattern
<1> QED
  BY <1>1, <1>2, <1>3 DEF PatternRequest, Client

LEMMA OutsideFrame ==
  ASSUME Outside
  PROVE  \/ Aside
         \/ \E pr \in Proc : Connect(pr) \/ NextMessage(pr)
         \/ \E pr \in Proc, msg \in Msg : Dispatch(pr, msg)
         \/ \E pr \in Proc, msg \in Msg, s \in Answer : Update(pr, msg, s)
PROOF
<1> USE DEF Aside, procVars, msgVars, queueVars
<1>1. SigChld => Aside
  BY DEF SigChld
<1>2. NotifyStartFailure => Aside
  BY DEF NotifyStartFailure
<1>3. ASSUME NEW pr \in Proc
      PROVE  /\ Crash(pr) \/ ChannelLost(pr) \/ Close(pr) => Aside
             /\ \A msg \in Msg : Accept(pr, msg) => Aside
  <2>1. Crash(pr) => Aside
    BY DEF Crash
  <2>2. ChannelLost(pr) => Aside
    BY DEF ChannelLost
  <2>3. Close(pr) => Aside
    BY DEF Close
  <2>4. \A msg \in Msg : Accept(pr, msg) => Aside
    BY DEF Accept
  <2> QED
    BY <2>1, <2>2, <2>3, <2>4
<1>4. \A pr \in Proc : PatternRequest(pr) => Aside
  BY PatternFrame DEF OnlyPatterns
<1> HIDE DEF Aside
<1> QED
  BY <1>1, <1>2, <1>3, <1>4 DEF Outside, MessageRequest

LEMMA OutsideLeaves ==
  ASSUME Outside
  PROVE  UNCHANGED <<handler, tried, state_reported, start_message, queued, ptype_queue,
                     launching, start_pid, ret>>
PROOF
<1> USE DEF msgVars, queueVars
<1>1. CASE Aside
  BY <1>1 DEF Aside
<1>2. ASSUME NEW pr \in Proc, Connect(pr)
      PROVE  UNCHANGED <<handler, tried, state_reported, start_message, queued,
                         ptype_queue, launching, start_pid, ret>>
  BY <1>2 DEF Connect
<1>3. ASSUME NEW pr \in Proc, NextMessage(pr)
      PROVE  UNCHANGED <<handler, tried, state_reported, start_message, queued,
                         ptype_queue, launching, start_pid, ret>>
  BY <1>3 DEF NextMessage
<1>4. ASSUME NEW pr \in Proc, NEW msg \in Msg, Dispatch(pr, msg)
      PROVE  UNCHANGED <<handler, tried, state_reported, start_message, queued,
                         ptype_queue, launching, start_pid, ret>>
  BY <1>4 DEF Dispatch
<1>5. ASSUME NEW pr \in Proc, NEW msg \in Msg, NEW s \in Answer, Update(pr, msg, s)
      PROVE  UNCHANGED <<handler, tried, state_reported, start_message, queued,
                         ptype_queue, launching, start_pid, ret>>
  BY <1>5 DEF Update
<1> QED
  BY <1>1, <1>2, <1>3, <1>4, <1>5, OutsideFrame

(* Only a process's own requests move its messages, and only from one of   *)
(* its lists to another.                                                   *)
LEMMA OutsideProcs ==
  ASSUME Outside
  PROVE  /\ UNCHANGED conn \/ \E pr \in Proc : Connect(pr)
         /\ \/ UNCHANGED <<signalled, undelivered, delivered, sender_copy>>
            \/ \E pr \in Proc : NextMessage(pr)
            \/ \E pr \in Proc, msg \in Msg : Dispatch(pr, msg)
         /\ \/ UNCHANGED <<signalled, undelivered, delivered>>
            \/ \E pr \in Proc : NextMessage(pr)
         /\ \/ UNCHANGED <<state, reliability>>
            \/ \E pr \in Proc, msg \in Msg : Dispatch(pr, msg)
PROOF
<1> USE DEF msgVars, procVars
<1>1. CASE Aside
  BY <1>1 DEF Aside
<1>2. \A pr \in Proc : Connect(pr) =>
        UNCHANGED <<signalled, undelivered, delivered, sender_copy, state, reliability>>
  BY DEF Connect
<1>3. \A pr \in Proc : NextMessage(pr) => UNCHANGED <<conn, state, reliability>>
  BY DEF NextMessage
<1>4. \A pr \in Proc, msg \in Msg : Dispatch(pr, msg) =>
        UNCHANGED <<conn, signalled, undelivered, delivered>>
  BY DEF Dispatch
<1>5. \A pr \in Proc, msg \in Msg, s \in Answer : Update(pr, msg, s) =>
        UNCHANGED <<conn, signalled, undelivered, delivered, sender_copy, state,
                    reliability>>
  BY DEF Update
<1> QED
  BY <1>1, <1>2, <1>3, <1>4, <1>5, OutsideFrame

(* What happens while the server is busy leaves all it works on alone.     *)
LEMMA OutsideBusy ==
  ASSUME Outside, ~Idle
  PROVE  Aside
PROOF
<1>1. \A pr \in Proc : ~Connect(pr) /\ ~NextMessage(pr)
  BY DEF Connect, NextMessage, Client
<1>2. \A pr \in Proc, msg \in Msg : ~Dispatch(pr, msg)
  BY DEF Dispatch, Client
<1>3. \A pr \in Proc, msg \in Msg, s \in Answer : ~Update(pr, msg, s)
  BY DEF Update, Client
<1> QED
  BY <1>1, <1>2, <1>3, OutsideFrame

Fresh(cs) ==
  /\ cs \in Seq(Frame)
  /\ \A i, j \in DOMAIN cs : cs[i].fn \in Loops /\ cs[j].fn \in Loops => i = j
  /\ \A i \in DOMAIN cs : cs[i].fn \notin {"orphans", "pattern_delivered", "redelivered"}

LEMMA FreshOne ==
  ASSUME NEW f \in Frame, f.fn \notin {"orphans", "pattern_delivered", "redelivered"}
  PROVE  Fresh(<<f>>)
PROOF
<1>1. <<f>> \in Seq(Frame) /\ DOMAIN <<f>> = {1} /\ <<f>>[1] = f
  OBVIOUS
<1> QED
  BY <1>1 DEF Fresh

LEMMA FreshTwo ==
  ASSUME NEW f \in Frame, f.fn \notin {"orphans", "pattern_delivered", "redelivered"},
         NEW g \in Frame, g.fn \notin {"orphans"} \union Loops
  PROVE  Fresh(<<f, g>>)
PROOF
<1>1. /\ <<f, g>> \in Seq(Frame) /\ DOMAIN <<f, g>> = {1, 2}
      /\ <<f, g>>[1] = f /\ <<f, g>>[2] = g
  OBVIOUS
<1> QED
  BY <1>1 DEF Fresh, Loops, TypeCalls, ScanCalls

(* The frames of a request whose arguments need two fields to be set.      *)
LEMMA UpdateFrame ==
  ASSUME NEW msg \in Msg, NEW pr \in Proc, NEW s \in Answer
  PROVE  /\ [OnMsg("update", msg) EXCEPT !.p = pr, !.s = s] \in Frame
         /\ [OnMsg("update", msg) EXCEPT !.p = pr, !.s = s].fn = "update"
PROOF
<1> DEFINE f == OnMsg("update", msg)
<1>1. /\ f \in [fn : {"update"}, m : Msg, p : Proc \union {NoProc},
               t : Ptype \union {NoPtype}, s : Answer, i : Nat \ {0}]
  BY DEF OnMsg, Call, Answer, Final
<1> HIDE DEF f
<1>2. [f EXCEPT !.p = pr, !.s = s] \in Frame /\ [f EXCEPT !.p = pr, !.s = s].fn = "update"
  BY <1>1 DEF Frame, MsgCalls, ProcCalls, TypeCalls, ScanCalls
<1> QED
  BY <1>2 DEF f

LEMMA StartedFrame ==
  ASSUME NEW pr \in Proc, NEW pt \in Ptype
  PROVE  /\ [OnProc("proc_started", pr) EXCEPT !.t = pt] \in Frame
         /\ [OnProc("proc_started", pr) EXCEPT !.t = pt].fn = "proc_started"
PROOF
<1> DEFINE f == OnProc("proc_started", pr)
<1>1. f \in [fn : {"proc_started"}, m : {NoMsg}, p : Proc,
            t : Ptype \union {NoPtype}, s : Answer, i : Nat \ {0}]
  BY DEF OnProc, Call, Answer, Final
<1> HIDE DEF f
<1>2. [f EXCEPT !.t = pt] \in Frame /\ [f EXCEPT !.t = pt].fn = "proc_started"
  BY <1>1 DEF Frame, MsgCalls, ProcCalls, TypeCalls, ScanCalls
<1> QED
  BY <1>2 DEF f

LEMMA OutsideCalls ==
  ASSUME TypeOK, StartsHavePtype, Outside
  PROVE  UNCHANGED calls \/ (Idle /\ Fresh(calls'))
PROOF
<1>0. Fresh(<<>>)
  BY DEF Fresh
<1>a. \A pr \in Proc : Fresh(<<OnProc("deactivate", pr)>>)
  BY Frames, FreshOne
<1>b. \A pt \in Ptype : Fresh(<<OnType("proc_replied", pt)>>)
                      /\ Fresh(<<OnType("launch_failed", pt)>>)
  BY Frames, FreshOne DEF TypeCalls, ProcCalls
<1>c. Fresh(<<Call("pattern_added")>>)
  <2>1. Call("pattern_added") \in Frame /\ Call("pattern_added").fn = "pattern_added"
    BY DEF Call, Frame, MsgCalls, ProcCalls, TypeCalls, ScanCalls, Answer, Final
  <2> QED
    BY <2>1, FreshOne
<1>d. \A pr \in Proc, msg \in Msg : msg \in start_copies[pr] => SigPtype[OpOf[msg]] \in Ptype
  BY DEF StartsHavePtype
<1>1. CASE SigChld
  BY <1>1 DEF SigChld
<1>2. CASE NotifyStartFailure
  BY <1>2, <1>b DEF NotifyStartFailure
<1>3. ASSUME NEW pr \in Proc, MessageRequest(pr)
      PROVE  UNCHANGED calls \/ (Idle /\ Fresh(calls'))
  <2>1. CASE Connect(pr)
    <3>1. CASE start_token[pr] = NoPtype
      BY <2>1, <3>1, <1>0 DEF Connect
    <3>2. CASE start_token[pr] # NoPtype
      <4> DEFINE f == [OnProc("proc_started", pr) EXCEPT !.t = start_token[pr]]
      <4>1. start_token[pr] \in Ptype
        BY <3>2 DEF TypeOK
      <4>2. f \in Frame /\ f.fn = "proc_started"
        BY <4>1, StartedFrame
      <4>3. calls' = <<f>> /\ Idle
        BY <2>1, <3>2 DEF Connect
      <4> HIDE DEF f
      <4> QED
        BY <4>2, <4>3, FreshOne
    <3> QED
      BY <3>1, <3>2
  <2>2. CASE NextMessage(pr)
    BY <2>2 DEF NextMessage
  <2>3. CASE Close(pr)
    BY <2>3, <1>a DEF Close, Client
  <2>4. ASSUME NEW msg \in Msg, Dispatch(pr, msg)
        PROVE  Idle /\ Fresh(calls')
    BY <2>4, Frames, FreshOne DEF Dispatch, Client
  <2>5. ASSUME NEW msg \in Msg, Accept(pr, msg)
        PROVE  Idle /\ Fresh(calls')
    BY <2>5, <1>b, <1>d DEF Accept, Client
  <2>6. ASSUME NEW msg \in Msg, NEW s \in Answer, Update(pr, msg, s)
        PROVE  Idle /\ Fresh(calls')
    <3> DEFINE answer  == [OnMsg("update", msg) EXCEPT !.p = pr, !.s = s]
               replied == OnType("proc_replied", SigPtype[OpOf[msg]])
    <3>1. answer \in Frame /\ answer.fn = "update"
      BY UpdateFrame
    <3>2. CASE msg \in start_copies[pr]
      <4>1. replied \in Frame /\ replied.fn = "proc_replied"
        BY <3>2, <1>d, Frames DEF TypeCalls, ProcCalls
      <4>2. calls' = <<replied, answer>> /\ Idle
        BY <2>6, <3>2 DEF Update, Client
      <4> HIDE DEF answer, replied
      <4> QED
        BY <3>1, <4>1, <4>2, FreshTwo DEF Loops, TypeCalls, ScanCalls
    <3>3. CASE msg \notin start_copies[pr]
      <4>1. calls' = <<answer>> /\ Idle
        BY <2>6, <3>3 DEF Update, Client
      <4> HIDE DEF answer
      <4> QED
        BY <3>1, <4>1, FreshOne
    <3> QED
      BY <3>2, <3>3
  <2> QED
    BY <1>3, <2>1, <2>2, <2>3, <2>4, <2>5, <2>6 DEF MessageRequest
<1>4. ASSUME NEW pr \in Proc, PatternRequest(pr)
      PROVE  UNCHANGED calls \/ (Idle /\ Fresh(calls'))
  BY <1>4, <1>c DEF PatternRequest, Client, JoinSession, QuitSession, DeclarePtype,
     UndeclarePtype, AddPattern, DelPattern
<1>5. ASSUME NEW pr \in Proc, Crash(pr)
      PROVE  UNCHANGED calls
  BY <1>5 DEF Crash
<1>6. ASSUME NEW pr \in Proc, ChannelLost(pr)
      PROVE  Idle /\ Fresh(calls')
  BY <1>6, <1>a DEF ChannelLost
<1> QED
  BY <1>1, <1>2, <1>3, <1>4, <1>5, <1>6 DEF Outside

LEMMA OnlyPatternRequests ==
  ASSUME Outside
  PROVE  UNCHANGED patterns \/ \E pr \in Proc : PatternRequest(pr)
PROOF
<1>1. SigChld \/ NotifyStartFailure => UNCHANGED patterns
  BY DEF SigChld, NotifyStartFailure
<1>2. ASSUME NEW pr \in Proc, Crash(pr) \/ ChannelLost(pr)
      PROVE  UNCHANGED patterns
  BY <1>2 DEF Crash, ChannelLost
<1>3. ASSUME NEW pr \in Proc, Connect(pr) \/ NextMessage(pr) \/ Close(pr)
      PROVE  UNCHANGED patterns
  BY <1>3 DEF Connect, NextMessage, Close
<1>4. ASSUME NEW pr \in Proc, NEW msg \in Msg, Dispatch(pr, msg) \/ Accept(pr, msg)
      PROVE  UNCHANGED patterns
  BY <1>4 DEF Dispatch, Accept
<1>5. ASSUME NEW pr \in Proc, NEW msg \in Msg, NEW s \in Answer, Update(pr, msg, s)
      PROVE  UNCHANGED patterns
  BY <1>5 DEF Update
<1> QED
  BY <1>1, <1>2, <1>3, <1>4, <1>5 DEF Outside, MessageRequest

(* Only an answer makes two calls.                                         *)
LEMMA OutsideMakes ==
  ASSUME Outside
  PROVE  \/ UNCHANGED calls \/ calls' = <<>> \/ \E f : calls' = <<f>>
         \/ \E pr \in Proc, msg \in Msg, s \in Answer : Update(pr, msg, s)
PROOF
<1>1. SigChld \/ NotifyStartFailure => UNCHANGED calls \/ \E f : calls' = <<f>>
  BY DEF SigChld, NotifyStartFailure
<1>2. ASSUME NEW pr \in Proc, Crash(pr) \/ ChannelLost(pr)
      PROVE  UNCHANGED calls \/ \E f : calls' = <<f>>
  BY <1>2 DEF Crash, ChannelLost
<1>3. ASSUME NEW pr \in Proc, Connect(pr) \/ NextMessage(pr) \/ Close(pr)
      PROVE  UNCHANGED calls \/ calls' = <<>> \/ \E f : calls' = <<f>>
  BY <1>3 DEF Connect, NextMessage, Close
<1>4. ASSUME NEW pr \in Proc, NEW msg \in Msg, Dispatch(pr, msg) \/ Accept(pr, msg)
      PROVE  \E f : calls' = <<f>>
  BY <1>4 DEF Dispatch, Accept
<1>5. ASSUME NEW pr \in Proc, PatternRequest(pr)
      PROVE  UNCHANGED calls \/ \E f : calls' = <<f>>
  BY <1>5 DEF PatternRequest, JoinSession, QuitSession, DeclarePtype, UndeclarePtype,
     AddPattern, DelPattern
<1> QED
  BY <1>1, <1>2, <1>3, <1>4, <1>5 DEF Outside, MessageRequest

(* The other steps keep the types.                                         *)
LEMMA OutsideTypes ==
  ASSUME TypeOK, StartsHavePtype, Outside
  PROVE  TypeOK'
PROOF
<1> USE DEF childVars, procVars, msgVars, queueVars
<1>a. calls' \in Seq(Frame)
  BY OutsideCalls DEF TypeOK, Fresh
<1>1. CASE SigChld
  BY <1>1, <1>a DEF SigChld, TypeOK
<1>2. CASE NotifyStartFailure
  BY <1>2, <1>a DEF NotifyStartFailure, TypeOK
<1>3. ASSUME NEW pr \in Proc, MessageRequest(pr)
      PROVE  TypeOK'
  <2>1. CASE Connect(pr)
    BY <2>1, <1>a DEF Connect, TypeOK
  <2>2. CASE NextMessage(pr)
    <3> DEFINE msg == Head(undelivered[pr])
    <3>1. /\ msg \in Msg /\ Tail(undelivered[pr]) \in Seq(Msg)
          /\ delivered[pr] \in Seq(Msg)
      BY <2>2 DEF NextMessage, TypeOK
    <3>2. /\ undelivered' = [undelivered EXCEPT ![pr] = Tail(@)]
          /\ signalled' = [signalled EXCEPT ![pr] = @ /\ ~LastOne(pr)]
          /\ \/ UNCHANGED delivered
             \/ delivered' = [delivered EXCEPT ![pr] = <<msg>> \o @]
          /\ \/ UNCHANGED start_copies
             \/ start_copies' = [start_copies EXCEPT ![pr] = @ \union {msg}]
          /\ \/ UNCHANGED sender_copy
             \/ sender_copy' = [sender_copy EXCEPT ![msg] = state[msg]]
      BY <2>2 DEF NextMessage, TypeOK
    <3> HIDE DEF msg
    <3>3. undelivered' \in [Proc -> Seq(Msg)]
      BY <3>1, <3>2 DEF TypeOK
    <3>4. signalled' \in [Proc -> BOOLEAN]
      BY <3>2 DEF TypeOK
    <3>5. delivered' \in [Proc -> Seq(Msg)]
      <4>1. <<msg>> \o delivered[pr] \in Seq(Msg)
        BY <3>1
      <4> QED
        BY <3>2, <4>1 DEF TypeOK
    <3>6. start_copies' \in [Proc -> SUBSET Msg]
      <4>1. start_copies[pr] \union {msg} \in SUBSET Msg
        BY <3>1 DEF TypeOK
      <4> QED
        BY <3>2, <4>1 DEF TypeOK
    <3>7. sender_copy' \in [Msg -> MsgState]
      <4>1. sender_copy \in [Msg -> MsgState] /\ state[msg] \in MsgState
        BY <3>1 DEF TypeOK
      <4> QED
        BY <3>1, <3>2, <4>1
    <3> QED
      <4>1. UNCHANGED <<life, start_token, zombies, sigchld, merged, failed_procs, conn, patterns,
                        state, handler, tried, state_reported, reliability,
                        start_message, queued, ptype_queue, launching, start_pid,
                        calls, ret>>
        BY <2>2 DEF NextMessage, childVars, queueVars
      <4> QED
        BY <4>1, <3>3, <3>4, <3>5, <3>6, <3>7 DEF TypeOK
  <2>3. CASE Close(pr)
    BY <2>3, <1>a DEF Close, TypeOK
  <2>4. ASSUME NEW msg \in Msg, Dispatch(pr, msg)
        PROVE  TypeOK'
    <3>1. reliability' \in [Msg -> SUBSET Disposition]
      <4>1. SigPtype[OpOf[msg]] \in Ptype \union {NoPtype}
        BY ConstantsAssumption
      <4>2. SigPtype[OpOf[msg]] # NoPtype => Disp[SigPtype[OpOf[msg]]] \in SUBSET Disposition
        BY <4>1, ConstantsAssumption
      <4> QED
        BY <2>4, <4>2 DEF Dispatch, TypeOK
    <3>2. state' \in [Msg -> MsgState] /\ sender_copy' \in [Msg -> MsgState]
      BY <2>4 DEF Dispatch, TypeOK, MsgState, Open
    <3> QED
      BY <2>4, <1>a, <3>1, <3>2 DEF Dispatch, TypeOK
  <2>5. ASSUME NEW msg \in Msg, Accept(pr, msg)
        PROVE  TypeOK'
    BY <2>5, <1>a DEF Accept, TypeOK
  <2>6. ASSUME NEW msg \in Msg, NEW s \in Answer, Update(pr, msg, s)
        PROVE  TypeOK'
    <3>1. start_copies' \in [Proc -> SUBSET Msg]
      BY <2>6 DEF Update, TypeOK
    <3> QED
      BY <2>6, <1>a, <3>1 DEF Update, TypeOK
  <2> QED
    BY <1>3, <2>1, <2>2, <2>3, <2>4, <2>5, <2>6 DEF MessageRequest
<1>4. ASSUME NEW pr \in Proc, PatternRequest(pr)
      PROVE  TypeOK'
  <2>a. \A op \in Op : patterns[op] \in Seq(Pattern)
    BY DEF TypeOK
  <2>1. ASSUME NEW ops, NEW pat \in Pattern, Register(pr, ops, pat)
        PROVE  patterns' \in [Op -> Seq(Pattern)]
    <3>1. \A op \in Op : <<pat>> \o patterns[op] \in Seq(Pattern)
      BY <2>a
    <3> QED
      BY <2>1, <2>a, <3>1 DEF Register
  <2>2. ASSUME NEW ops, NEW dyn, Unregister(pr, ops, dyn)
        PROVE  patterns' \in [Op -> Seq(Pattern)]
    BY <2>2, <2>a, WithoutType DEF Unregister
  <2>3. ASSUME NEW on \in BOOLEAN, SetSession(pr, on)
        PROVE  patterns' \in [Op -> Seq(Pattern)]
    <3>1. ASSUME NEW op \in Op
          PROVE  [i \in DOMAIN patterns[op] |->
                    IF patterns[op][i].owner = pr
                    THEN [patterns[op][i] EXCEPT !.session = on]
                    ELSE patterns[op][i]] \in Seq(Pattern)
      <4> DEFINE ps == patterns[op]
      <4>1. ps \in Seq(Pattern)
        BY <2>a
      <4> HIDE DEF ps
      <4>2. ASSUME NEW i \in DOMAIN ps
            PROVE  ps[i] \in Pattern /\ [ps[i] EXCEPT !.session = on] \in Pattern
        <5> DEFINE pat == ps[i]
        <5>1. pat \in Pattern
          BY <4>1
        <5> HIDE DEF pat
        <5>2. [pat EXCEPT !.session = on] \in Pattern
          BY <5>1 DEF Pattern
        <5> QED
          BY <5>1, <5>2 DEF pat
      <4>3. [i \in DOMAIN ps |-> IF ps[i].owner = pr
                                THEN [ps[i] EXCEPT !.session = on] ELSE ps[i]]
              \in Seq(Pattern)
        BY <4>1, <4>2
      <4> QED
        BY <4>3 DEF ps
    <3> QED
      BY <2>3, <3>1 DEF SetSession
  <2>4. patterns' \in [Op -> Seq(Pattern)]
    <3>1. ASSUME NEW session \in BOOLEAN, NEW dynamic \in BOOLEAN
          PROVE  [owner |-> pr, session |-> session, dynamic |-> dynamic] \in Pattern
      BY DEF Pattern
    <3> QED
      BY <1>4, <2>1, <2>2, <2>3, <3>1 DEF PatternRequest, JoinSession, QuitSession,
         DeclarePtype, UndeclarePtype, AddPattern, DelPattern
  <2>5. UNCHANGED <<childVars, procVars, msgVars, queueVars, ret>>
    BY <1>4 DEF PatternRequest, JoinSession, QuitSession, DeclarePtype,
       UndeclarePtype, AddPattern, DelPattern, OnlyPatterns
  <2> QED
    BY <1>a, <2>4, <2>5 DEF TypeOK
<1>5. ASSUME NEW pr \in Proc, Crash(pr)
      PROVE  TypeOK'
  BY <1>5, <1>a DEF Crash, TypeOK
<1>6. ASSUME NEW pr \in Proc, ChannelLost(pr)
      PROVE  TypeOK'
  BY <1>6, <1>a DEF ChannelLost, TypeOK
<1> QED
  BY <1>1, <1>2, <1>3, <1>4, <1>5, <1>6 DEF Outside

-----------------------------------------------------------------------------
(* The loops over a queue.                                                 *)

(* While the server is at a call that is no loop, the queues only grow;    *)
(* the loops look at a queue in one step and change it in the next.        *)
LEMMA QueueSteps ==
  ASSUME TypeOK, ServerStep
  PROVE  /\ Top.fn \notin Loops =>
              /\ UNCHANGED queued \/ \E msg \in Msg : queued' = Append(queued, msg)
              /\ \/ UNCHANGED ptype_queue
                 \/ \E pt \in Ptype \union {NoPtype}, msg \in Msg :
                      ptype_queue' = [ptype_queue EXCEPT ![pt] = Append(@, msg)]
         /\ Top.fn \in {"pattern_added", "redeliver"} => UNCHANGED <<queued, ptype_queue>>
PROOF
<1> USE DEF Running, queueVars, Loops, TypeCalls, ScanCalls
<1>0. Top.fn \in MsgCalls => Top.m \in Msg
  BY TopTypes, ServerCalls DEF TypeOK
<1>1. CASE NoRecipientsStart
  <2>1. PICK msg \in Msg :
          /\ NoHandler(msg)
          /\ \/ UNCHANGED ptype_queue
             \/ ptype_queue' = [ptype_queue EXCEPT ![SigPtype[OpOf[msg]]] = Append(@, msg)]
    BY <1>1 DEF NoRecipientsStart
  <2>2. SigPtype[OpOf[msg]] \in Ptype \union {NoPtype}
    BY ConstantsAssumption
  <2>3. Top.fn = "deliver"
    BY <2>1 DEF NoHandler
  <2>4. UNCHANGED queued
    BY <1>1 DEF NoRecipientsStart
  <2> QED
    BY <2>1, <2>2, <2>3, <2>4
<1>2. CASE NoRecipientsQueue
  <2>1. PICK msg \in Msg : HonourQueue(msg)
    BY <1>2, <1>0 DEF NoRecipientsQueue, MsgCalls
  <2>2. UNCHANGED queued \/ queued' = Append(queued, msg)
    BY <2>1 DEF HonourQueue
  <2>3. Top.fn \in {"deliver", "queue"}
    BY <1>2 DEF NoRecipientsQueue, NoHandler
  <2>4. UNCHANGED ptype_queue
    BY <1>2 DEF NoRecipientsQueue
  <2> QED
    BY <2>2, <2>3, <2>4
<1>3. CASE ProcStarted \/ Redelivered \/ LaunchFailed \/ PatternDelivered
  <2>1. Top.fn \in {"proc_started", "redelivered", "launch_failed", "pattern_delivered"}
    BY <1>3 DEF ProcStarted, Redelivered, LaunchFailed, PatternDelivered
  <2> QED
    BY <2>1
<1>4. CASE \/ Report \/ DeliverToHandler \/ DeliverToNobody \/ StartFailed
           \/ Deactivate \/ OrphanUndelivered \/ OrphanDelivered \/ OrphansDone
           \/ ProcStartedIdly \/ ProcReplied \/ Redeliver \/ PatternAdded
           \/ UpdateFinal \/ UpdateRejected \/ UpdateUnknown
  <2>1. UNCHANGED <<queued, ptype_queue>>
    BY <1>4 DEF Report, DeliverToHandler, DeliverToNobody, StartFailed, Deactivate,
       OrphanUndelivered, OrphanDelivered, OrphansDone, ProcStartedIdly, ProcReplied,
       Redeliver, PatternAdded, UpdateFinal, UpdateRejected, UpdateUnknown
  <2> QED
    BY <2>1
<1> QED
  BY <1>1, <1>2, <1>3, <1>4 DEF ServerStep

LEMMA ServerLoops ==
  ASSUME TypeOK, OneLoop, LoopsInBounds, ServerStep
  PROVE  LoopsInBounds'
PROOF
<1>0. calls # <<>> /\ calls \in Seq(Frame)
  BY ServerCalls DEF TypeOK
<1>1. PICK cs : Pushes(cs) /\ Then(cs)
  BY ServerCalls
<1>2. cs \in Seq(Frame)
  BY <1>1 DEF Pushes
<1>3. /\ calls' \in Seq(Frame)
      /\ \A i \in DOMAIN calls' :
           \/ i \in DOMAIN cs /\ calls'[i] = cs[i]
           \/ /\ i - Len(cs) + 1 \in DOMAIN calls /\ i - Len(cs) + 1 # 1
              /\ calls'[i] = calls[i - Len(cs) + 1]
      /\ 1 \in DOMAIN calls /\ calls[1] = Top
  BY <1>0, <1>1, <1>2, ThenElements
<1> SUFFICES ASSUME NEW i \in DOMAIN calls'
             PROVE  /\ calls'[i].fn = "pattern_delivered" => calls'[i].i \in DOMAIN queued'
                    /\ calls'[i].fn = "redelivered" => ptype_queue'[calls'[i].t] # <<>>
  BY DEF LoopsInBounds
<1>4. CASE i \in DOMAIN cs /\ calls'[i] = cs[i]
  <2>1. /\ cs[i].fn = "pattern_delivered" =>
             Top.fn = "pattern_added" /\ cs[i].i \in DOMAIN queued
        /\ cs[i].fn = "redelivered" =>
             Top.fn = "redeliver" /\ ptype_queue[cs[i].t] # <<>>
    BY <1>1, <1>4 DEF Pushes
  <2>2. Top.fn \in {"pattern_added", "redeliver"} => UNCHANGED <<queued, ptype_queue>>
    BY QueueSteps
  <2> QED
    BY <1>4, <2>1, <2>2
<1>5. CASE \E j \in DOMAIN calls : j # 1 /\ calls'[i] = calls[j]
  <2>1. PICK j \in DOMAIN calls : j # 1 /\ calls'[i] = calls[j]
    BY <1>5
  <2>2. /\ calls[j].fn = "pattern_delivered" => calls[j].i \in DOMAIN queued
        /\ calls[j].fn = "redelivered" => ptype_queue[calls[j].t] # <<>>
    BY DEF LoopsInBounds
  <2>3. calls[j].fn = "redelivered" => calls[j].t \in Ptype
    <3>1. calls[j] \in Frame
      BY <1>0
    <3> QED
      BY <3>1 DEF Frame, TypeCalls
  <2>4. calls[j].fn \in Loops => Top.fn \notin Loops
    BY <1>3, <2>1 DEF OneLoop
  <2>5. Top.fn \notin Loops => DOMAIN queued \subseteq DOMAIN queued'
    <3>1. \A msg \in Msg : DOMAIN queued \subseteq DOMAIN Append(queued, msg)
      BY DEF TypeOK
    <3> QED
      BY <3>1, QueueSteps
  <2>6. Top.fn \notin Loops =>
          \A pt \in Ptype : ptype_queue[pt] # <<>> => ptype_queue'[pt] # <<>>
    <3>1. \A q \in Seq(Msg), msg \in Msg : Append(q, msg) # <<>>
      OBVIOUS
    <3>2. ptype_queue \in [Ptype -> Seq(Msg)]
      BY DEF TypeOK
    <3> QED
      BY <3>1, <3>2, QueueSteps
  <2> QED
    BY <2>1, <2>2, <2>3, <2>4, <2>5, <2>6 DEF Loops, TypeCalls, ScanCalls
<1> QED
  BY <1>3, <1>4, <1>5

(* A request or a signal comes when there is no loop, or leaves it alone.  *)
LEMMA OutsideLoops ==
  ASSUME TypeOK, StartsHavePtype, OneLoop, LoopsInBounds, Outside
  PROVE  OneLoop' /\ LoopsInBounds'
PROOF
<1>1. UNCHANGED <<queued, ptype_queue>>
  BY OutsideLeaves
<1>2. CASE UNCHANGED calls
  BY <1>1, <1>2 DEF OneLoop, LoopsInBounds
<1>3. CASE Fresh(calls')
  BY <1>3 DEF Fresh, OneLoop, LoopsInBounds
<1> QED
  BY <1>2, <1>3, OutsideCalls

-----------------------------------------------------------------------------

(* Who waits for a process of a ptype.                                     *)

LEMMA ServerStarts ==
  ASSUME TypeOK, StartsHavePtype, LoopsInBounds, ServerStep
  PROVE  StartsHavePtype'
PROOF
<1> USE DEF Running, msgVars, queueVars, procVars
<1>0. /\ Top.fn \in TypeCalls => Top.t \in Ptype
      /\ Top.fn \in MsgCalls => Top.m \in Msg
  BY ServerCalls, TopTypes DEF TypeOK
<1>1. UNCHANGED start_copies
  BY DEF ServerStep, Report, DeliverToHandler, DeliverToNobody, NoRecipientsStart,
     StartFailed, NoRecipientsQueue, Deactivate, OrphanUndelivered, OrphanDelivered,
     OrphansDone, ProcStarted, ProcStartedIdly, ProcReplied, Redeliver, Redelivered,
     LaunchFailed, PatternAdded, PatternDelivered, UpdateFinal, UpdateRejected,
     UpdateUnknown
<1>2. \A msg \in Msg : reliability'[msg] # {} => reliability[msg] # {}
  <2>1. UNCHANGED reliability \/ reliability' = [reliability EXCEPT ![Top.m] = {}]
    BY DEF ServerStep, Report, DeliverToHandler, DeliverToNobody, NoRecipientsStart,
       StartFailed, NoRecipientsQueue, Deactivate, OrphanUndelivered, OrphanDelivered,
       OrphansDone, ProcStarted, ProcStartedIdly, ProcReplied, Redeliver, Redelivered,
       LaunchFailed, PatternAdded, PatternDelivered, UpdateFinal, UpdateRejected,
       UpdateUnknown
  <2> QED
    BY <2>1 DEF TypeOK
<1>3. ASSUME UNCHANGED start_message, NEW pt \in Ptype, ptype_queue[pt] # <<>>,
             ptype_queue' = [ptype_queue EXCEPT ![pt] = Tail(@)]
      PROVE  StartsHavePtype'
  <2>1. ptype_queue \in [Ptype -> Seq(Msg)]
    BY DEF TypeOK
  <2>2. \A i \in DOMAIN Tail(ptype_queue[pt]) :
          /\ i + 1 \in DOMAIN ptype_queue[pt]
          /\ Tail(ptype_queue[pt])[i] = ptype_queue[pt][i + 1]
    BY <1>3, <2>1
  <2>3. \A t \in Ptype : \A i \in DOMAIN ptype_queue'[t] :
          SigPtype[OpOf[ptype_queue'[t][i]]] = t
    BY <1>3, <2>1, <2>2 DEF StartsHavePtype
  <2> QED
    BY <1>1, <1>2, <1>3, <2>3 DEF StartsHavePtype
<1>4. ASSUME UNCHANGED <<start_message, ptype_queue>>
      PROVE  StartsHavePtype'
  BY <1>1, <1>2, <1>4 DEF StartsHavePtype
<1>5. CASE NoRecipientsStart
  <2>1. PICK msg \in Msg :
          /\ StartsAnew(msg)
          /\ \/ UNCHANGED ptype_queue
             \/ ptype_queue' = [ptype_queue EXCEPT ![SigPtype[OpOf[msg]]] = Append(@, msg)]
    BY <1>5 DEF NoRecipientsStart
  <2> DEFINE pt == SigPtype[OpOf[msg]]
  <2>2. pt \in Ptype /\ ptype_queue[pt] \in Seq(Msg)
    BY <2>1 DEF StartsAnew, StartsHavePtype, TypeOK
  <2>3. UNCHANGED start_message
    BY <1>5 DEF NoRecipientsStart
  <2>4. CASE ptype_queue' = [ptype_queue EXCEPT ![pt] = Append(@, msg)]
    <3>1. \A i \in DOMAIN Append(ptype_queue[pt], msg) :
            \/ i \in DOMAIN ptype_queue[pt]
               /\ Append(ptype_queue[pt], msg)[i] = ptype_queue[pt][i]
            \/ Append(ptype_queue[pt], msg)[i] = msg
      BY <2>2
    <3>2. \A t \in Ptype : ptype_queue'[t] =
            IF t = pt THEN Append(ptype_queue[pt], msg) ELSE ptype_queue[t]
      BY <2>4 DEF TypeOK
    <3>3. /\ pt = SigPtype[OpOf[msg]]
          /\ \A t \in Ptype : \A i \in DOMAIN ptype_queue[t] :
               SigPtype[OpOf[ptype_queue[t][i]]] = t
      BY DEF StartsHavePtype
    <3>4. \A t \in Ptype : \A i \in DOMAIN ptype_queue'[t] :
            SigPtype[OpOf[ptype_queue'[t][i]]] = t
      <4> HIDE DEF pt
      <4> SUFFICES ASSUME NEW t \in Ptype, NEW i \in DOMAIN ptype_queue'[t]
                   PROVE  SigPtype[OpOf[ptype_queue'[t][i]]] = t
        OBVIOUS
      <4>1. CASE t = pt
        <5> DEFINE q == Append(ptype_queue[pt], msg)
        <5>1. /\ ptype_queue'[t] = q
              /\ \A k \in DOMAIN q : \/ k \in DOMAIN ptype_queue[pt]
                                       /\ q[k] = ptype_queue[pt][k]
                                    \/ q[k] = msg
          BY <3>1, <3>2, <4>1
        <5> HIDE DEF q
        <5> QED
          BY <2>2, <3>3, <4>1, <5>1
      <4>2. CASE t # pt
        BY <3>2, <3>3, <4>2
      <4> QED
        BY <4>1, <4>2
    <3> QED
      BY <1>1, <1>2, <2>3, <3>4 DEF StartsHavePtype
  <2> QED
    BY <2>1, <2>3, <2>4, <1>4
<1>6. CASE ProcStarted
  <2> DEFINE msg == Head(ptype_queue[Top.t])
  <2>1. /\ Top.t \in Ptype /\ ptype_queue[Top.t] # <<>>
        /\ start_message' = [start_message EXCEPT ![msg] = TRUE]
        /\ ptype_queue' = [ptype_queue EXCEPT ![Top.t] = Tail(@)]
    BY <1>6, <1>0 DEF ProcStarted, TypeCalls
  <2>2. ptype_queue \in [Ptype -> Seq(Msg)]
    BY DEF TypeOK
  <2>3. /\ 1 \in DOMAIN ptype_queue[Top.t] /\ msg = ptype_queue[Top.t][1] /\ msg \in Msg
        /\ \A i \in DOMAIN Tail(ptype_queue[Top.t]) :
             /\ i + 1 \in DOMAIN ptype_queue[Top.t]
             /\ Tail(ptype_queue[Top.t])[i] = ptype_queue[Top.t][i + 1]
    BY <2>1, <2>2
  <2>4. \A t \in Ptype : \A i \in DOMAIN ptype_queue'[t] :
          SigPtype[OpOf[ptype_queue'[t][i]]] = t
    BY <2>1, <2>2, <2>3 DEF StartsHavePtype
  <2>5. SigPtype[OpOf[msg]] \in Ptype
    BY <2>1, <2>3 DEF StartsHavePtype
  <2> HIDE DEF msg
  <2>6. \A m \in Msg : start_message'[m] => start_message[m] \/ m = msg
    BY <2>1, <2>3 DEF TypeOK
  <2> QED
    BY <1>1, <1>2, <2>4, <2>5, <2>6 DEF StartsHavePtype
<1>7. CASE Redelivered \/ LaunchFailed
  <2>1. Top.t \in Ptype /\ UNCHANGED start_message
    BY <1>7, <1>0 DEF Redelivered, LaunchFailed, TypeCalls
  <2>2. \/ UNCHANGED ptype_queue
        \/ /\ ptype_queue' = [ptype_queue EXCEPT ![Top.t] = Tail(@)]
           /\ ptype_queue[Top.t] # <<>>
    <3>1. CASE Redelivered
      <4>1. 1 \in DOMAIN calls /\ calls[1] = Top
        BY ServerCalls DEF TypeOK, Top
      <4> QED
        BY <3>1, <4>1 DEF Redelivered, LoopsInBounds
    <3> QED
      BY <1>7, <3>1 DEF LaunchFailed
  <2> QED
    BY <2>1, <2>2, <1>3, <1>4
<1>8. CASE \/ Report \/ DeliverToHandler \/ DeliverToNobody \/ StartFailed
           \/ NoRecipientsQueue \/ Deactivate \/ OrphanUndelivered \/ OrphanDelivered
           \/ OrphansDone \/ ProcStartedIdly \/ ProcReplied \/ Redeliver
           \/ PatternAdded \/ PatternDelivered \/ UpdateFinal \/ UpdateRejected
           \/ UpdateUnknown
  <2>1. UNCHANGED <<start_message, ptype_queue>>
    BY <1>8 DEF Report, DeliverToHandler, DeliverToNobody, StartFailed,
       NoRecipientsQueue, Deactivate, OrphanUndelivered, OrphanDelivered, OrphansDone,
       ProcStartedIdly, ProcReplied, Redeliver, PatternAdded, PatternDelivered,
       UpdateFinal, UpdateRejected, UpdateUnknown
  <2> QED
    BY <2>1, <1>4
<1> QED
  BY <1>5, <1>6, <1>7, <1>8 DEF ServerStep

LEMMA OutsideStarts ==
  ASSUME TypeOK, StartsHavePtype, Outside
  PROVE  StartsHavePtype'
PROOF
<1>1. UNCHANGED <<start_message, ptype_queue>>
  BY OutsideLeaves
<1>2. \A pr \in Proc, msg \in Msg :
        msg \in start_copies'[pr] => msg \in start_copies[pr] \/ start_message[msg]
  <2>1. CASE UNCHANGED start_copies
    BY <2>1
  <2>2. ASSUME NEW pr \in Proc, NextMessage(pr)
        PROVE  \A p \in Proc, msg \in Msg :
                 msg \in start_copies'[p] => msg \in start_copies[p] \/ start_message[msg]
    <3> DEFINE new == Head(undelivered[pr])
    <3>1. \/ UNCHANGED start_copies
          \/ start_copies' = [start_copies EXCEPT ![pr] =
                                IF start_message[new] THEN @ \union {new} ELSE @]
      BY <2>2 DEF NextMessage
    <3> HIDE DEF new
    <3>2. start_copies \in [Proc -> SUBSET Msg]
      BY DEF TypeOK
    <3>3. CASE start_message[new]
      BY <3>1, <3>2, <3>3
    <3>4. CASE ~start_message[new]
      BY <3>1, <3>2, <3>4
    <3> QED
      BY <3>3, <3>4
  <2>3. ASSUME NEW pr \in Proc, NEW msg \in Msg, NEW s \in Answer, Update(pr, msg, s)
        PROVE  \A p \in Proc, m \in Msg : m \in start_copies'[p] => m \in start_copies[p]
    BY <2>3 DEF Update, TypeOK
  <2>4. \/ UNCHANGED start_copies
        \/ \E pr \in Proc : NextMessage(pr)
        \/ \E pr \in Proc, msg \in Msg, s \in Answer : Update(pr, msg, s)
    <3>1. Aside => UNCHANGED start_copies
      BY DEF Aside
    <3>2. \A pr \in Proc : Connect(pr) => UNCHANGED start_copies
      BY DEF Connect
    <3>3. \A pr \in Proc, msg \in Msg : Dispatch(pr, msg) => UNCHANGED start_copies
      BY DEF Dispatch, procVars
    <3> QED
      BY <3>1, <3>2, <3>3, OutsideFrame
  <2> QED
    BY <2>1, <2>2, <2>3, <2>4
<1>3. \A msg \in Msg :
        reliability'[msg] # {} => reliability[msg] # {} \/ SigPtype[OpOf[msg]] \in Ptype
  <2>1. CASE UNCHANGED reliability
    BY <2>1
  <2>2. ASSUME NEW pr \in Proc, NEW msg \in Msg, Dispatch(pr, msg)
        PROVE  \A m \in Msg :
                 reliability'[m] # {} => reliability[m] # {} \/ SigPtype[OpOf[m]] \in Ptype
    <3>1. SigPtype[OpOf[msg]] \in Ptype \union {NoPtype}
      BY ConstantsAssumption
    <3> QED
      BY <2>2, <3>1 DEF Dispatch, TypeOK
  <2> QED
    BY <2>1, <2>2, OutsideProcs
<1>4. ASSUME NEW msg \in Msg,
             \/ reliability'[msg] # {} \/ start_message'[msg]
             \/ \E pr \in Proc : msg \in start_copies'[pr]
      PROVE  SigPtype[OpOf[msg]] \in Ptype
  BY <1>1, <1>2, <1>3, <1>4 DEF StartsHavePtype
<1> QED
  BY <1>1, <1>4 DEF StartsHavePtype

-----------------------------------------------------------------------------

(* Wake-ups.                                                               *)

(* SignalInv and the first half of Silent, for one process.                *)
Signals(pr) ==
  /\ conn[pr] = "active" => (signalled[pr] <=> undelivered[pr] # <<>>)
  /\ conn[pr] = "none" => undelivered[pr] = <<>> /\ ~signalled[pr]

LEMMA AddMessageSignals ==
  ASSUME TypeOK, NEW pr \in Proc, NEW msg \in Msg, NEW ok, NEW lost,
         AddMessage(pr, msg, ok, lost), UNCHANGED conn, \A p \in Proc : Signals(p)
  PROVE  \A p \in Proc : Signals(p)'
PROOF
<1>1. /\ undelivered \in [Proc -> Seq(Msg)] /\ undelivered[pr] \in Seq(Msg)
      /\ signalled \in [Proc -> BOOLEAN]
  BY DEF TypeOK
<1>2. CASE UNCHANGED <<undelivered, signalled>>
  BY <1>2 DEF Signals
<1>3. CASE /\ conn[pr] = "active" /\ UNCHANGED signalled
           /\ \E i \in DOMAIN undelivered[pr] :
                undelivered' = [undelivered EXCEPT ![pr] = Append(RemoveAt(@, i), msg)]
  <2>1. PICK i \in DOMAIN undelivered[pr] :
          undelivered' = [undelivered EXCEPT ![pr] = Append(RemoveAt(@, i), msg)]
    BY <1>3
  <2>2. RemoveAt(undelivered[pr], i) \in Seq(Msg)
    BY <1>1, RemoveAtProperties
  <2>3. Append(RemoveAt(undelivered[pr], i), msg) # <<>>
    BY <2>2
  <2>4. undelivered[pr] # <<>>
    BY <1>1
  <2>5. undelivered'[pr] # <<>>
    BY <1>1, <2>1, <2>3
  <2>6. \A p \in Proc : p # pr => undelivered'[p] = undelivered[p]
    BY <1>1, <2>1
  <2> QED
    BY <1>3, <2>4, <2>5, <2>6 DEF Signals
<1>4. CASE /\ conn[pr] = "active"
           /\ undelivered' = [undelivered EXCEPT ![pr] = Append(@, msg)]
           /\ signalled' = [signalled EXCEPT ![pr] = TRUE]
  <2>1. Append(undelivered[pr], msg) # <<>>
    BY <1>1
  <2>2. undelivered'[pr] # <<>> /\ signalled'[pr]
    BY <1>1, <1>4, <2>1
  <2>3. \A p \in Proc : p # pr =>
          undelivered'[p] = undelivered[p] /\ signalled'[p] = signalled[p]
    BY <1>1, <1>4
  <2> QED
    BY <1>4, <2>2, <2>3 DEF Signals
<1> QED
  BY <1>2, <1>3, <1>4 DEF AddMessage

LEMMA ServerSignals ==
  ASSUME TypeOK, Silent, ServerStep, \A p \in Proc : Signals(p)
  PROVE  \A p \in Proc : Signals(p)'
PROOF
<1> USE DEF Running, procVars
<1>0. /\ Top.fn \in ProcCalls => Top.p \in Proc
      /\ Top.fn \in MsgCalls => Top.m \in Msg
      /\ Top.fn \in TypeCalls => Top.t \in Ptype
      /\ 1 \in DOMAIN calls /\ calls[1] = Top
  <2>1. calls # <<>> /\ calls \in Seq(Frame)
    BY ServerCalls DEF TypeOK
  <2>2. /\ Top.fn \in ProcCalls => Top.p \in Proc
        /\ Top.fn \in MsgCalls => Top.m \in Msg
        /\ Top.fn \in TypeCalls => Top.t \in Ptype
    BY <2>1, TopTypes
  <2>3. 1 \in DOMAIN calls /\ calls[1] = Top
    BY <2>1 DEF Top
  <2> QED
    BY <2>2, <2>3
<1>1. CASE Report
  <2>1. Top.m \in Msg /\ SenderOf[Top.m] \in Proc
    BY <1>0, <1>1, ConstantsAssumption DEF Report, MsgCalls
  <2> QED
    BY <1>1, <2>1, AddMessageSignals DEF Report
<1>2. CASE DeliverToHandler
  <2>1. PICK pr \in Proc : AddMessage(pr, Top.m, <<>>, <<Top>>) /\ Top.m \in Msg
    BY <1>2, HandlerChosen DEF DeliverToHandler
  <2>2. UNCHANGED conn
    BY <1>2 DEF DeliverToHandler
  <2> QED
    BY <2>1, <2>2, AddMessageSignals
<1>3. CASE ProcStarted
  <2> DEFINE msg  == Head(ptype_queue[Top.t])
             lost == <<[OnType("launch_failed", Top.t) EXCEPT !.m = msg]>>
  <2>1. msg \in Msg /\ Top.p \in Proc
    BY <1>0, <1>3 DEF ProcStarted, ProcCalls, TypeCalls, TypeOK
  <2>2. AddMessage(Top.p, msg, <<>>, lost) /\ UNCHANGED conn
    BY <1>3 DEF ProcStarted
  <2> HIDE DEF msg, lost
  <2> QED
    BY <2>1, <2>2, AddMessageSignals
<1>4. CASE Deactivate
  <2>1. /\ UNCHANGED conn \/ conn' = [conn EXCEPT ![Top.p] = "inactive"]
        /\ UNCHANGED <<undelivered, signalled>>
    BY <1>4 DEF Deactivate
  <2>2. \A p \in Proc : conn'[p] \in {conn[p], "inactive"}
    BY <2>1 DEF TypeOK
  <2> QED
    BY <2>1, <2>2 DEF Signals
<1>5. CASE OrphanUndelivered
  <2>1. /\ conn[Top.p] = "inactive" /\ Top.p \in Proc
        /\ undelivered' = [undelivered EXCEPT ![Top.p] = Tail(@)]
        /\ UNCHANGED <<conn, signalled>>
    BY <1>0, <1>5 DEF OrphanUndelivered, Silent, ProcCalls
  <2>2. \A p \in Proc : p # Top.p => undelivered'[p] = undelivered[p]
    BY <2>1 DEF TypeOK
  <2> QED
    BY <2>1, <2>2 DEF Signals
<1>6. CASE \/ DeliverToNobody \/ NoRecipientsStart \/ StartFailed \/ NoRecipientsQueue
           \/ OrphanDelivered \/ OrphansDone \/ ProcStartedIdly \/ ProcReplied
           \/ Redeliver \/ Redelivered \/ LaunchFailed \/ PatternAdded
           \/ PatternDelivered \/ UpdateFinal \/ UpdateRejected \/ UpdateUnknown
  <2>1. UNCHANGED <<conn, signalled, undelivered>>
    BY <1>6 DEF DeliverToNobody, NoRecipientsStart, StartFailed, NoRecipientsQueue,
       OrphanDelivered, OrphansDone, ProcStartedIdly, ProcReplied, Redeliver,
       Redelivered, LaunchFailed, PatternAdded, PatternDelivered, UpdateFinal,
       UpdateRejected, UpdateUnknown
  <2> QED
    BY <2>1 DEF Signals
<1> QED
  BY <1>1, <1>2, <1>3, <1>4, <1>5, <1>6 DEF ServerStep

LEMMA OutsideSignals ==
  ASSUME TypeOK, Outside, \A p \in Proc : Signals(p)
  PROVE  \A p \in Proc : Signals(p)'
PROOF
<1> USE DEF procVars
<1>1. ASSUME NEW pr \in Proc, Connect(pr)
      PROVE  \A p \in Proc : Signals(p)'
  <2>1. /\ conn[pr] = "none" /\ UNCHANGED <<undelivered, signalled>>
        /\ conn' = [conn EXCEPT ![pr] = "active"]
    BY <1>1 DEF Connect
  <2>2. \A p \in Proc : p # pr => conn'[p] = conn[p]
    BY <2>1 DEF TypeOK
  <2> QED
    BY <2>1, <2>2 DEF Signals
<1>2. ASSUME NEW pr \in Proc, NextMessage(pr)
      PROVE  \A p \in Proc : Signals(p)'
  <2>1. /\ conn[pr] = "active" /\ undelivered[pr] # <<>> /\ UNCHANGED conn
        /\ undelivered' = [undelivered EXCEPT ![pr] = Tail(@)]
        /\ signalled' = [signalled EXCEPT ![pr] = @ /\ ~LastOne(pr)]
    BY <1>2 DEF NextMessage, Client
  <2>2. /\ signalled[pr]
        /\ undelivered'[pr] = Tail(undelivered[pr])
        /\ signalled'[pr] = (signalled[pr] /\ ~LastOne(pr))
    BY <2>1 DEF Signals, TypeOK
  <2>3. \A p \in Proc : p # pr =>
          undelivered'[p] = undelivered[p] /\ signalled'[p] = signalled[p]
    BY <2>1 DEF TypeOK
  <2>4. signalled'[pr] <=> undelivered'[pr] # <<>>
    BY <2>2 DEF LastOne
  <2> QED
    BY <2>1, <2>3, <2>4 DEF Signals
<1>3. CASE UNCHANGED <<conn, undelivered, signalled>>
  BY <1>3 DEF Signals
<1>4. \/ UNCHANGED <<conn, undelivered, signalled>>
      \/ \E pr \in Proc : Connect(pr) \/ NextMessage(pr)
  BY OutsideProcs
<1> QED
  BY <1>1, <1>2, <1>3, <1>4

(* The server makes nobody inactive but the process it deactivates.        *)
LEMMA OnlyDeactivates ==
  ASSUME ServerStep
  PROVE  Deactivate \/ UNCHANGED conn
PROOF
<1> USE DEF procVars
<1>1. CASE \/ Report \/ DeliverToHandler \/ DeliverToNobody \/ NoRecipientsStart
           \/ StartFailed \/ NoRecipientsQueue
  BY <1>1 DEF Report, DeliverToHandler, DeliverToNobody, NoRecipientsStart, StartFailed,
     NoRecipientsQueue
<1>2. CASE \/ OrphanUndelivered \/ OrphanDelivered \/ OrphansDone \/ ProcStarted
           \/ ProcStartedIdly
  BY <1>2 DEF OrphanUndelivered, OrphanDelivered, OrphansDone, ProcStarted,
     ProcStartedIdly
<1>3. CASE ProcReplied \/ Redeliver \/ Redelivered \/ LaunchFailed
  BY <1>3 DEF ProcReplied, Redeliver, Redelivered, LaunchFailed
<1>4. CASE \/ PatternAdded \/ PatternDelivered \/ UpdateFinal \/ UpdateRejected
           \/ UpdateUnknown
  BY <1>4 DEF PatternAdded, PatternDelivered, UpdateFinal, UpdateRejected, UpdateUnknown
<1> QED
  BY <1>1, <1>2, <1>3, <1>4 DEF ServerStep

(* Who is being cleaned up stays inactive until that is done.              *)
Cleanups ==
  \A i \in DOMAIN calls : calls[i].fn = "orphans" => conn[calls[i].p] = "inactive"

LEMMA InactiveForGood ==
  ASSUME TypeOK, ServerStep \/ Outside, NEW pr \in Proc, conn[pr] = "inactive"
  PROVE  conn'[pr] = "inactive"
PROOF
<1>1. \/ UNCHANGED conn
      \/ conn' = [conn EXCEPT ![Top.p] = "inactive"]
      \/ \E p \in Proc : conn[p] = "none" /\ conn' = [conn EXCEPT ![p] = "active"]
  <2>1. CASE Outside
    BY <2>1, OutsideProcs DEF Connect
  <2>2. CASE Deactivate
    BY <2>2 DEF Deactivate
  <2> QED
    BY <2>1, <2>2, OnlyDeactivates
<1> QED
  BY <1>1 DEF TypeOK

LEMMA OrphansOf ==
  ASSUME NEW cs \in Seq(Frame), NEW i \in DOMAIN cs, cs[i].fn = "orphans"
  PROVE  cs[i].p \in Proc
PROOF
<1>1. cs[i] \in Frame
  OBVIOUS
<1> QED
  BY <1>1 DEF Frame, ProcCalls

LEMMA ServerCleanups ==
  ASSUME TypeOK, Cleanups, ServerStep
  PROVE  Cleanups'
PROOF
<1>0. calls # <<>> /\ calls \in Seq(Frame)
  BY ServerCalls DEF TypeOK
<1>1. PICK cs : Pushes(cs) /\ Then(cs)
  BY ServerCalls
<1>2. cs \in Seq(Frame)
  BY <1>1 DEF Pushes
<1>3. /\ calls' \in Seq(Frame)
      /\ \A i \in DOMAIN calls' :
           \/ i \in DOMAIN cs /\ calls'[i] = cs[i]
           \/ \E j \in DOMAIN calls : calls'[i] = calls[j]
      /\ 1 \in DOMAIN calls /\ calls[1] = Top
  BY <1>0, <1>1, <1>2, ThenElements
<1>4. \A i \in DOMAIN cs : cs[i].fn = "orphans" =>
        conn[cs[i].p] = "inactive" \/ conn'[cs[i].p] = "inactive"
  BY <1>1, <1>3 DEF Pushes, Cleanups
<1>5. \A i \in DOMAIN calls' : calls'[i].fn = "orphans" =>
        conn[calls'[i].p] = "inactive" \/ conn'[calls'[i].p] = "inactive"
  BY <1>3, <1>4 DEF Cleanups
<1>6. \A i \in DOMAIN calls' : calls'[i].fn = "orphans" => calls'[i].p \in Proc
  BY <1>3, OrphansOf
<1> QED
  BY <1>5, <1>6, InactiveForGood DEF Cleanups

LEMMA OutsideCleanups ==
  ASSUME TypeOK, StartsHavePtype, Cleanups, Outside
  PROVE  Cleanups'
PROOF
<1>1. CASE UNCHANGED calls
  <2>1. \A i \in DOMAIN calls : calls[i].fn = "orphans" => calls[i].p \in Proc
    BY OrphansOf DEF TypeOK
  <2> QED
    BY <1>1, <2>1, InactiveForGood DEF Cleanups
<1>2. CASE Fresh(calls')
  BY <1>2 DEF Fresh, Cleanups
<1> QED
  BY <1>1, <1>2, OutsideCalls

-----------------------------------------------------------------------------
(* The inductive invariant.                                                *)

LEMMA InitInductive == Init => Inductive
PROOF
<1> SUFFICES ASSUME Init PROVE Inductive
  OBVIOUS
<1> USE DEF Init
<1>1. TypeOK
  <2>1. <<>> \in Seq(Frame) /\ <<>> \in Seq(Msg) /\ <<>> \in Seq(Pattern)
    OBVIOUS
  <2> QED
    BY <2>1 DEF TypeOK, MsgState
<1>2. OneLoop /\ LoopsInBounds
  BY DEF OneLoop, LoopsInBounds
<1>3. StartsHavePtype /\ Silent /\ SignalInv
  BY DEF StartsHavePtype, Silent, SignalInv
<1> QED
  BY <1>1, <1>2, <1>3 DEF Inductive

LEMMA InductiveParts ==
  Inductive <=> /\ TypeOK /\ OneLoop /\ LoopsInBounds /\ StartsHavePtype /\ Cleanups
                /\ \A p \in Proc : Signals(p)
PROOF
  BY DEF Inductive, Silent, SignalInv, Cleanups, Signals

LEMMA NextInductive ==
  ASSUME Inductive, [Next]_vars
  PROVE  Inductive'
PROOF
<1>1. /\ TypeOK /\ OneLoop /\ LoopsInBounds /\ StartsHavePtype /\ Cleanups /\ Silent
      /\ \A p \in Proc : Signals(p)
  BY InductiveParts DEF Inductive
<1>2. CASE ServerStep
  <2>1. TypeOK' /\ LoopsInBounds' /\ StartsHavePtype' /\ Cleanups'
    BY <1>1, <1>2, ServerTypes, ServerLoops, ServerStarts, ServerCleanups
  <2>2. OneLoop'
    BY <1>1, <1>2, ServerCalls, ThenOneLoop DEF TypeOK
  <2>3. \A p \in Proc : Signals(p)'
    BY <1>1, <1>2, ServerSignals
  <2> QED
    BY <2>1, <2>2, <2>3 DEF Inductive, Silent, SignalInv, Cleanups, Signals
<1>3. CASE Outside
  <2>1. TypeOK' /\ OneLoop' /\ LoopsInBounds' /\ StartsHavePtype' /\ Cleanups'
    BY <1>1, <1>3, OutsideTypes, OutsideLoops, OutsideStarts, OutsideCleanups
  <2>2. \A p \in Proc : Signals(p)'
    BY <1>1, <1>3, OutsideSignals
  <2> QED
    BY <2>1, <2>2 DEF Inductive, Silent, SignalInv, Cleanups, Signals
<1>4. CASE UNCHANGED vars
  BY <1>4 DEF vars, childVars, procVars, msgVars, queueVars, Inductive, TypeOK, OneLoop,
     LoopsInBounds, StartsHavePtype, Silent, SignalInv
<1> QED
  BY <1>2, <1>3, <1>4 DEF Next, Outside

(* The invariant the other theorems follow from, for any processes,        *)
(* messages, ptypes and dispositions: loops over a queue neither nest nor  *)
(* run past its end, and only requests with a ptype are started.           *)
THEOREM InductiveInvariant == Spec => []Inductive
PROOF
<1>1. Init => Inductive
  BY InitInductive
<1>2. Inductive /\ [Next]_vars => Inductive'
  BY NextInductive
<1> QED
  BY <1>1, <1>2, PTL DEF Spec

(* Every variable keeps its type.                                          *)
THEOREM TypeCorrect == Spec => []TypeOK
PROOF
<1>1. Inductive => TypeOK
  BY DEF Inductive
<1> QED
  BY <1>1, InductiveInvariant, PTL

(* A process has a byte on its channel exactly when it has messages to     *)
(* fetch (add_message, next_message and deactivate of mp_s_procid.C).      *)
THEOREM NoWakeUpLost == Spec => []SignalInv
PROOF
<1>1. Inductive => SignalInv
  BY DEF Inductive
<1> QED
  BY <1>1, InductiveInvariant, PTL

=============================================================================
