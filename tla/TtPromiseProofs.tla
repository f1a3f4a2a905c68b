-------------------------- MODULE TtPromiseProofs --------------------------
(***************************************************************************)
(* That TtServer keeps the promise of TtRequest, and what it rests on: one *)
(* process at a time works on a request, a request that was handled is not *)
(* handed out again, and an open one is somewhere it can be answered from. *)
(* For any processes, messages, operations and ptypes, as long as no       *)
(* signature has the queue disposition: with it requests are dropped, and  *)
(* one that is both started and queued may be given to two processes.      *)
(***************************************************************************)
EXTENDS TtDeliveryProofs

OnlyStarts == \A pt \in Ptype : "queue" \notin Disp[pt]

-----------------------------------------------------------------------------
(* Where a message is.                                                     *)

Waits(pr, msg) == In(msg, undelivered[pr])
Queued(msg) == \E pt \in Ptype : In(msg, ptype_queue[pt])

(* A call of the function fn with the message is on the stack, or is among *)
(* those beneath the innermost call.                                       *)
On(fn, msg) == \E i \in DOMAIN calls : calls[i].fn = fn /\ calls[i].m = msg
Beneath(fn, msg) ==
  \E i \in DOMAIN calls : i # 1 /\ calls[i].fn = fn /\ calls[i].m = msg

(* The ptype's queue is being delivered, and the message is its first.     *)
Delivers(pt) ==
  \E i \in DOMAIN calls : calls[i].fn = "redelivered" /\ calls[i].t = pt
DeliversBeneath(pt) ==
  \E i \in DOMAIN calls : i # 1 /\ calls[i].fn = "redelivered" /\ calls[i].t = pt
Offered(msg) == \E pt \in Ptype : Delivers(pt) /\ msg = Head(ptype_queue[pt])

(* The process is no longer active, or is about to be made so.             *)
Leaving(pr) == conn[pr] # "active" \/ (Running("deactivate") /\ Top.p = pr)

-----------------------------------------------------------------------------
(* What calls are on the stack after a step.                               *)

Makes(cs, fn, msg) == \E i \in DOMAIN cs : cs[i].fn = fn /\ cs[i].m = msg
MakesDelivers(cs, pt) ==
  \E i \in DOMAIN cs : cs[i].fn = "redelivered" /\ cs[i].t = pt

LEMMA StackAfter ==
  ASSUME TypeOK, calls # <<>>, NEW cs \in Seq(Frame), Then(cs)
  PROVE  /\ \A fn, x : On(fn, x)' <=> Makes(cs, fn, x) \/ Beneath(fn, x)
         /\ \A pt : Delivers(pt)' <=> MakesDelivers(cs, pt) \/ DeliversBeneath(pt)
PROOF
<1>0. calls \in Seq(Frame)
  BY DEF TypeOK
<1>1. /\ \A i \in DOMAIN cs : i \in DOMAIN calls' /\ calls'[i] = cs[i]
      /\ \A i \in DOMAIN calls : i # 1 =>
           \E j \in DOMAIN calls' : calls'[j] = calls[i]
  BY <1>0, ThenKeeps
<1>2. \A j \in DOMAIN calls' :
        \/ j \in DOMAIN cs /\ calls'[j] = cs[j]
        \/ \E i \in DOMAIN calls : i # 1 /\ calls'[j] = calls[i]
  BY <1>0, ThenElements
<1>3. ASSUME NEW fn, NEW x
      PROVE  On(fn, x)' <=> Makes(cs, fn, x) \/ Beneath(fn, x)
  <2>1. ASSUME On(fn, x)' PROVE Makes(cs, fn, x) \/ Beneath(fn, x)
    <3>1. PICK j \in DOMAIN calls' : calls'[j].fn = fn /\ calls'[j].m = x
      BY <2>1 DEF On
    <3> QED
      BY <1>2, <3>1 DEF Makes, Beneath
  <2>2. ASSUME Makes(cs, fn, x) \/ Beneath(fn, x) PROVE On(fn, x)'
    BY <1>1, <2>2 DEF Makes, Beneath, On
  <2> QED
    BY <2>1, <2>2
<1>4. ASSUME NEW pt
      PROVE  Delivers(pt)' <=> MakesDelivers(cs, pt) \/ DeliversBeneath(pt)
  <2>1. ASSUME Delivers(pt)' PROVE MakesDelivers(cs, pt) \/ DeliversBeneath(pt)
    <3>1. PICK j \in DOMAIN calls' : calls'[j].fn = "redelivered" /\ calls'[j].t = pt
      BY <2>1 DEF Delivers
    <3> QED
      BY <1>2, <3>1 DEF MakesDelivers, DeliversBeneath
  <2>2. ASSUME MakesDelivers(cs, pt) \/ DeliversBeneath(pt) PROVE Delivers(pt)'
    BY <1>1, <2>2 DEF MakesDelivers, DeliversBeneath, Delivers
  <2> QED
    BY <2>1, <2>2
<1> QED
  BY <1>3, <1>4

LEMMA StackBefore ==
  ASSUME calls \in Seq(Frame), calls # <<>>
  PROVE  /\ \A fn, x : On(fn, x) <=> (Top.fn = fn /\ Top.m = x) \/ Beneath(fn, x)
         /\ \A pt : Delivers(pt) <=>
              (Top.fn = "redelivered" /\ Top.t = pt) \/ DeliversBeneath(pt)
PROOF
<1>1. 1 \in DOMAIN calls /\ calls[1] = Top
  BY DEF Top
<1> QED
  BY <1>1 DEF On, Beneath, Delivers, DeliversBeneath

LEMMA Few ==
  /\ \A fn, x : ~Makes(<<>>, fn, x)
  /\ \A f, fn, x : Makes(<<f>>, fn, x) <=> f.fn = fn /\ f.m = x
  /\ \A f, g, fn, x : Makes(<<f, g>>, fn, x) <=>
       (f.fn = fn /\ f.m = x) \/ (g.fn = fn /\ g.m = x)
  /\ \A pt : ~MakesDelivers(<<>>, pt)
  /\ \A f, pt : MakesDelivers(<<f>>, pt) <=> f.fn = "redelivered" /\ f.t = pt
  /\ \A f, g, pt : MakesDelivers(<<f, g>>, pt) <=>
       (f.fn = "redelivered" /\ f.t = pt) \/ (g.fn = "redelivered" /\ g.t = pt)
PROOF
<1>1. ASSUME NEW f, NEW g
      PROVE  /\ DOMAIN <<f>> = {1} /\ <<f>>[1] = f
             /\ DOMAIN <<f, g>> = {1, 2} /\ <<f, g>>[1] = f /\ <<f, g>>[2] = g
  OBVIOUS
<1> QED
  BY <1>1 DEF Makes, MakesDelivers

-----------------------------------------------------------------------------
(* The order of the calls on the stack.                                    *)

(* How deep in the stack a call is: what reports and cleans up is called   *)
(* by the functions that deliver, those by the loops over a queue, and     *)
(* these by update_message.                                                *)
Depth(f) ==
  IF f.fn \in {"report", "deactivate"} THEN 0
  ELSE IF f.fn = "orphans" THEN 1
  ELSE IF f.fn \in {"deliver", "queue", "start_failed", "launch_failed"} THEN 2
  ELSE IF f.fn = "update" THEN 4
  ELSE 3

Above(f, g) == Depth(f) < Depth(g) \/ (Depth(f) = 1 /\ Depth(g) = 1)

(* Only cleanups nest.                                                     *)
Layered == \A i, j \in DOMAIN calls : i < j => Above(calls[i], calls[j])

(* Calls that may take the place of the innermost one.                     *)
Fits(cs) ==
  /\ cs \in Seq(Frame)
  /\ \A i, j \in DOMAIN cs : i < j => Above(cs[i], cs[j])
  /\ \A i \in DOMAIN cs : Depth(cs[i]) <= Depth(Top) \/ Depth(cs[i]) <= 1

LEMMA DepthNat == \A f : Depth(f) \in 0..4
PROOF
  BY DEF Depth

LEMMA ThenLayered ==
  ASSUME TypeOK, calls # <<>>, Layered, NEW cs, Fits(cs), Then(cs)
  PROVE  Layered'
PROOF
<1>0. calls \in Seq(Frame) /\ cs \in Seq(Frame)
  BY DEF TypeOK, Fits
<1>1. /\ \A i \in DOMAIN calls' :
           \/ i \in DOMAIN cs /\ calls'[i] = cs[i]
           \/ /\ i \notin DOMAIN cs /\ i - Len(cs) + 1 \in DOMAIN calls
              /\ i - Len(cs) + 1 # 1
              /\ calls'[i] = calls[i - Len(cs) + 1]
      /\ 1 \in DOMAIN calls /\ calls[1] = Top
      /\ \A i \in DOMAIN calls' : i \in Nat
      /\ Len(cs) \in Nat
  BY <1>0, ThenElements
<1>2. SUFFICES ASSUME NEW i \in DOMAIN calls', NEW j \in DOMAIN calls', i < j
               PROVE  Above(calls'[i], calls'[j])
  BY DEF Layered, Above
<1>3. i \in Nat /\ j \in Nat /\ Len(cs) \in Nat
      /\ DOMAIN cs = 1..Len(cs) /\ DOMAIN calls' = 1..Len(calls')
  <2>1. calls' \in Seq(Frame)
    BY <1>0, ThenElements
  <2> QED
    BY <1>0, <1>1, <2>1
<1>4. CASE j \in DOMAIN cs
  <2>1. i \in DOMAIN cs
    BY <1>2, <1>3, <1>4
  <2> QED
    BY <1>1, <1>2, <1>4, <2>1 DEF Fits
<1>5. CASE i \in DOMAIN cs /\ j \notin DOMAIN cs
  <2> DEFINE k == j - Len(cs) + 1
  <2>1. k \in DOMAIN calls /\ k # 1 /\ calls'[j] = calls[k]
    BY <1>1, <1>5
  <2>2. 1 < k
    BY <1>0, <2>1
  <2>3. Above(Top, calls[k])
    BY <1>1, <2>1, <2>2 DEF Layered
  <2>4. calls'[i] = cs[i] /\ (Depth(cs[i]) <= Depth(Top) \/ Depth(cs[i]) <= 1)
    BY <1>1, <1>5 DEF Fits
  <2> HIDE DEF k
  <2>5. /\ Depth(Top) \in 0..4 /\ Depth(cs[i]) \in 0..4 /\ Depth(calls[k]) \in 0..4
    BY DepthNat
  <2>6. Above(cs[i], calls[k])
    BY <2>3, <2>4, <2>5 DEF Above
  <2> QED
    BY <2>1, <2>4, <2>6
<1>6. CASE i \notin DOMAIN cs /\ j \notin DOMAIN cs
  <2>1. /\ i - Len(cs) + 1 \in DOMAIN calls /\ calls'[i] = calls[i - Len(cs) + 1]
        /\ j - Len(cs) + 1 \in DOMAIN calls /\ calls'[j] = calls[j - Len(cs) + 1]
    BY <1>1, <1>6
  <2>2. i - Len(cs) + 1 < j - Len(cs) + 1
    BY <1>2, <1>3
  <2> QED
    BY <2>1, <2>2 DEF Layered
<1> QED
  BY <1>4, <1>5, <1>6

(* Under the innermost call there are only those it may be called by.      *)
LEMMA BeneathTop ==
  ASSUME calls \in Seq(Frame), calls # <<>>, Layered
  PROVE  /\ \A fn, x : Beneath(fn, x) => \E f \in Frame : f.fn = fn /\ Above(Top, f)
         /\ \A pt : DeliversBeneath(pt) =>
              \E f \in Frame : f.fn = "redelivered" /\ Above(Top, f)
         /\ \A i \in DOMAIN calls : i # 1 => Above(Top, calls[i])
PROOF
<1>1. 1 \in DOMAIN calls /\ calls[1] = Top
  BY DEF Top
<1>2. \A i \in DOMAIN calls : i # 1 => 1 < i /\ calls[i] \in Frame
  OBVIOUS
<1>3. \A i \in DOMAIN calls : i # 1 => Above(Top, calls[i]) /\ calls[i] \in Frame
  BY <1>1, <1>2 DEF Layered
<1> QED
  BY <1>3 DEF Beneath, DeliversBeneath
(* One call, or a report or deactivate before calls that are neither.      *)
LEMMA FitOne ==
  ASSUME NEW f \in Frame, Depth(f) <= Depth(Top) \/ Depth(f) <= 1
  PROVE  Fits(<<f>>)
PROOF
<1>1. <<f>> \in Seq(Frame) /\ DOMAIN <<f>> = {1} /\ <<f>>[1] = f
  OBVIOUS
<1>2. ~(1 < 1)
  OBVIOUS
<1> QED
  BY <1>1, <1>2 DEF Fits

LEMMA FitTwo ==
  ASSUME NEW f \in Frame, NEW g \in Frame, Above(f, g), Depth(g) <= Depth(Top)
  PROVE  Fits(<<f, g>>)
PROOF
<1>1. /\ <<f, g>> \in Seq(Frame) /\ DOMAIN <<f, g>> = {1, 2}
      /\ <<f, g>>[1] = f /\ <<f, g>>[2] = g
  OBVIOUS
<1>2. Depth(f) <= Depth(Top) \/ Depth(f) <= 1
  BY DepthNat DEF Above
<1> QED
  BY <1>1, <1>2 DEF Fits

Rest(cs) == Fits(cs) /\ \A i \in DOMAIN cs : Depth(cs[i]) >= 1

LEMMA RestFew ==
  /\ Rest(<<>>)
  /\ \A f \in Frame : 1 <= Depth(f) /\ Depth(f) <= Depth(Top) => Rest(<<f>>)
PROOF
<1>1. Fits(<<>>) /\ Rest(<<>>)
  BY DEF Fits, Rest
<1>2. ASSUME NEW f \in Frame, 1 <= Depth(f), Depth(f) <= Depth(Top)
      PROVE  Rest(<<f>>)
  <2>1. DOMAIN <<f>> = {1} /\ <<f>>[1] = f
    OBVIOUS
  <2>2. Fits(<<f>>) /\ Depth(f) >= 1
    BY <1>2, FitOne, DepthNat
  <2> QED
    BY <2>1, <2>2 DEF Rest
<1> QED
  BY <1>1, <1>2

LEMMA FitFirst ==
  ASSUME NEW f \in Frame, Depth(f) = 0, NEW rest, Rest(rest)
  PROVE  Fits(<<f>> \o rest)
PROOF
<1> DEFINE cs == <<f>> \o rest
<1>1. rest \in Seq(Frame) /\ <<f>> \in Seq(Frame) /\ Fits(rest)
  BY DEF Rest, Fits
<1>2. cs \in Seq(Frame) /\ Len(cs) = Len(rest) + 1
  BY <1>1
<1>3. \A i \in DOMAIN cs :
        \/ i = 1 /\ cs[i] = f
        \/ i # 1 /\ i - 1 \in DOMAIN rest /\ cs[i] = rest[i - 1]
  BY <1>1, <1>2
<1>4. \A i \in DOMAIN cs : i \in Nat /\ i >= 1
  BY <1>2
<1> HIDE DEF cs
<1>5. \A i \in DOMAIN cs : Depth(cs[i]) <= Depth(Top) \/ Depth(cs[i]) <= 1
  BY <1>1, <1>3 DEF Fits
<1>6. ASSUME NEW i \in DOMAIN cs, NEW j \in DOMAIN cs, i < j
      PROVE  Above(cs[i], cs[j])
  <2>1. j # 1 /\ j - 1 \in DOMAIN rest /\ cs[j] = rest[j - 1]
    BY <1>3, <1>4, <1>6
  <2>2. CASE i = 1
    <3>1. Depth(cs[j]) >= 1 /\ Depth(cs[j]) \in 0..4
      BY <2>1, DepthNat DEF Rest
    <3> QED
      BY <1>3, <2>2, <3>1 DEF Above
  <2>3. CASE i # 1
    <3>1. i - 1 \in DOMAIN rest /\ cs[i] = rest[i - 1] /\ i - 1 < j - 1
      BY <1>3, <1>4, <1>6, <2>1, <2>3
    <3> QED
      BY <1>1, <2>1, <3>1 DEF Fits
  <2> QED
    BY <2>2, <2>3
<1>7. Fits(cs)
  BY <1>2, <1>5, <1>6 DEF Fits
<1> QED
  BY <1>7 DEF cs

LEMMA AddMessageFits ==
  ASSUME NEW pr \in Proc, NEW msg, NEW ok, NEW lost, Rest(ok), Rest(lost),
         AddMessage(pr, msg, ok, lost)
  PROVE  \E cs : Fits(cs) /\ Then(cs)
PROOF
<1>1. OnProc("deactivate", pr) \in Frame /\ Depth(OnProc("deactivate", pr)) = 0
  BY Frames DEF Depth
<1>2. Fits(<<OnProc("deactivate", pr)>> \o lost)
  BY <1>1, FitFirst
<1>3. Then(ok) \/ Then(lost) \/ Then(<<OnProc("deactivate", pr)>> \o lost)
  BY DEF AddMessage
<1> QED
  BY <1>2, <1>3 DEF Rest

LEMMA FinishFits ==
  ASSUME NEW msg \in Msg, NEW s, NEW rest, Rest(rest), Finish(msg, s, rest)
  PROVE  \E cs : Fits(cs) /\ Then(cs)
PROOF
<1>1. OnMsg("report", msg) \in Frame /\ Depth(OnMsg("report", msg)) = 0
  BY Frames DEF Depth
<1>2. Fits(<<OnMsg("report", msg)>> \o rest)
  BY <1>1, FitFirst
<1> QED
  BY <1>2 DEF Finish, Rest

LEMMA ServerFits ==
  ASSUME TypeOK, queued = <<>>, LoopsInBounds, ServerStep
  PROVE  \E cs : Fits(cs) /\ Then(cs)
PROOF
<1> USE DEF Running
<1>a. calls # <<>> /\ calls \in Seq(Frame)
  BY ServerCalls DEF TypeOK
<1>b. /\ Top \in Frame
      /\ Top.i \in Nat \ {0}
      /\ Top.fn \in MsgCalls => Top.m \in Msg
      /\ Top.fn \in ProcCalls => Top.p \in Proc
      /\ Top.fn \in TypeCalls => Top.t \in Ptype
      /\ Top.m \in Msg \union {NoMsg}
  BY <1>a, TopTypes
<1>c. /\ \A f : Depth(f) \in 0..4
      /\ \A f : f.fn = "orphans" => Depth(f) = 1
      /\ \A f : f.fn \in {"deliver", "queue", "start_failed", "launch_failed"}
                  => Depth(f) = 2
      /\ \A f : f.fn \in {"proc_started", "proc_replied", "redeliver", "redelivered",
                          "pattern_added", "pattern_delivered"} => Depth(f) = 3
      /\ \A f : f.fn = "update" => Depth(f) = 4
      /\ \A f : f.fn \in {"report", "deactivate"} => Depth(f) = 0
  BY DepthNat DEF Depth
<1>d. Fits(<<>>) /\ Rest(<<>>)
  BY RestFew DEF Rest
<1>e. Top.fn \in {"deliver", "orphans"} => Rest(<<Top>>)
  BY <1>b, <1>c, RestFew
<1>f. /\ \A msg \in Msg : OnMsg("deliver", msg) \in Frame /\ OnMsg("deliver", msg).fn = "deliver"
      /\ \A msg \in Msg : OnMsg("queue", msg) \in Frame /\ OnMsg("queue", msg).fn = "queue"
      /\ \A msg \in Msg : OnMsg("report", msg) \in Frame /\ OnMsg("report", msg).fn = "report"
      /\ \A msg \in Msg : OnMsg("start_failed", msg) \in Frame
                          /\ OnMsg("start_failed", msg).fn = "start_failed"
      /\ \A pr \in Proc : OnProc("orphans", pr) \in Frame /\ OnProc("orphans", pr).fn = "orphans"
      /\ \A pt \in Ptype : OnType("redeliver", pt) \in Frame
                           /\ OnType("redeliver", pt).fn = "redeliver"
      /\ \A pt \in Ptype : OnType("redelivered", pt) \in Frame
                           /\ OnType("redelivered", pt).fn = "redelivered"
      /\ \A pt \in Ptype : OnType("launch_failed", pt) \in Frame
                           /\ OnType("launch_failed", pt).fn = "launch_failed"
  BY Frames DEF TypeCalls, ProcCalls
<1> USE DEF MsgCalls, ProcCalls, TypeCalls
<1>1. CASE Report
  <2>1. SenderOf[Top.m] \in Proc
    BY <1>1, <1>b, ConstantsAssumption DEF Report
  <2> QED
    BY <1>1, <1>d, <2>1, AddMessageFits DEF Report
<1>2. CASE DeliverToHandler
  <2>1. PICK pr \in Proc : AddMessage(pr, Top.m, <<>>, <<Top>>)
    BY <1>2, <1>a, HandlerChosen
  <2>2. Rest(<<Top>>)
    BY <1>2, <1>e DEF DeliverToHandler
  <2> QED
    BY <2>1, <2>2, <1>d, AddMessageFits
<1>3. CASE NoRecipientsStart
  <2>1. PICK msg \in Msg :
          \/ Then(<<OnMsg("report", msg), OnMsg("queue", msg)>>)
          \/ Then(<<OnMsg("start_failed", msg)>>)
    BY <1>3 DEF NoRecipientsStart
  <2>2. Depth(Top) = 2
    <3>1. Top.fn = "deliver"
      BY <1>3 DEF NoRecipientsStart, NoHandler
    <3> QED
      BY <3>1, <1>c
  <2>3. Fits(<<OnMsg("start_failed", msg)>>)
    BY <1>c, <1>f, <2>2, FitOne
  <2>4. Fits(<<OnMsg("report", msg), OnMsg("queue", msg)>>)
    <3>1. Above(OnMsg("report", msg), OnMsg("queue", msg))
      BY <1>c, <1>f DEF Above
    <3> QED
      BY <1>c, <1>f, <2>2, <3>1, FitTwo
  <2> QED
    BY <2>1, <2>3, <2>4
<1>4. CASE StartFailed \/ UpdateFinal
  BY <1>4, <1>b, <1>d, FinishFits DEF StartFailed, UpdateFinal
<1>5. CASE NoRecipientsQueue
  <2>1. PICK msg \in Msg : HonourQueue(msg)
    BY <1>5, <1>b DEF NoRecipientsQueue
  <2>2. Fits(<<OnMsg("report", msg)>>)
    BY <1>c, <1>f, FitOne
  <2>3. Finish(msg, "FAILED", <<>>) \/ Then(<<>>) \/ Then(<<OnMsg("report", msg)>>)
    BY <2>1 DEF HonourQueue
  <2> QED
    BY <2>2, <2>3, <1>d, FinishFits
<1>6. CASE Deactivate
  <2>1. Then(<<OnProc("orphans", Top.p)>>) \/ Then(<<>>)
    BY <1>6 DEF Deactivate
  <2>2. Fits(<<OnProc("orphans", Top.p)>>)
    BY <1>6, <1>b, <1>c, <1>f, FitOne DEF Deactivate
  <2> QED
    BY <2>1, <2>2, <1>d
<1>7. CASE OrphanUndelivered
  <2>1. Rest(<<Top>>)
    BY <1>7, <1>e DEF OrphanUndelivered
  <2>2. Head(undelivered[Top.p]) \in Msg
    BY <1>7, <1>b DEF OrphanUndelivered, TypeOK
  <2>3. \/ Finish(Head(undelivered[Top.p]), "FAILED", <<Top>>)
        \/ Then(<<Top>>)
    BY <1>7 DEF OrphanUndelivered
  <2> QED
    BY <2>1, <2>2, <2>3, FinishFits DEF Rest
<1>8. CASE OrphanDelivered
  <2>1. Rest(<<Top>>)
    BY <1>8, <1>e DEF OrphanDelivered
  <2>2. Head(delivered[Top.p]) \in Msg
    BY <1>8, <1>b DEF OrphanDelivered, TypeOK
  <2>3. Finish(Head(delivered[Top.p]), "FAILED", <<Top>>)
    BY <1>8 DEF OrphanDelivered
  <2> QED
    BY <2>1, <2>2, <2>3, FinishFits
<1>9. CASE ProcStarted
  <2> DEFINE msg  == Head(ptype_queue[Top.t])
             fail == [OnType("launch_failed", Top.t) EXCEPT !.m = msg]
  <2>1. msg \in Msg /\ Top.t \in Ptype /\ Top.p \in Proc
    BY <1>9, <1>b DEF ProcStarted, TypeOK
  <2> HIDE DEF msg
  <2>2. fail \in Frame /\ fail.fn = "launch_failed"
    <3>1. /\ OnType("launch_failed", Top.t) \in Frame
          /\ OnType("launch_failed", Top.t).fn = "launch_failed"
      BY <2>1, <1>f
    <3> QED
      BY <2>1, <3>1 DEF Frame
  <2>3. AddMessage(Top.p, msg, <<>>, <<fail>>)
    BY <1>9 DEF ProcStarted, msg
  <2> HIDE DEF fail
  <2>4. Rest(<<fail>>)
    BY <1>9, <1>c, <2>2, RestFew DEF ProcStarted
  <2> QED
    BY <2>1, <2>3, <2>4, <1>d, AddMessageFits
<1>10. CASE ProcReplied \/ Redelivered
  <2>1. Then(<<OnType("redeliver", Top.t)>>) \/ Then(<<>>)
    BY <1>10 DEF ProcReplied, Redelivered
  <2>2. Fits(<<OnType("redeliver", Top.t)>>)
    BY <1>10, <1>b, <1>c, <1>f, FitOne DEF ProcReplied, Redelivered
  <2> QED
    BY <2>1, <2>2, <1>d
<1>11. CASE Redeliver
  <2>1. CASE ptype_queue[Top.t] = <<>>
    BY <1>11, <2>1, <1>d DEF Redeliver
  <2>2. CASE ptype_queue[Top.t] # <<>>
    <3> DEFINE msg == Head(ptype_queue[Top.t])
    <3>1. msg \in Msg /\ Top.t \in Ptype
      BY <1>11, <2>2, <1>b DEF Redeliver, TypeOK
    <3>2. Then(<<OnMsg("deliver", msg), OnType("redelivered", Top.t)>>)
      BY <1>11, <2>2 DEF Redeliver
    <3> HIDE DEF msg
    <3>3. Above(OnMsg("deliver", msg), OnType("redelivered", Top.t))
      BY <3>1, <1>c, <1>f DEF Above
    <3>4. Depth(OnType("redelivered", Top.t)) <= Depth(Top)
      BY <1>11, <3>1, <1>c, <1>f DEF Redeliver
    <3> QED
      BY <1>f, <3>1, <3>2, <3>3, <3>4, FitTwo
  <2> QED
    BY <2>1, <2>2
<1>12. CASE LaunchFailed
  <2> DEFINE again == <<OnType("launch_failed", Top.t)>>
  <2>1. Rest(again)
    BY <1>12, <1>b, <1>c, <1>f, RestFew DEF LaunchFailed
  <2>2. Top.t \in Ptype
    BY <1>12, <1>b DEF LaunchFailed
  <2>3. \/ Top.m # NoMsg /\ Finish(Top.m, "FAILED", again)
        \/ /\ ptype_queue[Top.t] # <<>>
           /\ Finish(Head(ptype_queue[Top.t]), "FAILED", again)
        \/ Then(<<>>)
    BY <1>12 DEF LaunchFailed
  <2>4. ptype_queue[Top.t] # <<>> => Head(ptype_queue[Top.t]) \in Msg
    BY <2>2 DEF TypeOK
  <2> HIDE DEF again
  <2> QED
    BY <1>b, <1>d, <2>1, <2>3, <2>4, FinishFits
<1>13. CASE PatternAdded
  <2>1. Top.i > Len(queued)
    BY <1>b
  <2> QED
    BY <1>13, <1>d, <2>1 DEF PatternAdded
<1>14. ~PatternDelivered
  BY <1>a DEF PatternDelivered, LoopsInBounds, Top
<1>15. CASE UpdateRejected
  <2>1. Fits(<<OnMsg("deliver", Top.m)>>)
    BY <1>15, <1>b, <1>c, <1>f, FitOne DEF UpdateRejected
  <2> QED
    BY <1>15, <2>1 DEF UpdateRejected
<1>16. CASE Then(<<>>)
  BY <1>16, <1>d
<1> QED
  BY <1>1, <1>2, <1>3, <1>4, <1>5, <1>6, <1>7, <1>8, <1>9, <1>10, <1>11, <1>12,
     <1>13, <1>14, <1>15, <1>16
  DEF ServerStep, DeliverToNobody, OrphansDone, ProcStartedIdly, UpdateUnknown

(* The calls a request makes are in that order, too.                       *)
LEMMA NextLayered ==
  ASSUME TypeOK, queued = <<>>, LoopsInBounds, StartsHavePtype, Layered,
         ServerStep \/ Outside
  PROVE  Layered'
PROOF
<1>1. CASE ServerStep
  BY <1>1, ServerCalls, ServerFits, ThenLayered
<1>2. CASE Outside
  <2>1. ASSUME NEW f, calls' = <<f>>
        PROVE  Layered'
    <3>1. DOMAIN calls' = {1} /\ ~(1 < 1)
      BY <2>1
    <3> QED
      BY <3>1 DEF Layered
  <2>2. CASE UNCHANGED calls
    BY <2>2 DEF Layered, Above, Depth
  <2>3. CASE calls' = <<>>
    BY <2>3 DEF Layered
  <2>4. ASSUME NEW f, NEW g, f.fn = "proc_replied", g.fn = "update", calls' = <<f, g>>
        PROVE  Layered'
    <3>1. DOMAIN calls' = {1, 2} /\ calls'[1] = f /\ calls'[2] = g
      BY <2>4
    <3>2. Above(f, g)
      BY <2>4 DEF Above, Depth
    <3>3. \A i, j \in {1, 2} : i < j => i = 1 /\ j = 2
      OBVIOUS
    <3> QED
      BY <3>1, <3>2, <3>3 DEF Layered, Above, Depth
  <2>5. ASSUME NEW pr \in Proc, NEW msg \in Msg, NEW s \in Answer, Update(pr, msg, s)
        PROVE  Layered'
    <3> DEFINE answer  == [OnMsg("update", msg) EXCEPT !.p = pr, !.s = s]
               replied == OnType("proc_replied", SigPtype[OpOf[msg]])
    <3>1. answer.fn = "update" /\ replied.fn = "proc_replied"
      BY UpdateFrame DEF OnType, Call
    <3>2. calls' = <<replied, answer>> \/ calls' = <<answer>>
      BY <2>5 DEF Update
    <3> HIDE DEF answer, replied
    <3> QED
      BY <2>1, <2>4, <3>1, <3>2
  <2>6. \/ UNCHANGED calls \/ calls' = <<>> \/ \E f : calls' = <<f>>
        \/ \E pr \in Proc, msg \in Msg, s \in Answer : Update(pr, msg, s)
    BY <1>2, OutsideMakes
  <2> QED
    BY <2>1, <2>2, <2>3, <2>5, <2>6
<1> QED
  BY <1>1, <1>2
-----------------------------------------------------------------------------
(* Sequences without duplicates.                                           *)

Once(q) == \A i, j \in DOMAIN q : q[i] = q[j] => i = j

LEMMA OnceRemoveAt ==
  ASSUME NEW S, NEW q \in Seq(S), NEW i \in DOMAIN q, Once(q)
  PROVE  Once(RemoveAt(q, i)) /\ ~In(q[i], RemoveAt(q, i))
PROOF
<1>1. /\ DOMAIN RemoveAt(q, i) = 1..(Len(q) - 1)
      /\ \A j \in 1..(Len(q) - 1) :
           RemoveAt(q, i)[j] = IF j < i THEN q[j] ELSE q[j + 1]
  BY RemoveAtElements
<1>2. Len(q) \in Nat /\ DOMAIN q = 1..Len(q) /\ i \in 1..Len(q)
  OBVIOUS
<1> DEFINE r == RemoveAt(q, i)
           At(j) == IF j < i THEN j ELSE j + 1
<1>3. \A j \in 1..(Len(q) - 1) : At(j) \in DOMAIN q /\ r[j] = q[At(j)] /\ At(j) # i
  BY <1>1, <1>2
<1>4. \A j, k \in 1..(Len(q) - 1) : At(j) = At(k) => j = k
  BY <1>2
<1>5. DOMAIN r = 1..(Len(q) - 1)
  BY <1>1
<1> HIDE DEF r, At
<1>6. Once(r)
  BY <1>3, <1>4, <1>5 DEF Once
<1>7. ~In(q[i], r)
  BY <1>3, <1>5 DEF Once, In
<1> QED
  BY <1>6, <1>7 DEF r

LEMMA OnceAppend ==
  ASSUME NEW S, NEW q \in Seq(S), NEW x \in S, Once(q), ~In(x, q)
  PROVE  Once(Append(q, x))
PROOF
<1> DEFINE r == Append(q, x)
<1>1. /\ Len(q) \in Nat /\ DOMAIN q = 1..Len(q)
      /\ DOMAIN r = 1..(Len(q) + 1)
      /\ r[Len(q) + 1] = x
      /\ \A i \in DOMAIN q : r[i] = q[i]
  OBVIOUS
<1> HIDE DEF r
<1>2. \A i \in DOMAIN r : i \in DOMAIN q \/ i = Len(q) + 1
  BY <1>1
<1>3. Once(r)
  BY <1>1, <1>2 DEF Once, In
<1> QED
  BY <1>3 DEF r

LEMMA OnceTail ==
  ASSUME NEW S, NEW q \in Seq(S), q # <<>>, Once(q)
  PROVE  Once(Tail(q)) /\ ~In(Head(q), Tail(q))
PROOF
<1> DEFINE r == Tail(q)
<1>1. /\ Len(q) \in Nat /\ DOMAIN q = 1..Len(q) /\ 1 \in DOMAIN q
      /\ DOMAIN r = 1..(Len(q) - 1)
      /\ \A i \in DOMAIN r : r[i] = q[i + 1]
      /\ Head(q) = q[1]
  OBVIOUS
<1> HIDE DEF r
<1>2. \A i \in DOMAIN r : i \in Nat /\ i >= 1 /\ i + 1 \in DOMAIN q
  BY <1>1
<1>3. Once(r)
  BY <1>1, <1>2 DEF Once
<1>4. ~In(Head(q), r)
  BY <1>1, <1>2 DEF Once, In
<1> QED
  BY <1>3, <1>4 DEF r

LEMMA OnceCons ==
  ASSUME NEW S, NEW q \in Seq(S), NEW x \in S, Once(q), ~In(x, q)
  PROVE  Once(<<x>> \o q)
PROOF
<1> DEFINE r == <<x>> \o q
<1>1. /\ Len(q) \in Nat /\ DOMAIN q = 1..Len(q)
      /\ DOMAIN r = 1..(Len(q) + 1)
      /\ r[1] = x
      /\ \A i \in DOMAIN r : i # 1 => r[i] = q[i - 1]
  OBVIOUS
<1> HIDE DEF r
<1>2. \A i \in DOMAIN r : i \in Nat /\ (i # 1 => i - 1 \in DOMAIN q)
  BY <1>1
<1>3. \A i, j \in DOMAIN r : i - 1 = j - 1 => i = j
  BY <1>2
<1>4. Once(r)
  BY <1>1, <1>2, <1>3 DEF Once, In
<1> QED
  BY <1>4 DEF r

-----------------------------------------------------------------------------
(* The inductive invariant, for one request.                               *)

(* Its final state is the one that was reported, and the sender knows no   *)
(* other; what was not sent yet has no handler; nothing has the queue      *)
(* disposition.                                                            *)
OneOutcome(msg) ==
  /\ \A s \in Final : s \in state_reported[msg] <=> state[msg] = s
  /\ state[msg] = "CREATED" => handler[msg] = NoProc /\ state_reported[msg] = {}
  /\ sender_copy[msg] \in Final => state[msg] = sender_copy[msg]
  /\ "queue" \notin reliability[msg] /\ state[msg] # "QUEUED"

(* Who owes an answer for it is its handler, and it is nowhere else.       *)
OneWorker(msg) ==
  \A pr \in Proc : Owes(pr, msg) =>
    /\ handler[msg] = pr /\ Awaiting(msg)
    /\ ~Waits(pr, msg) /\ ~Queued(msg)
    /\ ~On("deliver", msg) /\ ~On("start_failed", msg) /\ ~On("launch_failed", msg)

(* The handler of an open request has it.                                  *)
HandlerHasIt(msg) ==
  \A pr \in Proc : handler[msg] = pr /\ Awaiting(msg) =>
    Waits(pr, msg) \/ Owes(pr, msg)

(* What is queued on a ptype waits for a start that was reported.  It has  *)
(* no handler, except the first of the queue while that is delivered.      *)
WaitsForStart(msg) ==
  Queued(msg) =>
    /\ "STARTED" \in state_reported[msg] /\ "start" \in reliability[msg]
    /\ ~On("start_failed", msg) /\ ~On("launch_failed", msg)
    /\ (Awaiting(msg) /\ handler[msg] = NoProc) \/ Offered(msg)

(* What is being delivered was not started before unless it is queued; if  *)
(* it has a handler, that one is going away.                               *)
Deliverable(msg) ==
  On("deliver", msg) =>
    /\ "STARTED" \in state_reported[msg] => Queued(msg)
    /\ Queued(msg) => Offered(msg)
    /\ \A pr \in Proc : handler[msg] = pr /\ Awaiting(msg) => Leaving(pr)

(* What is about to fail has no other outcome; what is about to be         *)
(* reported is not with a handler.                                         *)
Called(msg) ==
  /\ On("start_failed", msg) \/ On("launch_failed", msg) =>
       Awaiting(msg) \/ state[msg] = "FAILED"
  /\ On("queue", msg) => "start" \in reliability[msg]
  /\ On("report", msg) => state[msg] \in Final \/ handler[msg] = NoProc

Somewhere(msg) ==
  Awaiting(msg) => \/ handler[msg] # NoProc \/ Queued(msg)
                   \/ On("deliver", msg) \/ On("start_failed", msg)

Sound(msg) ==
  /\ OneOutcome(msg) /\ OneWorker(msg) /\ HandlerHasIt(msg) /\ WaitsForStart(msg)
  /\ Deliverable(msg) /\ Called(msg) /\ Somewhere(msg)

(* No list has a message twice.                                            *)
Singly ==
  /\ \A pr \in Proc : Once(undelivered[pr]) /\ Once(delivered[pr])
  /\ \A pt \in Ptype : Once(ptype_queue[pt])

(* The loop over a ptype's queue waits for the delivery of the first       *)
(* message, and then knows whether it found a handler.                     *)
LoopKnows ==
  \A i \in DOMAIN calls : calls[i].fn = "redelivered" =>
    LET msg == Head(ptype_queue[calls[i].t])
    IN  IF i = 1
        THEN IF ret THEN handler[msg] # NoProc \/ state[msg] \in Final
                    ELSE handler[msg] = NoProc /\ Awaiting(msg)
        ELSE calls[i - 1].fn = "deliver" /\ calls[i - 1].m = msg

Promise ==
  /\ Delivery /\ Layered /\ Singly /\ LoopKnows /\ queued = <<>>
  /\ \A msg \in Msg : Sound(msg)

LEMMA Parts ==
  ASSUME Promise
  PROVE  /\ TypeOK /\ OneLoop /\ LoopsInBounds /\ StartsHavePtype
         /\ CleanedUp /\ AskedKnown /\ StartedAlone
         /\ Layered /\ Singly /\ LoopKnows /\ queued = <<>>
         /\ \A msg \in Msg : Sound(msg)
         /\ calls \in Seq(Frame)
PROOF
  BY DEF Promise, Delivery, Inductive, TypeOK

-----------------------------------------------------------------------------
(* A step that does not concern a message.                                 *)

Same(msg) ==
  /\ state'[msg] = state[msg] /\ handler'[msg] = handler[msg]
  /\ state_reported'[msg] = state_reported[msg]
  /\ reliability'[msg] = reliability[msg]
  /\ sender_copy'[msg] \in {sender_copy[msg], state[msg]}

(* Nobody is given it to work on; its handler keeps it.                    *)
Kept(msg) ==
  /\ \A pr \in Proc : Owes(pr, msg)' <=> Owes(pr, msg)
  /\ \A pr \in Proc : Owes(pr, msg) /\ Waits(pr, msg)' => Waits(pr, msg)
  /\ \A pr \in Proc : Waits(pr, msg) => Waits(pr, msg)' \/ ~Processing(pr, msg)
  /\ Queued(msg)' <=> Queued(msg)

(* The functions that deliver, start, fail or report a message.            *)
Concerning == {"deliver", "queue", "start_failed", "launch_failed", "report"}

LEMMA Undisturbed ==
  ASSUME NEW msg \in Msg, Sound(msg), Same(msg), Kept(msg),
         \A fn \in Concerning : On(fn, msg)' => On(fn, msg),
         Awaiting(msg) /\ On("deliver", msg) => On("deliver", msg)',
         Awaiting(msg) /\ On("start_failed", msg) => On("start_failed", msg)',
         Offered(msg) => Offered(msg)',
         On("deliver", msg) => \A pr \in Proc : Leaving(pr) => Leaving(pr)'
  PROVE  Sound(msg)'
PROOF
<1>1. Awaiting(msg)' <=> Awaiting(msg)
  BY DEF Awaiting, Same
<1> USE DEF Concerning
<1>3. OneOutcome(msg)'
  BY DEF Same, Sound, OneOutcome
<1>4. OneWorker(msg)'
  BY <1>1 DEF Same, Kept, Sound, OneWorker
<1>5. HandlerHasIt(msg)'
  <2> SUFFICES ASSUME NEW pr \in Proc, handler[msg] = pr, Awaiting(msg)
               PROVE  Waits(pr, msg)' \/ Owes(pr, msg)'
    BY <1>1 DEF Same, HandlerHasIt
  <2>1. Processing(pr, msg)
    BY DEF Processing, Awaiting, Final
  <2> QED
    BY <2>1 DEF Kept, Sound, HandlerHasIt
<1>6. WaitsForStart(msg)'
  BY <1>1 DEF Same, Kept, Sound, WaitsForStart
<1>7. Deliverable(msg)'
  BY <1>1 DEF Same, Kept, Sound, Deliverable
<1>8. Called(msg)'
  BY <1>1 DEF Same, Sound, Called
<1>9. Somewhere(msg)'
  BY <1>1 DEF Same, Kept, Sound, Somewhere
<1> QED
  BY <1>3, <1>4, <1>5, <1>6, <1>7, <1>8, <1>9 DEF Sound

(* A step that ends an open request nobody works on any more.              *)
LEMMA Ended ==
  ASSUME NEW msg \in Msg, Sound(msg), Awaiting(msg),
         NEW s \in Final,
         state'[msg] = s,
         state_reported'[msg] = state_reported[msg] \union {s},
         sender_copy'[msg] = sender_copy[msg],
         \/ reliability'[msg] = reliability[msg]
         \/ reliability'[msg] = {} /\ ~Queued(msg)' /\ ~On("queue", msg)',
         \A pr \in Proc : ~Owes(pr, msg)',
         Queued(msg)' => Queued(msg) /\ Offered(msg)',
         On("deliver", msg)' /\ Queued(msg) => Queued(msg)',
         \A fn \in Concerning : On(fn, msg)' => On(fn, msg) \/ fn = "report",
         On("start_failed", msg)' \/ On("launch_failed", msg)' => s = "FAILED"
  PROVE  Sound(msg)'
PROOF
<1> USE DEF Concerning
<1>1. ~Awaiting(msg)' /\ state[msg] \notin Final
  BY DEF Awaiting, Final
<1>3. OneOutcome(msg)'
  BY <1>1 DEF Sound, OneOutcome, Final
<1>4. OneWorker(msg)'
  BY DEF OneWorker
<1>5. HandlerHasIt(msg)'
  BY <1>1 DEF HandlerHasIt
<1>6. WaitsForStart(msg)'
  BY DEF Sound, WaitsForStart, Final
<1>7. Deliverable(msg)'
  BY <1>1 DEF Sound, Deliverable, Final
<1>8. Called(msg)'
  BY DEF Sound, Called
<1>9. Somewhere(msg)'
  BY <1>1 DEF Somewhere
<1> QED
  BY <1>3, <1>4, <1>5, <1>6, <1>7, <1>8, <1>9 DEF Sound

-----------------------------------------------------------------------------
(* The server's steps.                                                     *)

(* What cannot be beneath the innermost call.                              *)
LEMMA Below ==
  ASSUME Promise, calls # <<>>
  PROVE  /\ \A x : ~Beneath("report", x)
         /\ Top.fn \notin {"report", "deactivate", "orphans"} =>
              /\ \A fn \in Concerning : \A x : ~Beneath(fn, x)
              /\ \A i \in DOMAIN calls : calls[i].fn # "orphans"
         /\ Top.fn \in Loops => \A pt : ~DeliversBeneath(pt)
PROOF
<1>0. calls \in Seq(Frame) /\ Layered /\ OneLoop
  BY Parts
<1>1. /\ \A fn, x : Beneath(fn, x) => \E f \in Frame : f.fn = fn /\ Above(Top, f)
      /\ \A i \in DOMAIN calls : i # 1 => Above(Top, calls[i])
  BY <1>0, BeneathTop
<1>2. \A f : Depth(f) \in 0..4
  BY DepthNat
<1>3. \A f : f.fn \in Concerning => Depth(f) <= 2 /\ Depth(f) # 1
  BY DEF Depth, Concerning
<1>4. \A f : /\ f.fn \in {"report", "deactivate"} => Depth(f) = 0
             /\ f.fn = "orphans" => Depth(f) = 1
             /\ f.fn \notin {"report", "deactivate", "orphans"} => Depth(f) >= 2
  BY DEF Depth
<1>5. \A x : ~Beneath("report", x)
  BY <1>1, <1>2, <1>4 DEF Above
<1>6. ASSUME Top.fn \notin {"report", "deactivate", "orphans"}
      PROVE  /\ \A fn \in Concerning : \A x : ~Beneath(fn, x)
             /\ \A i \in DOMAIN calls : calls[i].fn # "orphans"
  <2>1. Depth(Top) >= 2
    BY <1>4, <1>6
  <2>2. \A i \in DOMAIN calls : calls[i].fn # "orphans"
    <3> SUFFICES ASSUME NEW i \in DOMAIN calls, calls[i].fn = "orphans"
                 PROVE  FALSE
      OBVIOUS
    <3>1. i # 1
      BY <1>6 DEF Top
    <3>2. Above(Top, calls[i]) /\ Depth(calls[i]) = 1
      BY <1>1, <1>4, <3>1
    <3> QED
      BY <1>2, <2>1, <3>2 DEF Above
  <2>3. ASSUME NEW fn \in Concerning, NEW x, Beneath(fn, x)
        PROVE  FALSE
    <3>1. PICK f \in Frame : f.fn = fn /\ Above(Top, f)
      BY <1>1, <2>3
    <3> QED
      BY <1>2, <1>3, <2>1, <2>3, <3>1 DEF Above
  <2> QED
    BY <2>2, <2>3
<1>7. ASSUME Top.fn \in Loops, NEW pt, DeliversBeneath(pt)
      PROVE  FALSE
  <2>1. PICK i \in DOMAIN calls : i # 1 /\ calls[i].fn = "redelivered"
    BY <1>7 DEF DeliversBeneath
  <2>2. 1 \in DOMAIN calls /\ calls[1] = Top
    BY <1>0 DEF Top
  <2>3. calls[i].fn \in Loops
    BY <2>1 DEF Loops, TypeCalls
  <2> QED
    BY <1>0, <1>7, <2>1, <2>2, <2>3 DEF OneLoop
<1> QED
  BY <1>5, <1>6, <1>7

LEMMA DeliverUnheld ==
  ASSUME Promise, Running("deliver"), Awaiting(Top.m)
  PROVE  handler[Top.m] = NoProc
PROOF
<1>0. calls \in Seq(Frame) /\ calls # <<>> /\ CleanedUp /\ TypeOK
  BY Parts DEF Running
<1>1. Top.m \in Msg
  BY <1>0, TopTypes DEF Running, MsgCalls
<1> DEFINE msg == Top.m
<1>2. On("deliver", msg)
  <2>1. 1 \in DOMAIN calls /\ calls[1] = Top
    BY <1>0 DEF Top
  <2> QED
    BY <2>1 DEF On, Running
<1>3. Sound(msg) /\ handler[msg] \in Proc \union {NoProc}
  BY <1>0, <1>1, Parts DEF TypeOK
<1> SUFFICES ASSUME NEW pr \in Proc, handler[msg] = pr
             PROVE  FALSE
  BY <1>3
<1>4. Leaving(pr)
  BY <1>2, <1>3 DEF Sound, Deliverable
<1>5. conn[pr] # "active"
  BY <1>4 DEF Leaving, Running
<1>6. ~CleaningUp(pr)
  BY <1>0, Below DEF CleaningUp, Running
<1>7. NothingOf(pr)
  BY <1>0, <1>5, <1>6 DEF CleanedUp
<1>8. ~Waits(pr, msg) /\ ~Owes(pr, msg)
  BY <1>7 DEF NothingOf, Waits, Owes, In
<1> QED
  BY <1>3, <1>8 DEF Sound, HandlerHasIt

(* A process about to be made inactive is.                                 *)
LEMMA ServerLeaving ==
  ASSUME TypeOK, ServerStep, NEW pr \in Proc, Leaving(pr)
  PROVE  Leaving(pr)'
PROOF
<1>1. CASE conn[pr] # "active"
  BY <1>1, ServerConn DEF Leaving
<1>2. CASE Running("deactivate") /\ Top.p = pr
  <2>1. Deactivate
    BY <1>2 DEF ServerStep, Running, Report, DeliverToHandler, DeliverToNobody, NoHandler,
       NoRecipientsStart, StartFailed, NoRecipientsQueue,
       OrphanUndelivered, OrphanDelivered, OrphansDone, ProcStarted,
       ProcStartedIdly, ProcReplied, Redeliver, Redelivered, LaunchFailed,
       PatternAdded, PatternDelivered, UpdateFinal, UpdateRejected, UpdateUnknown
  <2>2. conn'[pr] # "active"
    BY <1>2, <2>1 DEF Deactivate, TypeOK
  <2> QED
    BY <2>2 DEF Leaving
<1> QED
  BY <1>1, <1>2 DEF Leaving

(* A queue keeps its first message while that is delivered.                *)
LEMMA ServerKeepsFirst ==
  ASSUME Promise, ServerStep, NEW pt \in Ptype, DeliversBeneath(pt)
  PROVE  /\ Top.fn \notin Loops
         /\ ptype_queue[pt] # <<>>
         /\ Head(ptype_queue'[pt]) = Head(ptype_queue[pt])
PROOF
<1>0. calls \in Seq(Frame) /\ calls # <<>> /\ TypeOK /\ LoopsInBounds
  BY Parts, ServerCalls
<1>4. Top.fn \notin Loops
  BY <1>0, Below
<1>a. Top.fn # "redelivered"
  BY <1>4 DEF Loops, TypeCalls
<1>5. ptype_queue[pt] # <<>>
  BY <1>0 DEF DeliversBeneath, LoopsInBounds
<1>6. Head(ptype_queue'[pt]) = Head(ptype_queue[pt])
  <2>1. CASE UNCHANGED ptype_queue
    BY <2>1
  <2>2. CASE NoRecipientsStart
    <3>1. PICK msg \in Msg :
            \/ UNCHANGED ptype_queue
            \/ ptype_queue' = [ptype_queue EXCEPT ![SigPtype[OpOf[msg]]] = Append(@, msg)]
      BY <2>2 DEF NoRecipientsStart
    <3>2. ptype_queue[pt] \in Seq(Msg) /\ ptype_queue \in [Ptype -> Seq(Msg)]
      BY <1>0 DEF TypeOK
    <3>3. ptype_queue'[pt] \in {ptype_queue[pt], Append(ptype_queue[pt], msg)}
      BY <3>1, <3>2
    <3>4. Head(Append(ptype_queue[pt], msg)) = Head(ptype_queue[pt])
      BY <1>5, <3>2
    <3> QED
      BY <3>3, <3>4
  <2>3. CASE ProcStarted \/ LaunchFailed
    BY <1>4, <2>3 DEF ProcStarted, LaunchFailed, Running, Loops, TypeCalls
  <2> QED
    BY <1>a, <2>1, <2>2, <2>3 DEF ServerStep, Running, Report, DeliverToHandler,
       DeliverToNobody, StartFailed, NoRecipientsQueue, Deactivate,
       OrphanUndelivered, OrphanDelivered, OrphansDone,
       ProcStartedIdly, ProcReplied, Redeliver, Redelivered,
       PatternAdded, PatternDelivered, UpdateFinal, UpdateRejected, UpdateUnknown,
       queueVars
<1> QED
  BY <1>4, <1>5, <1>6

(* The message that is offered stays first in its queue meanwhile.         *)
LEMMA ServerOffers ==
  ASSUME Promise, ServerStep, NEW cs \in Seq(Frame), Then(cs),
         ~Running("redelivered"), NEW x, Offered(x)
  PROVE  Offered(x)' /\ Top.fn \notin Loops
PROOF
<1>0. calls \in Seq(Frame) /\ calls # <<>> /\ TypeOK
  BY Parts, ServerCalls
<1>1. PICK pt \in Ptype : Delivers(pt) /\ x = Head(ptype_queue[pt])
  BY DEF Offered
<1>2. DeliversBeneath(pt)
  BY <1>0, <1>1, StackBefore DEF Running
<1>3. Delivers(pt)'
  BY <1>0, <1>2, StackAfter
<1>4. Top.fn \notin Loops /\ Head(ptype_queue'[pt]) = Head(ptype_queue[pt])
  BY <1>2, ServerKeepsFirst
<1>7. Offered(x)'
  BY <1>1, <1>3, <1>4 DEF Offered
<1> QED
  BY <1>4, <1>7

(* A message the step's calls are not about, or not any more.              *)
LEMMA Bystander ==
  ASSUME Promise, ServerStep, NEW cs \in Seq(Frame), Then(cs),
         NEW x \in Msg, Same(x), Kept(x),
         \A fn \in Concerning : Makes(cs, fn, x) => On(fn, x),
         Awaiting(x) /\ Top.m = x /\ Top.fn \in {"deliver", "start_failed"} =>
           Makes(cs, Top.fn, x),
         Running("redelivered") => ~Offered(x)
  PROVE  Sound(x)'
PROOF
<1>0. calls \in Seq(Frame) /\ calls # <<>> /\ TypeOK /\ Sound(x)
  BY Parts, ServerCalls
<1>1. /\ \A fn : On(fn, x)' <=> Makes(cs, fn, x) \/ Beneath(fn, x)
      /\ \A fn : On(fn, x) <=> (Top.fn = fn /\ Top.m = x) \/ Beneath(fn, x)
  BY <1>0, StackAfter, StackBefore
<1>2. Offered(x) => Offered(x)'
  BY ServerOffers
<1>3. \A pr \in Proc : Leaving(pr) => Leaving(pr)'
  BY <1>0, ServerLeaving
<1>4. \A fn \in Concerning : On(fn, x)' => On(fn, x)
  BY <1>1
<1>5. Awaiting(x) /\ On("deliver", x) => On("deliver", x)'
  BY <1>1
<1>6. Awaiting(x) /\ On("start_failed", x) => On("start_failed", x)'
  BY <1>1
<1> QED
  BY <1>0, <1>2, <1>3, <1>4, <1>5, <1>6, Undisturbed

-----------------------------------------------------------------------------
(* Each of the server's steps leaves every request sound.                  *)

LEMMA Quiet ==
  ASSUME UNCHANGED <<state, handler, state_reported, reliability, sender_copy,
                     undelivered, delivered, ptype_queue>>, NEW x \in Msg
  PROVE  Same(x) /\ Kept(x)
PROOF
<1>1. Same(x)
  BY DEF Same
<1>2. Kept(x)
  BY DEF Kept, Waits, Owes, Queued, In
<1> QED
  BY <1>1, <1>2

LEMMA QuietSound ==
  ASSUME Promise, NEW x \in Msg,
         \/ DeliverToNobody \/ Deactivate \/ OrphansDone \/ ProcStartedIdly
         \/ ProcReplied \/ PatternAdded \/ UpdateUnknown
         \/ Running("queue") /\ NoRecipientsQueue
         \/ Running("redeliver") /\ Redeliver /\ ptype_queue[Top.t] = <<>>
  PROVE  Sound(x)'
PROOF
<1>0. calls \in Seq(Frame) /\ calls # <<>> /\ TypeOK /\ queued = <<>> /\ Sound(x)
      /\ ServerStep
  <2>1. ServerStep
    BY DEF ServerStep
  <2> QED
    BY <2>1, Parts, ServerCalls
<1>a. /\ Top \in Frame
      /\ Top.fn \in ProcCalls => Top.p \in Proc
      /\ Top.fn \in TypeCalls => Top.t \in Ptype
      /\ Top.fn \in MsgCalls => Top.m \in Msg
      /\ Top.i \in Nat \ {0}
  BY <1>0, TopTypes
<1>b. On("queue", x) => "start" \in reliability[x] /\ "queue" \notin reliability[x]
  BY <1>0 DEF Sound, Called, OneOutcome
<1>c. 1 \in DOMAIN calls /\ calls[1] = Top
  BY <1>0 DEF Top
<1>1. /\ UNCHANGED <<state, handler, state_reported, reliability, sender_copy,
                     undelivered, delivered, ptype_queue>>
      /\ \/ Then(<<>>)
         \/ Running("deactivate") /\ Then(<<OnProc("orphans", Top.p)>>)
         \/ Running("proc_replied") /\ Then(<<OnType("redeliver", Top.t)>>)
      /\ Awaiting(x) /\ Top.m = x => Top.fn \notin {"deliver", "start_failed"}
  <2>1. CASE DeliverToNobody
    BY <2>1 DEF DeliverToNobody, NoHandler, procVars, msgVars, queueVars
  <2>2. CASE Deactivate
    BY <2>2 DEF Deactivate, Running, msgVars, queueVars
  <2>3. CASE OrphansDone \/ ProcStartedIdly \/ UpdateUnknown
    BY <2>3 DEF OrphansDone, ProcStartedIdly, UpdateUnknown, Running, procVars, msgVars,
       queueVars
  <2>4. CASE ProcReplied
    BY <2>4 DEF ProcReplied, Running, procVars, msgVars, queueVars
  <2>5. CASE PatternAdded
    <3>1. Top.i > Len(queued)
      BY <1>0, <1>a
    <3> QED
      BY <2>5, <3>1 DEF PatternAdded, Running, procVars, queueVars
  <2>6. CASE Running("queue") /\ NoRecipientsQueue
    <3>1. HonourQueue(Top.m)
      BY <2>6 DEF NoRecipientsQueue, NoHandler, Running
    <3>2. Top.m \in Msg /\ On("queue", Top.m)
      BY <1>a, <1>c, <2>6 DEF Running, MsgCalls, On
    <3>3. "start" \in reliability[Top.m] /\ "queue" \notin reliability[Top.m]
      BY <3>2, Parts DEF Sound, Called, OneOutcome
    <3>4. Then(<<>>) /\ UNCHANGED <<state, state_reported>>
      BY <3>1, <3>3 DEF HonourQueue
    <3> QED
      BY <2>6, <3>4 DEF NoRecipientsQueue, procVars, Running
  <2>7. CASE Running("redeliver") /\ Redeliver /\ ptype_queue[Top.t] = <<>>
    BY <2>7 DEF Redeliver, Running, procVars, queueVars
  <2> QED
    BY <2>1, <2>2, <2>3, <2>4, <2>5, <2>6, <2>7
<1>2. Same(x) /\ Kept(x)
  BY <1>1, Quiet
<1>3. PICK cs \in Seq(Frame) : Then(cs) /\ \A fn : ~Makes(cs, fn, x)
  <2>1. /\ Running("deactivate") => OnProc("orphans", Top.p) \in Frame
        /\ Running("proc_replied") => OnType("redeliver", Top.t) \in Frame
    BY <1>a, Frames DEF Running, ProcCalls, TypeCalls
  <2>2. /\ OnProc("orphans", Top.p).m # x /\ OnType("redeliver", Top.t).m # x
    BY CallMessages, ConstantsAssumption
  <2>3. <<>> \in Seq(Frame)
    OBVIOUS
  <2>4. \A f \in Frame : <<f>> \in Seq(Frame)
    OBVIOUS
  <2>5. CASE Then(<<>>)
    BY <2>3, <2>5, Few
  <2>6. ASSUME NEW f \in Frame, f.m # x, Then(<<f>>)
        PROVE  \E cs \in Seq(Frame) : Then(cs) /\ \A fn : ~Makes(cs, fn, x)
    BY <2>4, <2>6, Few
  <2> QED
    BY <1>1, <2>1, <2>2, <2>5, <2>6
<1>4. ~Running("redelivered") \/ ~Offered(x)
  BY DEF DeliverToNobody, NoHandler, Deactivate, OrphansDone, ProcStartedIdly,
     ProcReplied, PatternAdded, UpdateUnknown, Running
<1> QED
  BY <1>0, <1>1, <1>2, <1>3, <1>4, Bystander

(* The lists after a message was sent.                                     *)
LEMMA SentMail ==
  ASSUME TypeOK, NEW pr \in Proc, NEW msg \in Msg, NEW ok, NEW lost,
         AddMessage(pr, msg, ok, lost), NEW p \in Proc, NEW x
  PROVE  Waits(p, x)' <=> Waits(p, x) \/ (p = pr /\ conn[pr] = "active" /\ x = msg)
PROOF
  BY AddMessageMail DEF Waits

LEMMA ReportSound ==
  ASSUME Promise, NEW x \in Msg, Report
  PROVE  Sound(x)'
PROOF
<1>0. calls \in Seq(Frame) /\ calls # <<>> /\ TypeOK /\ Sound(x) /\ ServerStep
  <2>1. ServerStep
    BY DEF ServerStep
  <2> QED
    BY <2>1, Parts, ServerCalls
<1>1. Top.m \in Msg /\ SenderOf[Top.m] \in Proc /\ Top.fn = "report"
  BY <1>0, TopTypes, ConstantsAssumption DEF Report, Running, MsgCalls
<1> DEFINE msg == Top.m
           pr  == SenderOf[Top.m]
<1>2. PICK m \in Msg, s \in Proc : m = Top.m /\ s = SenderOf[Top.m]
  BY <1>1
<1>3. AddMessage(s, m, <<>>, <<>>)
  BY <1>2 DEF Report
<1>4. On("report", m)
  <2>1. 1 \in DOMAIN calls /\ calls[1] = Top
    BY <1>0 DEF Top
  <2> QED
    BY <1>1, <1>2, <2>1 DEF On
<1>5. \A p \in Proc : ~Owes(p, m)
  <2>1. Sound(m)
    BY Parts
  <2>2. state[m] \in Final \/ handler[m] = NoProc
    BY <1>4, <2>1 DEF Sound, Called
  <2> QED
    BY <2>1, <2>2, ConstantsAssumption DEF Sound, OneWorker, Awaiting, Final
<1>6. \A p \in Proc : Waits(p, x)' <=> Waits(p, x) \/ (p = s /\ conn[s] = "active" /\ x = m)
  BY <1>0, <1>3, SentMail
<1>7. Same(x) /\ Kept(x)
  <2>1. UNCHANGED <<delivered, ptype_queue, state, handler, state_reported, reliability,
                    sender_copy>>
    BY DEF Report, msgVars, queueVars
  <2>2. (\A p \in Proc : Owes(p, x)' <=> Owes(p, x)) /\ (Queued(x)' <=> Queued(x))
    BY <2>1 DEF Owes, Queued, In
  <2> QED
    BY <1>5, <1>6, <2>1, <2>2 DEF Same, Kept
<1>8. PICK cs \in Seq(Frame) : Then(cs) /\ \A fn : ~Makes(cs, fn, x)
  <2>1. OnProc("deactivate", s) \in Frame /\ OnProc("deactivate", s).m # x
    BY Frames, CallMessages, ConstantsAssumption
  <2>2. Then(<<>>) \/ Then(<<OnProc("deactivate", s)>>)
    <3>1. <<OnProc("deactivate", s)>> \o <<>> = <<OnProc("deactivate", s)>>
      BY <2>1
    <3> QED
      BY <1>3, <3>1 DEF AddMessage
  <2>3. <<>> \in Seq(Frame) /\ \A f \in Frame : <<f>> \in Seq(Frame)
    OBVIOUS
  <2> QED
    BY <2>1, <2>2, <2>3, Few
<1> QED
  BY <1>0, <1>1, <1>7, <1>8, Bystander DEF Running

LEMMA MakesCons ==
  ASSUME NEW f \in Frame, NEW rest \in Seq(Frame), NEW fn, NEW x
  PROVE  /\ <<f>> \o rest \in Seq(Frame)
         /\ Makes(<<f>> \o rest, fn, x) <=> (f.fn = fn /\ f.m = x) \/ Makes(rest, fn, x)
PROOF
<1> DEFINE cs == <<f>> \o rest
<1>1. /\ cs \in Seq(Frame) /\ Len(cs) = Len(rest) + 1 /\ Len(rest) \in Nat
      /\ DOMAIN cs = 1..(Len(rest) + 1) /\ DOMAIN rest = 1..Len(rest)
      /\ cs[1] = f
      /\ \A i \in DOMAIN cs : i # 1 => cs[i] = rest[i - 1]
      /\ \A i \in DOMAIN rest : cs[i + 1] = rest[i]
  OBVIOUS
<1> HIDE DEF cs
<1>2. /\ 1 \in DOMAIN cs
      /\ \A i \in DOMAIN cs : i # 1 => i - 1 \in DOMAIN rest
      /\ \A i \in DOMAIN rest : i + 1 \in DOMAIN cs
  BY <1>1
<1>3. Makes(cs, fn, x) <=> (f.fn = fn /\ f.m = x) \/ Makes(rest, fn, x)
  BY <1>1, <1>2 DEF Makes
<1> QED
  BY <1>1, <1>3 DEF cs

(* What finishing a message does: its state and the report, or nothing.    *)
LEMMA FinishDoes ==
  ASSUME TypeOK, NEW msg \in Msg, NEW s, NEW rest \in Seq(Frame),
         Finish(msg, s, rest)
  PROVE  /\ \E cs \in Seq(Frame) :
              /\ Then(cs)
              /\ \A fn, x : Makes(cs, fn, x) <=>
                   \/ Makes(rest, fn, x)
                   \/ s \notin state_reported[msg] /\ fn = "report" /\ x = msg
         /\ s \notin state_reported[msg] =>
              /\ state'[msg] = s
              /\ state_reported'[msg] = state_reported[msg] \union {s}
         /\ \A y \in Msg : y # msg \/ s \in state_reported[msg] =>
              state'[y] = state[y] /\ state_reported'[y] = state_reported[y]
PROOF
<1>1. CASE s \in state_reported[msg]
  BY <1>1 DEF Finish
<1>2. CASE s \notin state_reported[msg]
  <2> DEFINE f  == OnMsg("report", msg)
             cs == <<f>> \o rest
  <2>1. f \in Frame /\ f.fn = "report" /\ f.m = msg
    BY Frames, CallMessages
  <2> HIDE DEF f
  <2>2. cs \in Seq(Frame)
        /\ \A fn, x : Makes(cs, fn, x) <=> (f.fn = fn /\ f.m = x) \/ Makes(rest, fn, x)
    BY <2>1, MakesCons
  <2>3. Then(cs) /\ state' = [state EXCEPT ![msg] = s]
        /\ state_reported' = [state_reported EXCEPT ![msg] = @ \union {s}]
    BY <1>2 DEF Finish, f
  <2> HIDE DEF cs
  <2>4. \E c \in Seq(Frame) :
          /\ Then(c)
          /\ \A fn, x : Makes(c, fn, x) <=>
               \/ Makes(rest, fn, x)
               \/ s \notin state_reported[msg] /\ fn = "report" /\ x = msg
    BY <1>2, <2>1, <2>2, <2>3
  <2> QED
    BY <1>2, <2>3, <2>4 DEF TypeOK
<1> QED
  BY <1>1, <1>2

LEMMA FinishAnew ==
  ASSUME TypeOK, NEW msg \in Msg, NEW s, NEW rest \in Seq(Frame),
         Finish(msg, s, rest), s \notin state_reported[msg]
  PROVE  /\ \E cs \in Seq(Frame) :
              /\ Then(cs)
              /\ \A fn, x : Makes(cs, fn, x) <=>
                   Makes(rest, fn, x) \/ (fn = "report" /\ x = msg)
         /\ state'[msg] = s
         /\ state_reported'[msg] = state_reported[msg] \union {s}
         /\ \A y \in Msg : y # msg =>
              state'[y] = state[y] /\ state_reported'[y] = state_reported[y]
PROOF
<1>1. PICK cs \in Seq(Frame) :
        /\ Then(cs)
        /\ \A fn, x : Makes(cs, fn, x) <=>
             \/ Makes(rest, fn, x)
             \/ s \notin state_reported[msg] /\ fn = "report" /\ x = msg
  BY FinishDoes
<1>2. /\ s \notin state_reported[msg] =>
           /\ state'[msg] = s
           /\ state_reported'[msg] = state_reported[msg] \union {s}
      /\ \A y \in Msg : y # msg \/ s \in state_reported[msg] =>
           state'[y] = state[y] /\ state_reported'[y] = state_reported[y]
  BY FinishDoes
<1> QED
  BY <1>1, <1>2

(* An open request has no final state on record.                           *)
LEMMA NotOverYet ==
  ASSUME TypeOK, NEW msg \in Msg, Sound(msg)
  PROVE  /\ Awaiting(msg) => \A s \in Final : s \notin state_reported[msg]
         /\ \A pr \in Proc : Processing(pr, msg) => Awaiting(msg)
         /\ \A pr \in Proc : Owes(pr, msg) => handler[msg] = pr /\ Awaiting(msg)
PROOF
<1>1. Awaiting(msg) => \A s \in Final : s \notin state_reported[msg]
  BY DEF Sound, OneOutcome, Awaiting, Final
<1>2. ASSUME NEW pr \in Proc, Processing(pr, msg)
      PROVE  Awaiting(msg)
  BY <1>2, ConstantsAssumption DEF Processing, TypeOK, MsgState, Open, Final, Awaiting,
     Sound, OneOutcome
<1> QED
  BY <1>1, <1>2 DEF Sound, OneWorker

LEMMA OrphanUndeliveredSound ==
  ASSUME Promise, NEW x \in Msg, OrphanUndelivered
  PROVE  Sound(x)'
PROOF
<1>0. calls \in Seq(Frame) /\ calls # <<>> /\ TypeOK /\ Sound(x) /\ ServerStep
      /\ Top.fn = "orphans"
  <2>1. ServerStep /\ Top.fn = "orphans"
    BY DEF ServerStep, OrphanUndelivered, Running
  <2> QED
    BY <2>1, Parts, ServerCalls
<1>a. Top \in Frame /\ Top.p \in Proc
  BY <1>0, TopTypes DEF ProcCalls
<1>b. PICK pr \in Proc : pr = Top.p
  BY <1>a
<1>1. PICK m : pr = Top.p /\ m = Head(undelivered[Top.p])
  BY <1>b
<1>2. /\ undelivered[pr] # <<>> /\ m = Head(undelivered[pr])
      /\ undelivered' = [undelivered EXCEPT ![pr] = Tail(@)]
      /\ IF Processing(pr, m)
         THEN Finish(m, "FAILED", <<Top>>)
         ELSE Then(<<Top>>) /\ UNCHANGED <<state, state_reported>>
      /\ UNCHANGED <<delivered, handler, reliability, sender_copy, ptype_queue>>
  BY <1>1 DEF OrphanUndelivered, queueVars
<1>3. undelivered[pr] \in Seq(Msg) /\ m \in Msg
  BY <1>0, <1>2 DEF TypeOK
<1>4. Waits(pr, m)
  BY <1>2, <1>3, HeadIn DEF Waits
<1>5. \A p \in Proc : \A y :
        /\ Waits(p, y)' => Waits(p, y)
        /\ Waits(p, y) => Waits(p, y)' \/ (p = pr /\ y = m)
  <2> SUFFICES ASSUME NEW p \in Proc, NEW y
               PROVE  /\ In(y, undelivered'[p]) => In(y, undelivered[p])
                      /\ In(y, undelivered[p]) =>
                           In(y, undelivered'[p]) \/ (p = pr /\ y = m)
    BY DEF Waits
  <2>1. undelivered'[p] = IF p = pr THEN Tail(undelivered[pr]) ELSE undelivered[p]
    BY <1>0, <1>2 DEF TypeOK
  <2> QED
    BY <1>2, <1>3, <2>1, InTail
<1>6. (\A p \in Proc : \A y : Owes(p, y)' <=> Owes(p, y)) /\ \A y : Queued(y)' <=> Queued(y)
  BY <1>2 DEF Owes, Queued, In
<1>7. <<Top>> \in Seq(Frame)
  BY <1>a
<1>8. Sound(m) /\ ~Running("redelivered")
  BY <1>0, <1>3, Parts DEF Running
<1>9. \A fn, y : Makes(<<Top>>, fn, y) => Top.fn = fn
  BY <1>a, Few
<1>10. CASE ~Processing(pr, m)
  <2>1. Same(x) /\ Kept(x)
    BY <1>2, <1>5, <1>6, <1>10 DEF Same, Kept
  <2> QED
    BY <1>0, <1>2, <1>7, <1>8, <1>9, <1>10, <2>1, Bystander DEF Concerning
<1>11. CASE Processing(pr, m)
  <2>1. Finish(m, "FAILED", <<Top>>)
    BY <1>2, <1>11
  <2>2. Awaiting(m) /\ "FAILED" \notin state_reported[m] /\ "FAILED" \in Final
    BY <1>0, <1>3, <1>8, <1>11, NotOverYet DEF Final
  <2>3. PICK cs \in Seq(Frame) :
          /\ Then(cs)
          /\ \A fn, y : Makes(cs, fn, y) <=>
               Makes(<<Top>>, fn, y) \/ (fn = "report" /\ y = m)
    BY <1>0, <1>3, <1>7, <2>1, <2>2, FinishAnew
  <2>4. /\ state'[m] = "FAILED"
        /\ state_reported'[m] = state_reported[m] \union {"FAILED"}
        /\ \A y \in Msg : y # m =>
             state'[y] = state[y] /\ state_reported'[y] = state_reported[y]
    BY <1>0, <1>3, <1>7, <2>1, <2>2, FinishAnew
  <2>5. CASE x # m
    <3>1. Same(x) /\ Kept(x)
      BY <1>2, <1>5, <1>6, <2>4, <2>5 DEF Same, Kept
    <3> QED
      BY <1>0, <1>8, <1>9, <2>3, <2>5, <3>1, Bystander DEF Concerning
  <2>6. CASE x = m
    <3>1. \A p \in Proc : ~Owes(p, m)'
      BY <1>4, <1>6, <1>8, <1>11 DEF Sound, OneWorker, Processing
    <3>2. Queued(m)' => Queued(m) /\ Offered(m)'
      <4>1. Queued(m) => Offered(m)
        BY <1>8, <1>11, ConstantsAssumption DEF Sound, WaitsForStart, Processing
      <4>2. Offered(m) => Offered(m)'
        BY <1>0, <1>8, <2>3, ServerOffers
      <4> QED
        BY <1>6, <4>1, <4>2
    <3>3. /\ \A fn : On(fn, m)' <=> Makes(cs, fn, m) \/ Beneath(fn, m)
          /\ \A fn : Beneath(fn, m) => On(fn, m)
      BY <1>0, <2>3, StackAfter, StackBefore
    <3>4. \A fn \in Concerning : On(fn, m)' => On(fn, m) \/ fn = "report"
      BY <1>0, <1>9, <2>3, <3>3 DEF Concerning
    <3> QED
      BY <1>2, <1>3, <1>6, <1>8, <2>2, <2>4, <2>6, <3>1, <3>2, <3>4, Ended
  <2> QED
    BY <2>5, <2>6
<1> QED
  BY <1>10, <1>11

LEMMA OrphanDeliveredSound ==
  ASSUME Promise, NEW x \in Msg, OrphanDelivered
  PROVE  Sound(x)'
PROOF
<1>0. calls \in Seq(Frame) /\ calls # <<>> /\ TypeOK /\ Sound(x) /\ ServerStep
      /\ Top.fn = "orphans" /\ Singly
  <2>1. ServerStep /\ Top.fn = "orphans"
    BY DEF ServerStep, OrphanDelivered, Running
  <2> QED
    BY <2>1, Parts, ServerCalls
<1>a. Top \in Frame /\ Top.p \in Proc
  BY <1>0, TopTypes DEF ProcCalls
<1>b. PICK pr \in Proc : pr = Top.p
  BY <1>a
<1>1. PICK m : pr = Top.p /\ m = Head(delivered[Top.p])
  BY <1>b
<1>2. /\ delivered[pr] # <<>> /\ m = Head(delivered[pr])
      /\ delivered' = [delivered EXCEPT ![pr] = Tail(@)]
      /\ Finish(m, "FAILED", <<Top>>)
      /\ UNCHANGED <<undelivered, handler, reliability, sender_copy, ptype_queue>>
  BY <1>1 DEF OrphanDelivered, queueVars
<1>3. delivered[pr] \in Seq(Msg) /\ m \in Msg
  BY <1>0, <1>2 DEF TypeOK
<1>4. Owes(pr, m)
  BY <1>2, <1>3, HeadIn DEF Owes, In
<1>5. \A p \in Proc : \A y :
        /\ Owes(p, y)' => Owes(p, y) /\ (p # pr \/ y # m)
        /\ Owes(p, y) => Owes(p, y)' \/ (p = pr /\ y = m)
  <2> SUFFICES ASSUME NEW p \in Proc, NEW y
               PROVE  /\ In(y, delivered'[p]) => In(y, delivered[p]) /\ (p # pr \/ y # m)
                      /\ In(y, delivered[p]) =>
                           In(y, delivered'[p]) \/ (p = pr /\ y = m)
    BY DEF Owes, In
  <2>1. delivered'[p] = IF p = pr THEN Tail(delivered[pr]) ELSE delivered[p]
    BY <1>0, <1>2 DEF TypeOK
  <2>2. ~In(m, Tail(delivered[pr]))
    BY <1>0, <1>2, <1>3, OnceTail DEF Singly
  <2> QED
    BY <1>2, <1>3, <2>1, <2>2, InTail
<1>6. (\A p \in Proc : \A y : Waits(p, y)' <=> Waits(p, y)) /\ \A y : Queued(y)' <=> Queued(y)
  BY <1>2 DEF Waits, Queued, In
<1>7. <<Top>> \in Seq(Frame)
  BY <1>a
<1>8. Sound(m) /\ ~Running("redelivered")
  BY <1>0, <1>3, Parts DEF Running
<1>9. \A fn, y : Makes(<<Top>>, fn, y) => Top.fn = fn
  BY <1>a, Few
<1>10. Awaiting(m) /\ "FAILED" \notin state_reported[m] /\ "FAILED" \in Final
       /\ handler[m] = pr
  BY <1>0, <1>3, <1>4, <1>8, NotOverYet DEF Final
<1>11. PICK cs \in Seq(Frame) :
         /\ Then(cs)
         /\ \A fn, y : Makes(cs, fn, y) <=>
              Makes(<<Top>>, fn, y) \/ (fn = "report" /\ y = m)
  BY <1>0, <1>2, <1>3, <1>7, <1>10, FinishAnew
<1>12. /\ state'[m] = "FAILED"
       /\ state_reported'[m] = state_reported[m] \union {"FAILED"}
       /\ \A y \in Msg : y # m =>
            state'[y] = state[y] /\ state_reported'[y] = state_reported[y]
  BY <1>0, <1>2, <1>3, <1>7, <1>10, FinishAnew
<1>13. CASE x # m
  <2>1. Same(x) /\ Kept(x)
    BY <1>2, <1>5, <1>6, <1>12, <1>13 DEF Same, Kept
  <2> QED
    BY <1>0, <1>8, <1>9, <1>11, <1>13, <2>1, Bystander DEF Concerning
<1>14. CASE x = m
  <2>1. \A p \in Proc : ~Owes(p, m)'
    BY <1>5, <1>8, <1>10 DEF Sound, OneWorker
  <2>2. ~Queued(m)'
    BY <1>4, <1>6, <1>8 DEF Sound, OneWorker
  <2>3. /\ \A fn : On(fn, m)' <=> Makes(cs, fn, m) \/ Beneath(fn, m)
        /\ \A fn : Beneath(fn, m) => On(fn, m)
    BY <1>0, <1>11, StackAfter, StackBefore
  <2>4. \A fn \in Concerning : On(fn, m)' => On(fn, m) \/ fn = "report"
    BY <1>0, <1>9, <1>11, <2>3 DEF Concerning
  <2>5. ~On("deliver", m)' 
    BY <1>4, <1>8, <2>4 DEF Sound, OneWorker, Concerning
  <2> QED
    BY <1>2, <1>3, <1>8, <1>10, <1>12, <1>14, <2>1, <2>2, <2>4, <2>5, Ended
<1> QED
  BY <1>13, <1>14

LEMMA AddMessageDoes ==
  ASSUME NEW pr \in Proc, NEW msg, NEW ok \in Seq(Frame), NEW lost \in Seq(Frame),
         AddMessage(pr, msg, ok, lost)
  PROVE  \E cs \in Seq(Frame) :
           /\ Then(cs)
           /\ \/ cs = ok
              \/ conn[pr] # "active" /\ cs = lost
              \/ conn[pr] = "active" /\ cs = <<OnProc("deactivate", pr)>> \o lost
PROOF
<1>1. OnProc("deactivate", pr) \in Frame
  BY Frames
<1>2. <<OnProc("deactivate", pr)>> \o lost \in Seq(Frame)
  BY <1>1, MakesCons
<1> QED
  BY <1>2 DEF AddMessage

(* The process whose channel was found broken is the next to be dealt with.*)
LEMMA LostLeaves ==
  ASSUME TypeOK, calls # <<>>, NEW pr \in Proc, NEW lost \in Seq(Frame),
         Then(<<OnProc("deactivate", pr)>> \o lost)
  PROVE  Leaving(pr)'
PROOF
<1> DEFINE f  == OnProc("deactivate", pr)
           cs == <<f>> \o lost
<1>1. f \in Frame /\ f.fn = "deactivate" /\ f.p = pr
  BY Frames
<1> HIDE DEF f
<1>2. cs \in Seq(Frame) /\ 1 \in DOMAIN cs /\ cs[1] = f
  BY <1>1
<1>3. Then(cs) /\ calls \in Seq(Frame)
  BY DEF f, TypeOK
<1> HIDE DEF cs
<1>4. 1 \in DOMAIN calls' /\ calls'[1] = f
  BY <1>2, <1>3, ThenKeeps
<1>5. calls' # <<>> /\ Head(calls') = f
  BY <1>4
<1> QED
  BY <1>1, <1>5 DEF Leaving, Running, Top

LEMMA DeliverToHandlerSound ==
  ASSUME Promise, NEW x \in Msg, DeliverToHandler
  PROVE  Sound(x)'
PROOF
<1>0. calls \in Seq(Frame) /\ calls # <<>> /\ TypeOK /\ Sound(x) /\ ServerStep
      /\ Top.fn = "deliver"
  <2>1. ServerStep /\ Top.fn = "deliver"
    BY DEF ServerStep, DeliverToHandler, Running
  <2> QED
    BY <2>1, Parts, ServerCalls
<1>a. Top \in Frame /\ Top.m \in Msg
  BY <1>0, TopTypes DEF MsgCalls
<1>1. PICK m \in Msg : m = Top.m
  BY <1>a
<1>2. PICK pr :
        /\ pr \in Proc /\ conn[pr] = "active"
        /\ handler' = [handler EXCEPT ![m] = pr]
        /\ AddMessage(pr, m, <<>>, <<Top>>)
  BY <1>0, <1>1, HandlerChosen
<1>3. /\ state[m] = "SENT"
      /\ UNCHANGED <<delivered, state, state_reported, reliability, sender_copy,
                     ptype_queue>>
  BY <1>1 DEF DeliverToHandler, queueVars
<1>4. Awaiting(m) /\ handler[m] = NoProc /\ Sound(m)
  <2>1. Awaiting(m)
    BY <1>3 DEF Awaiting
  <2> QED
    BY <1>0, <1>1, <2>1, DeliverUnheld, Parts DEF Running
<1>5. \A p \in Proc : ~Owes(p, m)
  BY <1>4, ConstantsAssumption DEF Sound, OneWorker
<1>6. \A p \in Proc : \A y : Waits(p, y)' <=> Waits(p, y) \/ (p = pr /\ y = m)
  BY <1>0, <1>2, SentMail
<1>7. (\A p \in Proc : \A y : Owes(p, y)' <=> Owes(p, y)) /\ \A y : Queued(y)' <=> Queued(y)
  BY <1>3 DEF Owes, Queued, In
<1>8. <<Top>> \in Seq(Frame) /\ <<>> \in Seq(Frame)
  BY <1>a
<1>9. PICK cs \in Seq(Frame) :
        Then(cs) /\ (cs = <<>> \/ cs = <<OnProc("deactivate", pr)>> \o <<Top>>)
  <2>1. PICK ok \in Seq(Frame), lost \in Seq(Frame) :
          ok = <<>> /\ lost = <<Top>> /\ AddMessage(pr, m, ok, lost)
    BY <1>2, <1>8
  <2>2. pr \in Proc /\ conn[pr] = "active" /\ AddMessage(pr, m, ok, lost)
    BY <1>2, <2>1
  <2>3. PICK cs \in Seq(Frame) :
          /\ Then(cs)
          /\ \/ cs = ok
             \/ conn[pr] # "active" /\ cs = lost
             \/ conn[pr] = "active" /\ cs = <<OnProc("deactivate", pr)>> \o lost
    BY <2>2, AddMessageDoes
  <2> QED
    BY <2>1, <2>2, <2>3
<1>10. /\ \A fn \in Concerning : \A y : Makes(cs, fn, y) => fn = "deliver" /\ y = m
       /\ Makes(cs, "deliver", m) => Leaving(pr)'
  <2>1. CASE cs = <<>>
    BY <2>1, Few
  <2>2. CASE cs = <<OnProc("deactivate", pr)>> \o <<Top>>
    <3>1. OnProc("deactivate", pr) \in Frame /\ OnProc("deactivate", pr).fn = "deactivate"
      BY <1>2, Frames
    <3>2. \A fn, y : Makes(cs, fn, y) <=>
            (fn = "deactivate" /\ OnProc("deactivate", pr).m = y) \/ Makes(<<Top>>, fn, y)
      BY <1>8, <2>2, <3>1, MakesCons
    <3>3. \A fn, y : Makes(<<Top>>, fn, y) <=> fn = "deliver" /\ y = m
      BY <1>0, <1>1, <1>a, Few
    <3>4. Leaving(pr)'
      BY <1>0, <1>2, <1>8, <1>9, <2>2, LostLeaves
    <3> QED
      BY <3>2, <3>3, <3>4 DEF Concerning
  <2> QED
    BY <1>9, <2>1, <2>2
<1>11. /\ \A fn, y : On(fn, y)' <=> Makes(cs, fn, y) \/ Beneath(fn, y)
       /\ \A fn \in Concerning : \A y : ~Beneath(fn, y)
       /\ On("deliver", m)
  <2>1. 1 \in DOMAIN calls /\ calls[1] = Top
    BY <1>0 DEF Top
  <2> QED
    BY <1>0, <1>1, <1>9, <2>1, StackAfter, Below DEF On
<1>12. CASE x # m
  <2>1. Same(x) /\ Kept(x)
    <3>1. handler'[x] = handler[x]
      BY <1>0, <1>2, <1>12 DEF TypeOK
    <3> QED
      BY <1>3, <1>6, <1>7, <1>12, <3>1 DEF Same, Kept
  <2> QED
    BY <1>0, <1>1, <1>9, <1>10, <1>12, <2>1, Bystander DEF Running
<1>13. CASE x = m
  <2>1. handler'[m] = pr
    BY <1>0, <1>2 DEF TypeOK
  <2>2. \A fn \in Concerning : On(fn, m)' => fn = "deliver" /\ Leaving(pr)'
    BY <1>10, <1>11
  <2>3. Offered(m) => Offered(m)'
    BY <1>0, <1>9, ServerOffers DEF Running
  <2>4. Awaiting(m)'
    BY <1>3, <1>4 DEF Awaiting
  <2> USE DEF Concerning
  <2>5. OneOutcome(m)'
    BY <1>3, <1>4 DEF Sound, OneOutcome
  <2>6. OneWorker(m)'
    BY <1>5, <1>7 DEF OneWorker
  <2>7. HandlerHasIt(m)'
    BY <1>6, <2>1 DEF HandlerHasIt
  <2>8. WaitsForStart(m)'
    BY <1>3, <1>4, <1>7, <1>11, <2>2, <2>3 DEF Sound, WaitsForStart, Deliverable
  <2>9. Deliverable(m)'
    BY <1>3, <1>4, <1>7, <1>11, <2>1, <2>2, <2>3 DEF Sound, Deliverable
  <2>10. Called(m)'
    BY <2>2 DEF Called
  <2>11. Somewhere(m)'
    BY <1>2, <2>1, ConstantsAssumption DEF Somewhere
  <2> QED
    BY <1>13, <2>5, <2>6, <2>7, <2>8, <2>9, <2>10, <2>11 DEF Sound
<1> QED
  BY <1>12, <1>13

LEMMA NoCalls == \E none \in Seq(Frame) : none = <<>> /\ \A fn, x : ~Makes(none, fn, x)
PROOF
<1>1. <<>> \in Seq(Frame)
  OBVIOUS
<1> QED
  BY <1>1, Few

(* What is known of the message for which no handler was found.            *)
LEMMA NobodyHasIt ==
  ASSUME Promise, ServerStep, NEW m \in Msg, NoHandler(m), Awaiting(m)
  PROVE  /\ calls \in Seq(Frame) /\ calls # <<>> /\ TypeOK /\ Sound(m)
         /\ Top.fn = "deliver" /\ Top.m = m /\ handler[m] = NoProc
         /\ \A p \in Proc : ~Owes(p, m)
         /\ On("deliver", m)
         /\ \A fn \in Concerning : \A y : ~Beneath(fn, y)
         /\ \A s \in Final : s \notin state_reported[m]
PROOF
<1>0. calls \in Seq(Frame) /\ calls # <<>> /\ TypeOK /\ Sound(m)
  BY Parts, ServerCalls
<1>1. Top.fn = "deliver" /\ Top.m = m /\ Running("deliver")
  BY DEF NoHandler, Running
<1>2. handler[m] = NoProc
  BY <1>1, DeliverUnheld
<1>3. \A p \in Proc : ~Owes(p, m)
  BY <1>0, <1>2, ConstantsAssumption DEF Sound, OneWorker
<1>4. On("deliver", m)
  <2>1. 1 \in DOMAIN calls /\ calls[1] = Top
    BY <1>0 DEF Top
  <2> QED
    BY <1>1, <2>1 DEF On
<1>5. \A fn \in Concerning : \A y : ~Beneath(fn, y)
  BY <1>0, <1>1, Below
<1>6. \A s \in Final : s \notin state_reported[m]
  BY <1>0, NotOverYet
<1> QED
  BY <1>0, <1>1, <1>2, <1>3, <1>4, <1>5, <1>6

LEMMA NoRecipientsStartSound ==
  ASSUME Promise, NEW x \in Msg, NoRecipientsStart
  PROVE  Sound(x)'
PROOF
<1>s. ServerStep
  BY DEF ServerStep
<1>b. PICK m \in Msg : \E pt :
        /\ pt = SigPtype[OpOf[m]]
        /\ NoHandler(m) /\ Awaiting(m) /\ StartsAnew(m)
        /\ state' = [state EXCEPT ![m] = "STARTED"]
        /\ state_reported' = [state_reported EXCEPT ![m] = @ \union {"STARTED"}]
        /\ UNCHANGED <<undelivered, delivered, handler, reliability, sender_copy>>
        /\ \/ /\ ptype_queue' = [ptype_queue EXCEPT ![pt] = Append(@, m)]
              /\ Then(<<OnMsg("report", m), OnMsg("queue", m)>>)
           \/ /\ Then(<<OnMsg("start_failed", m)>>)
              /\ UNCHANGED ptype_queue
  BY DEF NoRecipientsStart, procVars
<1>1. PICK pt :
        /\ pt = SigPtype[OpOf[m]]
        /\ NoHandler(m) /\ Awaiting(m) /\ StartsAnew(m)
        /\ state' = [state EXCEPT ![m] = "STARTED"]
        /\ state_reported' = [state_reported EXCEPT ![m] = @ \union {"STARTED"}]
        /\ UNCHANGED <<undelivered, delivered, handler, reliability, sender_copy>>
        /\ \/ /\ ptype_queue' = [ptype_queue EXCEPT ![pt] = Append(@, m)]
              /\ Then(<<OnMsg("report", m), OnMsg("queue", m)>>)
           \/ /\ Then(<<OnMsg("start_failed", m)>>)
              /\ UNCHANGED ptype_queue
  BY <1>b
<1>2. /\ calls \in Seq(Frame) /\ calls # <<>> /\ TypeOK /\ Sound(m)
      /\ Top.fn = "deliver" /\ Top.m = m /\ handler[m] = NoProc
      /\ \A p \in Proc : ~Owes(p, m)
      /\ On("deliver", m)
      /\ \A fn \in Concerning : \A y : ~Beneath(fn, y)
      /\ \A s \in Final : s \notin state_reported[m]
  BY <1>s, <1>1, NobodyHasIt
<1>3. pt \in Ptype /\ "start" \in reliability[m] /\ ~Queued(m)
  <2>1. "start" \in reliability[m] /\ "STARTED" \notin state_reported[m]
    BY <1>1 DEF StartsAnew
  <2>2. ~Queued(m)
    BY <1>2, <2>1 DEF Sound, WaitsForStart
  <2>3. StartsHavePtype
    BY Parts
  <2>4. pt \in Ptype
    BY <1>1, <2>1, <2>3 DEF StartsHavePtype
  <2> QED
    BY <2>1, <2>2, <2>4
<1>4. /\ state'[m] = "STARTED"
      /\ state_reported'[m] = state_reported[m] \union {"STARTED"}
      /\ \A y \in Msg : y # m => state'[y] = state[y] /\ state_reported'[y] = state_reported[y]
  BY <1>1, <1>2 DEF TypeOK
<1>5. \A p \in Proc : \A y : (Owes(p, y)' <=> Owes(p, y)) /\ (Waits(p, y)' <=> Waits(p, y))
  BY <1>1 DEF Owes, Waits, In
<1>6. PICK cs \in Seq(Frame) :
        /\ Then(cs)
        /\ \/ /\ ptype_queue' = [ptype_queue EXCEPT ![pt] = Append(@, m)]
              /\ \A fn, y : Makes(cs, fn, y) <=> fn \in {"report", "queue"} /\ y = m
           \/ /\ UNCHANGED ptype_queue
              /\ \A fn, y : Makes(cs, fn, y) <=> fn = "start_failed" /\ y = m
  <2>1. \A fn \in {"report", "queue", "start_failed"} :
          OnMsg(fn, m) \in Frame /\ OnMsg(fn, m).fn = fn /\ OnMsg(fn, m).m = m
    BY Frames, CallMessages
  <2>2. CASE Then(<<OnMsg("report", m), OnMsg("queue", m)>>)
             /\ ptype_queue' = [ptype_queue EXCEPT ![pt] = Append(@, m)]
    <3> DEFINE cs == <<OnMsg("report", m), OnMsg("queue", m)>>
    <3>1. cs \in Seq(Frame)
      BY <2>1
    <3>2. \A fn, y : Makes(cs, fn, y) <=> fn \in {"report", "queue"} /\ y = m
      BY <2>1, Few
    <3> QED
      BY <2>2, <3>1, <3>2
  <2>3. CASE Then(<<OnMsg("start_failed", m)>>) /\ UNCHANGED ptype_queue
    <3> DEFINE cs == <<OnMsg("start_failed", m)>>
    <3>1. cs \in Seq(Frame)
      BY <2>1
    <3>2. \A fn, y : Makes(cs, fn, y) <=> fn = "start_failed" /\ y = m
      BY <2>1, Few
    <3> QED
      BY <2>3, <3>1, <3>2
  <2> QED
    BY <1>1, <2>2, <2>3
<1>7. /\ \A y : y # m => (Queued(y)' <=> Queued(y))
      /\ Queued(m)' \/ Makes(cs, "start_failed", m)
      /\ Queued(m)' => ~Makes(cs, "start_failed", m)
  <2>1. CASE /\ UNCHANGED ptype_queue
             /\ \A fn, y : Makes(cs, fn, y) <=> fn = "start_failed" /\ y = m
    BY <1>3, <2>1 DEF Queued, In
  <2>2. CASE /\ ptype_queue' = [ptype_queue EXCEPT ![pt] = Append(@, m)]
             /\ \A fn, y : Makes(cs, fn, y) <=> fn \in {"report", "queue"} /\ y = m
    <3>1. \A t \in Ptype : \A y :
            In(y, ptype_queue'[t]) <=> In(y, ptype_queue[t]) \/ (t = pt /\ y = m)
      <4> SUFFICES ASSUME NEW t \in Ptype, NEW y
                   PROVE  In(y, ptype_queue'[t]) <=>
                            In(y, ptype_queue[t]) \/ (t = pt /\ y = m)
        OBVIOUS
      <4>1. ptype_queue'[t] = IF t = pt THEN Append(ptype_queue[pt], m) ELSE ptype_queue[t]
        BY <1>2, <2>2 DEF TypeOK
      <4>2. ptype_queue[pt] \in Seq(Msg)
        BY <1>2, <1>3 DEF TypeOK
      <4> QED
        BY <4>1, <4>2, InAppend
    <3>2. Queued(m)'
      BY <1>3, <3>1 DEF Queued
    <3>3. ~Makes(cs, "start_failed", m)
      BY <2>2
    <3> QED
      BY <3>1, <3>2, <3>3 DEF Queued
  <2> QED
    BY <1>6, <2>1, <2>2
<1>8. CASE x # m
  <2>1. Same(x) /\ Kept(x)
    BY <1>1, <1>4, <1>5, <1>7, <1>8 DEF Same, Kept
  <2>2. \A fn : ~Makes(cs, fn, x)
    BY <1>6, <1>8
  <2> QED
    BY <1>s, <1>2, <1>6, <1>8, <2>1, <2>2, Bystander DEF Running
<1>9. CASE x = m
  <2>1. \A fn : On(fn, m)' <=> Makes(cs, fn, m) \/ Beneath(fn, m)
    BY <1>2, <1>6, StackAfter
  <2>2. \A fn \in Concerning : On(fn, m)' => fn \in {"report", "queue", "start_failed"}
                                             /\ Makes(cs, fn, m)
    BY <1>2, <1>6, <2>1
  <2>3. Awaiting(m)' /\ state[m] \notin Final
    BY <1>1, <1>4 DEF Awaiting, Final
  <2>4. handler'[m] = NoProc /\ reliability'[m] = reliability[m]
        /\ sender_copy'[m] = sender_copy[m]
    BY <1>1, <1>2
  <2> USE DEF Concerning
  <2>5. OneOutcome(m)'
    BY <1>2, <1>4, <2>3, <2>4 DEF Sound, OneOutcome, Final
  <2>6. OneWorker(m)'
    BY <1>2, <1>5 DEF OneWorker
  <2>7. HandlerHasIt(m)'
    BY <2>4, ConstantsAssumption DEF HandlerHasIt
  <2>8. WaitsForStart(m)'
    BY <1>3, <1>4, <1>7, <2>2, <2>3, <2>4 DEF WaitsForStart
  <2>9. Deliverable(m)'
    BY <2>2 DEF Deliverable
  <2>10. Called(m)'
    BY <1>3, <2>2, <2>3, <2>4 DEF Called
  <2>11. Somewhere(m)'
    BY <1>7, <2>1 DEF Somewhere
  <2> QED
    BY <1>9, <2>5, <2>6, <2>7, <2>8, <2>9, <2>10, <2>11 DEF Sound
<1> QED
  BY <1>8, <1>9

LEMMA StartFailedSound ==
  ASSUME Promise, NEW x \in Msg, StartFailed
  PROVE  Sound(x)'
PROOF
<1>0. calls \in Seq(Frame) /\ calls # <<>> /\ TypeOK /\ Sound(x) /\ ServerStep
      /\ Top.fn = "start_failed"
  <2>1. ServerStep /\ Top.fn = "start_failed"
    BY DEF ServerStep, StartFailed, Running
  <2> QED
    BY <2>1, Parts, ServerCalls
<1>a. Top \in Frame /\ Top.m \in Msg
  BY <1>0, TopTypes DEF MsgCalls
<1>1. PICK m \in Msg : m = Top.m
  BY <1>a
<1>b. PICK none \in Seq(Frame) : none = <<>> /\ \A fn, y : ~Makes(none, fn, y)
  BY NoCalls
<1>2. /\ reliability' = [reliability EXCEPT ![m] = {}]
      /\ Finish(m, "FAILED", none)
      /\ UNCHANGED <<undelivered, delivered, handler, sender_copy, ptype_queue>>
  BY <1>1, <1>b DEF StartFailed, procVars, queueVars
<1>3. On("start_failed", m) /\ Sound(m)
  <2>1. 1 \in DOMAIN calls /\ calls[1] = Top
    BY <1>0 DEF Top
  <2> QED
    BY <1>0, <1>1, <2>1, Parts DEF On
<1>4. \A p \in Proc : \A y : (Owes(p, y)' <=> Owes(p, y)) /\ (Waits(p, y)' <=> Waits(p, y))
  BY <1>2 DEF Owes, Waits, In
<1>5. \A y : Queued(y)' <=> Queued(y)
  BY <1>2 DEF Queued, In
<1>6. (\A p \in Proc : ~Owes(p, m)) /\ ~Queued(m)
  BY <1>3 DEF Sound, OneWorker, WaitsForStart
<1>7. reliability'[m] = {} /\ \A y \in Msg : y # m => reliability'[y] = reliability[y]
  BY <1>0, <1>2 DEF TypeOK
<1>8. PICK cs \in Seq(Frame) :
        /\ Then(cs)
        /\ \A fn, y : Makes(cs, fn, y) => fn = "report" /\ y = m
  <2>2. PICK cs \in Seq(Frame) :
          /\ Then(cs)
          /\ \A fn, y : Makes(cs, fn, y) <=>
               \/ Makes(none, fn, y)
               \/ "FAILED" \notin state_reported[m] /\ fn = "report" /\ y = m
    BY <1>0, <1>2, FinishDoes
  <2> QED
    BY <1>b, <2>2
<1>9. /\ "FAILED" \notin state_reported[m] =>
           /\ state'[m] = "FAILED"
           /\ state_reported'[m] = state_reported[m] \union {"FAILED"}
      /\ \A y \in Msg : y # m \/ "FAILED" \in state_reported[m] =>
           state'[y] = state[y] /\ state_reported'[y] = state_reported[y]
  BY <1>0, <1>2, FinishDoes
<1>10. /\ \A fn, y : On(fn, y)' <=> Makes(cs, fn, y) \/ Beneath(fn, y)
       /\ \A fn \in Concerning : \A y : ~Beneath(fn, y)
  BY <1>0, <1>8, StackAfter, Below
<1>11. \A fn \in Concerning : On(fn, m)' => fn = "report"
  BY <1>8, <1>10
<1>12. CASE x # m
  <2>1. Same(x) /\ Kept(x)
    BY <1>2, <1>4, <1>5, <1>7, <1>9, <1>12 DEF Same, Kept
  <2>2. \A fn : ~Makes(cs, fn, x)
    BY <1>8, <1>12
  <2> QED
    BY <1>0, <1>1, <1>8, <1>12, <2>1, <2>2, Bystander DEF Running
<1>13. CASE x = m /\ Awaiting(m)
  <2>1. "FAILED" \notin state_reported[m] /\ "FAILED" \in Final
    BY <1>0, <1>3, <1>13, NotOverYet DEF Final
  <2> QED
    BY <1>2, <1>3, <1>4, <1>5, <1>6, <1>7, <1>9, <1>11, <1>13, <2>1, Ended DEF Concerning
<1>14. CASE x = m /\ ~Awaiting(m)
  <2>1. state[m] = "FAILED" /\ "FAILED" \in state_reported[m]
    BY <1>3, <1>14 DEF Sound, Called, OneOutcome, Final
  <2>2. state'[m] = state[m] /\ state_reported'[m] = state_reported[m]
        /\ sender_copy'[m] = sender_copy[m]
    BY <1>2, <1>9, <2>1
  <2>3. ~Awaiting(m)' /\ state'[m] \in Final
    BY <2>1, <2>2 DEF Awaiting, Final
  <2> USE DEF Concerning
  <2>5. OneOutcome(m)'
    BY <1>3, <1>7, <2>1, <2>2 DEF Sound, OneOutcome
  <2>6. OneWorker(m)' /\ HandlerHasIt(m)' /\ Somewhere(m)'
    BY <1>4, <1>6, <2>3 DEF OneWorker, HandlerHasIt, Somewhere
  <2>8. WaitsForStart(m)' /\ Deliverable(m)'
    BY <1>5, <1>6, <1>11 DEF WaitsForStart, Deliverable
  <2>10. Called(m)'
    BY <1>11, <2>3 DEF Called
  <2> QED
    BY <1>14, <2>5, <2>6, <2>8, <2>10 DEF Sound
<1> QED
  BY <1>12, <1>13, <1>14

LEMMA NoRecipientsQueueSound ==
  ASSUME Promise, NEW x \in Msg, NoRecipientsQueue
  PROVE  Sound(x)'
PROOF
<1>s. ServerStep
  BY DEF ServerStep
<1>1. CASE Running("queue") /\ NoRecipientsQueue
  BY <1>1, QuietSound
<1>2. CASE ~Running("queue")
  <2>1. PICK m \in Msg :
          /\ NoHandler(m) /\ Awaiting(m) /\ ~StartsAnew(m)
          /\ HonourQueue(m)
          /\ UNCHANGED <<undelivered, delivered, handler, reliability, sender_copy,
                         ptype_queue>>
    BY <1>2 DEF NoRecipientsQueue, procVars
  <2>2. /\ calls \in Seq(Frame) /\ calls # <<>> /\ TypeOK /\ Sound(m)
        /\ Top.fn = "deliver" /\ Top.m = m /\ handler[m] = NoProc
        /\ \A p \in Proc : ~Owes(p, m)
        /\ On("deliver", m)
        /\ \A fn \in Concerning : \A y : ~Beneath(fn, y)
        /\ \A s \in Final : s \notin state_reported[m]
    BY <1>s, <2>1, NobodyHasIt
  <2>3. "queue" \notin reliability[m]
    BY <2>2 DEF Sound, OneOutcome
  <2>4. \A p \in Proc : \A y : (Owes(p, y)' <=> Owes(p, y)) /\ (Waits(p, y)' <=> Waits(p, y))
    BY <2>1 DEF Owes, Waits, In
  <2>5. \A y : Queued(y)' <=> Queued(y)
    BY <2>1 DEF Queued, In
  <2>6. PICK none \in Seq(Frame) : none = <<>> /\ \A fn, y : ~Makes(none, fn, y)
    BY NoCalls
  <2>7. CASE "start" \in reliability[m]
    <3>1. Then(none) /\ UNCHANGED <<state, state_reported>>
      BY <2>1, <2>3, <2>6, <2>7 DEF HonourQueue
    <3>2. \A fn \in Concerning : \A y : ~On(fn, y)'
      BY <2>2, <2>6, <3>1, StackAfter
    <3>3. Same(x) /\ Kept(x)
      BY <2>1, <2>4, <2>5, <3>1 DEF Same, Kept
    <3>4. CASE x # m
      BY <1>s, <2>2, <2>6, <3>1, <3>3, <3>4, Bystander DEF Running
    <3>5. CASE x = m
      <4>1. Queued(m)
        BY <2>1, <2>2, <2>7 DEF StartsAnew, Sound, Deliverable
      <4> USE DEF Concerning
      <4>2. Awaiting(m)' <=> Awaiting(m)
        BY <3>1 DEF Awaiting
      <4>3. OneOutcome(m)'
        BY <2>1, <2>2, <3>1 DEF Sound, OneOutcome
      <4>4. OneWorker(m)'
        BY <2>2, <2>4 DEF OneWorker
      <4>5. HandlerHasIt(m)'
        BY <2>1, <2>2, ConstantsAssumption DEF HandlerHasIt
      <4>6. WaitsForStart(m)'
        BY <2>1, <2>2, <3>1, <3>2, <4>1, <4>2 DEF Sound, WaitsForStart
      <4>7. Deliverable(m)' /\ Called(m)'
        BY <3>2 DEF Deliverable, Called
      <4>8. Somewhere(m)'
        BY <2>5, <4>1 DEF Somewhere
      <4> QED
        BY <3>5, <4>3, <4>4, <4>5, <4>6, <4>7, <4>8 DEF Sound
    <3> QED
      BY <3>4, <3>5
  <2>8. CASE "start" \notin reliability[m]
    <3>1. Finish(m, "FAILED", none)
      BY <2>1, <2>3, <2>6, <2>8 DEF HonourQueue
    <3>2. "FAILED" \in Final /\ "FAILED" \notin state_reported[m] /\ ~Queued(m)
      BY <2>2, <2>8 DEF Final, Sound, WaitsForStart
    <3>3. PICK cs \in Seq(Frame) :
            /\ Then(cs)
            /\ \A fn, y : Makes(cs, fn, y) <=>
                 Makes(none, fn, y) \/ (fn = "report" /\ y = m)
      BY <2>2, <3>1, <3>2, FinishAnew
    <3>4. /\ state'[m] = "FAILED"
          /\ state_reported'[m] = state_reported[m] \union {"FAILED"}
          /\ \A y \in Msg : y # m =>
               state'[y] = state[y] /\ state_reported'[y] = state_reported[y]
      BY <2>2, <3>1, <3>2, FinishAnew
    <3>5. CASE x # m
      <4>1. Same(x) /\ Kept(x)
        BY <2>1, <2>4, <2>5, <3>4, <3>5 DEF Same, Kept
      <4>2. \A fn : ~Makes(cs, fn, x)
        BY <2>6, <3>3, <3>5
      <4> QED
        BY <1>s, <2>2, <3>3, <3>5, <4>1, <4>2, Bystander DEF Running
    <3>6. CASE x = m
      <4>1. \A fn \in Concerning : On(fn, m)' => fn = "report"
        BY <2>2, <2>6, <3>3, StackAfter
      <4> QED
        BY <2>1, <2>2, <2>4, <2>5, <3>2, <3>4, <3>6, <4>1, Ended DEF Concerning
    <3> QED
      BY <3>5, <3>6
  <2> QED
    BY <2>7, <2>8
<1> QED
  BY <1>1, <1>2

(* What is queued on a ptype is queued on no other.                        *)
LEMMA QueuedOn ==
  ASSUME StartsHavePtype, NEW pt \in Ptype, NEW x, In(x, ptype_queue[pt])
  PROVE  \A t \in Ptype : In(x, ptype_queue[t]) => t = pt
PROOF
  BY DEF StartsHavePtype, In

(* The queues after the first message of one was taken off.                *)
LEMMA Unqueued ==
  ASSUME TypeOK, StartsHavePtype, Singly, NEW pt \in Ptype, ptype_queue[pt] # <<>>,
         NEW m, m = Head(ptype_queue[pt]),
         ptype_queue' = [ptype_queue EXCEPT ![pt] = Tail(@)]
  PROVE  /\ m \in Msg /\ Queued(m) /\ ~Queued(m)'
         /\ \A y : y # m => (Queued(y)' <=> Queued(y))
PROOF
<1>1. ptype_queue[pt] \in Seq(Msg)
  BY DEF TypeOK
<1>2. m \in Msg /\ In(m, ptype_queue[pt])
  BY <1>1, HeadIn
<1>3. \A t \in Ptype :
        ptype_queue'[t] = IF t = pt THEN Tail(ptype_queue[pt]) ELSE ptype_queue[t]
  BY DEF TypeOK
<1>4. ~In(m, Tail(ptype_queue[pt]))
  BY <1>1, OnceTail DEF Singly
<1>5. \A y : y # m => (In(y, Tail(ptype_queue[pt])) <=> In(y, ptype_queue[pt]))
  BY <1>1, InTail
<1>6. \A t \in Ptype : In(m, ptype_queue[t]) => t = pt
  BY <1>2, QueuedOn
<1>7. \A t \in Ptype : ~In(m, ptype_queue'[t])
  BY <1>3, <1>4, <1>6
<1>8. \A y : y # m => \A t \in Ptype : In(y, ptype_queue'[t]) <=> In(y, ptype_queue[t])
  BY <1>3, <1>5
<1>9. Queued(m) /\ ~Queued(m)'
  BY <1>2, <1>7 DEF Queued
<1>10. \A y : y # m => (Queued(y)' <=> Queued(y))
  BY <1>8 DEF Queued
<1> QED
  BY <1>2, <1>9, <1>10

LEMMA ProcStartedSound ==
  ASSUME Promise, NEW x \in Msg, ProcStarted
  PROVE  Sound(x)'
PROOF
<1>0. calls \in Seq(Frame) /\ calls # <<>> /\ TypeOK /\ Sound(x) /\ ServerStep
      /\ Top.fn = "proc_started" /\ Singly /\ StartsHavePtype /\ StartedAlone
  <2>1. ServerStep /\ Top.fn = "proc_started"
    BY DEF ServerStep, ProcStarted, Running
  <2> QED
    BY <2>1, Parts, ServerCalls
<1>a. Top \in Frame /\ Top.p \in Proc /\ Top.t \in Ptype
  BY <1>0, TopTypes DEF ProcCalls, TypeCalls
<1>b. PICK pr \in Proc, pt \in Ptype : pr = Top.p /\ pt = Top.t
  BY <1>a
<1>1. PICK m : pr = Top.p /\ pt = Top.t /\ m = Head(ptype_queue[Top.t])
  BY <1>b
<1>2. PICK fail :
        /\ fail = [OnType("launch_failed", pt) EXCEPT !.m = m]
        /\ handler' = [handler EXCEPT ![m] = pr]
        /\ AddMessage(pr, m, <<>>, <<fail>>)
  BY <1>1 DEF ProcStarted
<1>3. /\ ptype_queue[pt] # <<>>
      /\ ptype_queue' = [ptype_queue EXCEPT ![pt] = Tail(@)]
      /\ UNCHANGED <<delivered, state, state_reported, reliability, sender_copy>>
  BY <1>1 DEF ProcStarted
<1>4. /\ m \in Msg /\ Queued(m) /\ ~Queued(m)'
      /\ \A y : y # m => (Queued(y)' <=> Queued(y))
  BY <1>0, <1>1, <1>3, Unqueued
<1>5. conn[pr] = "active"
  <2>1. 1 \in DOMAIN calls /\ calls[1] = Top
    BY <1>0 DEF Top
  <2> QED
    BY <1>0, <1>1, <2>1 DEF StartedAlone
<1>6. \A pt2 : ~DeliversBeneath(pt2)
  BY <1>0, Below DEF Loops, TypeCalls
<1>7. \A y : ~Offered(y)
  BY <1>0, <1>6, StackBefore DEF Offered
<1>8. Sound(m)
  BY <1>4, Parts
<1>9. Awaiting(m) /\ handler[m] = NoProc /\ "STARTED" \in state_reported[m]
  BY <1>4, <1>7, <1>8 DEF Sound, WaitsForStart
<1>10. \A p \in Proc : ~Owes(p, m)
  BY <1>8, <1>9, ConstantsAssumption DEF Sound, OneWorker
<1>11. \A p \in Proc : \A y : Waits(p, y)' <=> Waits(p, y) \/ (p = pr /\ y = m)
  BY <1>0, <1>2, <1>4, <1>5, SentMail
<1>12. \A p \in Proc : \A y : Owes(p, y)' <=> Owes(p, y)
  BY <1>3 DEF Owes
<1>13. fail \in Frame /\ fail.fn = "launch_failed" /\ fail.m = m
  <2> DEFINE f == OnType("launch_failed", pt)
  <2>1. f \in Frame /\ f.fn = "launch_failed"
    BY Frames DEF TypeCalls, ProcCalls
  <2> HIDE DEF f
  <2>2. [f EXCEPT !.m = m] \in Frame /\ [f EXCEPT !.m = m].fn = "launch_failed"
        /\ [f EXCEPT !.m = m].m = m
    BY <1>4, <2>1 DEF Frame
  <2> QED
    BY <1>2, <2>2 DEF f
<1>14. PICK cs \in Seq(Frame) :
         /\ Then(cs)
         /\ \A fn \in Concerning : \A y : Makes(cs, fn, y) => fn = "launch_failed" /\ y = m
  <2>1. <<fail>> \in Seq(Frame)
    BY <1>13
  <2>5. PICK none \in Seq(Frame) : none = <<>> /\ \A fn, y : ~Makes(none, fn, y)
    BY NoCalls
  <2>6. AddMessage(pr, m, none, <<fail>>)
    BY <1>2, <2>5
  <2>2. PICK cs \in Seq(Frame) :
          Then(cs) /\ (cs = none \/ cs = <<OnProc("deactivate", pr)>> \o <<fail>>)
    BY <1>5, <2>1, <2>6, AddMessageDoes
  <2>3. CASE cs = none
    BY <2>2, <2>3, <2>5
  <2>4. CASE cs = <<OnProc("deactivate", pr)>> \o <<fail>>
    <3>1. OnProc("deactivate", pr) \in Frame /\ OnProc("deactivate", pr).fn = "deactivate"
      BY Frames
    <3>2. \A fn, y : Makes(cs, fn, y) <=>
            (fn = "deactivate" /\ OnProc("deactivate", pr).m = y) \/ Makes(<<fail>>, fn, y)
      BY <2>1, <2>4, <3>1, MakesCons
    <3>3. \A fn, y : Makes(<<fail>>, fn, y) <=> fn = "launch_failed" /\ y = m
      BY <1>13, Few
    <3> QED
      BY <2>2, <3>2, <3>3 DEF Concerning
  <2> QED
    BY <2>2, <2>3, <2>4
<1>15. /\ \A fn, y : On(fn, y)' <=> Makes(cs, fn, y) \/ Beneath(fn, y)
       /\ \A fn \in Concerning : \A y : ~Beneath(fn, y)
  BY <1>0, <1>14, StackAfter, Below
<1>16. CASE x # m
  <2>1. handler'[x] = handler[x]
    BY <1>0, <1>2, <1>16 DEF TypeOK
  <2>2. Same(x) /\ Kept(x)
    BY <1>3, <1>4, <1>11, <1>12, <1>16, <2>1 DEF Same, Kept
  <2> QED
    BY <1>0, <1>7, <1>14, <1>16, <2>2, Bystander
<1>17. CASE x = m
  <2>1. handler'[m] = pr
    BY <1>0, <1>2, <1>4 DEF TypeOK
  <2>2. \A fn \in Concerning : On(fn, m)' => fn = "launch_failed"
    BY <1>14, <1>15
  <2>3. Awaiting(m)'
    BY <1>3, <1>9 DEF Awaiting
  <2> USE DEF Concerning
  <2>4. OneOutcome(m)'
    BY <1>3, <1>8, <1>9 DEF Sound, OneOutcome, Awaiting
  <2>5. OneWorker(m)'
    BY <1>10, <1>12 DEF OneWorker
  <2>6. HandlerHasIt(m)'
    BY <1>11, <2>1 DEF HandlerHasIt
  <2>7. WaitsForStart(m)'
    BY <1>4 DEF WaitsForStart
  <2>8. Deliverable(m)' /\ Called(m)'
    BY <2>2, <2>3 DEF Deliverable, Called
  <2>9. Somewhere(m)'
    BY <2>1, ConstantsAssumption DEF Somewhere
  <2> QED
    BY <1>17, <2>4, <2>5, <2>6, <2>7, <2>8, <2>9 DEF Sound
<1> QED
  BY <1>16, <1>17

LEMMA RedeliverSound ==
  ASSUME Promise, NEW x \in Msg, Redeliver
  PROVE  Sound(x)'
PROOF
<1>0. calls \in Seq(Frame) /\ calls # <<>> /\ TypeOK /\ Sound(x) /\ ServerStep
      /\ Top.fn = "redeliver"
  <2>1. ServerStep /\ Top.fn = "redeliver"
    BY DEF ServerStep, Redeliver, Running
  <2> QED
    BY <2>1, Parts, ServerCalls
<1>a. Top \in Frame /\ Top.t \in Ptype
  BY <1>0, TopTypes DEF TypeCalls
<1>1. CASE ptype_queue[Top.t] = <<>>
  BY <1>0, <1>1, QuietSound DEF Running
<1>2. CASE ptype_queue[Top.t] # <<>>
  <2>a. PICK pt \in Ptype : pt = Top.t
    BY <1>a
  <2>1. PICK m : pt = Top.t /\ m = Head(ptype_queue[Top.t])
    BY <2>a
  <2>2. /\ ptype_queue[pt] # <<>> /\ m = Head(ptype_queue[pt])
        /\ state' = [state EXCEPT ![m] = "SENT"]
        /\ Then(<<OnMsg("deliver", m), OnType("redelivered", pt)>>)
        /\ UNCHANGED <<undelivered, delivered, handler, state_reported, reliability,
                       sender_copy, ptype_queue>>
    BY <1>2, <2>1 DEF Redeliver, procVars, queueVars
  <2>3. m \in Msg /\ Queued(m)
    <3>1. ptype_queue[pt] \in Seq(Msg)
      BY <1>0 DEF TypeOK
    <3> QED
      BY <2>2, <3>1, HeadIn DEF Queued
  <2>4. \A t : ~DeliversBeneath(t)
    BY <1>0, Below DEF Loops, TypeCalls
  <2>5. \A y : ~Offered(y)
    BY <1>0, <2>4, StackBefore DEF Offered
  <2>6. Sound(m)
    BY <2>3, Parts
  <2>7. Awaiting(m) /\ handler[m] = NoProc
    BY <2>3, <2>5, <2>6 DEF Sound, WaitsForStart
  <2>8. /\ \A p \in Proc : \A y : (Owes(p, y)' <=> Owes(p, y)) /\ (Waits(p, y)' <=> Waits(p, y))
        /\ \A y : Queued(y)' <=> Queued(y)
    BY <2>2 DEF Owes, Waits, Queued, In
  <2>9. PICK cs \in Seq(Frame) :
          /\ Then(cs)
          /\ \A fn \in Concerning : \A y : Makes(cs, fn, y) <=> fn = "deliver" /\ y = m
          /\ MakesDelivers(cs, pt)
    <3> DEFINE f  == OnMsg("deliver", m)
               g  == OnType("redelivered", pt)
               cs == <<f, g>>
    <3>1. f \in Frame /\ f.fn = "deliver" /\ f.m = m
      BY <2>3, Frames, CallMessages
    <3>2. g \in Frame /\ g.fn = "redelivered" /\ g.t = pt
      BY Frames DEF TypeCalls, ProcCalls
    <3> HIDE DEF f, g
    <3>3. cs \in Seq(Frame) /\ MakesDelivers(cs, pt)
          /\ \A fn \in Concerning : \A y : Makes(cs, fn, y) <=> fn = "deliver" /\ y = m
      BY <3>1, <3>2, Few DEF Concerning
    <3>4. Then(cs)
      BY <2>2 DEF f, g
    <3> HIDE DEF cs
    <3> QED
      BY <3>3, <3>4
  <2>10. /\ \A fn, y : On(fn, y)' <=> Makes(cs, fn, y) \/ Beneath(fn, y)
         /\ \A t : Delivers(t)' <=> MakesDelivers(cs, t) \/ DeliversBeneath(t)
         /\ \A fn \in Concerning : \A y : ~Beneath(fn, y)
    BY <1>0, <2>9, StackAfter, Below
  <2>11. state'[m] = "SENT" /\ \A y \in Msg : y # m => state'[y] = state[y]
    BY <1>0, <2>2, <2>3 DEF TypeOK
  <2>12. CASE x # m
    <3>1. Same(x) /\ Kept(x)
      BY <2>2, <2>8, <2>11, <2>12 DEF Same, Kept
    <3> QED
      BY <1>0, <2>5, <2>9, <2>12, <3>1, Bystander
  <2>13. CASE x = m
    <3>1. \A fn \in Concerning : On(fn, m)' <=> fn = "deliver"
      BY <2>9, <2>10
    <3>2. Awaiting(m)'
      BY <2>11 DEF Awaiting
    <3>3. Offered(m)'
      BY <2>2, <2>9, <2>10 DEF Offered
    <3> USE DEF Concerning
    <3>4. OneOutcome(m)'
      BY <2>2, <2>6, <2>7, <2>11 DEF Sound, OneOutcome, Awaiting, Final
    <3>5. OneWorker(m)'
      BY <2>6, <2>7, <2>8, ConstantsAssumption DEF Sound, OneWorker
    <3>6. HandlerHasIt(m)'
      BY <2>2, <2>7, ConstantsAssumption DEF HandlerHasIt
    <3>7. WaitsForStart(m)'
      BY <2>2, <2>3, <2>6, <3>1, <3>3 DEF Sound, WaitsForStart
    <3>8. Deliverable(m)'
      BY <2>2, <2>3, <2>7, <2>8, <3>3, ConstantsAssumption DEF Deliverable
    <3>9. Called(m)' /\ Somewhere(m)'
      BY <2>3, <2>8, <3>1 DEF Called, Somewhere
    <3> QED
      BY <2>13, <3>4, <3>5, <3>6, <3>7, <3>8, <3>9 DEF Sound
  <2> QED
    BY <2>12, <2>13
<1> QED
  BY <1>1, <1>2

LEMMA RedeliveredSound ==
  ASSUME Promise, NEW x \in Msg, Redelivered
  PROVE  Sound(x)'
PROOF
<1>0. calls \in Seq(Frame) /\ calls # <<>> /\ TypeOK /\ Sound(x) /\ ServerStep
      /\ Top.fn = "redelivered" /\ Singly /\ StartsHavePtype /\ LoopsInBounds /\ LoopKnows
  <2>1. ServerStep /\ Top.fn = "redelivered"
    BY DEF ServerStep, Redelivered, Running
  <2> QED
    BY <2>1, Parts, ServerCalls
<1>a. Top \in Frame /\ Top.t \in Ptype
  BY <1>0, TopTypes DEF TypeCalls
<1>b. 1 \in DOMAIN calls /\ calls[1] = Top
  BY <1>0 DEF Top
<1>c. PICK pt \in Ptype : pt = Top.t
  BY <1>a
<1>1. PICK m : pt = Top.t /\ m = Head(ptype_queue[Top.t])
  BY <1>c
<1>2. /\ ptype_queue[pt] # <<>> /\ m = Head(ptype_queue[pt])
      /\ IF ret THEN handler[m] # NoProc \/ state[m] \in Final
                ELSE handler[m] = NoProc /\ Awaiting(m)
  BY <1>0, <1>1, <1>b DEF LoopsInBounds, LoopKnows
<1>3. /\ IF ret
         THEN /\ ptype_queue' = [ptype_queue EXCEPT ![pt] = Tail(@)]
              /\ Then(<<OnType("redeliver", pt)>>)
         ELSE Then(<<>>) /\ UNCHANGED ptype_queue
      /\ UNCHANGED <<undelivered, delivered, state, handler, state_reported,
                     reliability, sender_copy>>
  BY <1>1 DEF Redelivered, procVars, msgVars
<1>4. PICK cs \in Seq(Frame) :
        /\ Then(cs)
        /\ \A fn : \A y \in Msg : ~Makes(cs, fn, y)
        /\ \A t : ~MakesDelivers(cs, t)
  <2> DEFINE f == OnType("redeliver", pt)
  <2>1. f \in Frame /\ f.fn = "redeliver" /\ \A y \in Msg : f.m # y
    BY Frames, CallMessages, ConstantsAssumption DEF TypeCalls, ProcCalls
  <2> HIDE DEF f
  <2>2. CASE Then(<<f>>)
    <3>1. <<f>> \in Seq(Frame)
      BY <2>1
    <3>2. \A fn : \A y \in Msg : ~Makes(<<f>>, fn, y)
      BY <2>1, Few
    <3>3. \A t : ~MakesDelivers(<<f>>, t)
      BY <2>1, Few
    <3> QED
      BY <2>2, <3>1, <3>2, <3>3
  <2>3. CASE Then(<<>>)
    <3>1. <<>> \in Seq(Frame)
      OBVIOUS
    <3> QED
      BY <2>3, <3>1, Few
  <2> QED
    BY <1>3, <2>2, <2>3 DEF f
<1>5. /\ \A fn, y : On(fn, y)' <=> Makes(cs, fn, y) \/ Beneath(fn, y)
      /\ \A fn \in Concerning : \A y : ~Beneath(fn, y)
      /\ \A t : ~DeliversBeneath(t)
  BY <1>0, <1>4, StackAfter, Below DEF Loops, TypeCalls
<1>6. \A y : Offered(y) => y = m
  BY <1>0, <1>1, <1>5, StackBefore DEF Offered
<1>7. m \in Msg /\ Queued(m)
  <2>1. ptype_queue[pt] \in Seq(Msg)
    BY <1>0 DEF TypeOK
  <2> QED
    BY <1>2, <2>1, HeadIn DEF Queued
<1>8. \A y : y # m => (Queued(y)' <=> Queued(y))
  <2>1. CASE ret
    BY <1>0, <1>2, <1>3, <2>1, Unqueued
  <2>2. CASE ~ret
    BY <1>3, <2>2 DEF Queued, In
  <2> QED
    BY <2>1, <2>2
<1>9. IF ret THEN ~Queued(m)' ELSE Queued(m)'
  <2>1. CASE ret
    BY <1>0, <1>2, <1>3, <2>1, Unqueued
  <2>2. CASE ~ret
    BY <1>3, <1>7, <2>2 DEF Queued, In
  <2> QED
    BY <2>1, <2>2
<1>10. \A p \in Proc : \A y : (Owes(p, y)' <=> Owes(p, y)) /\ (Waits(p, y)' <=> Waits(p, y))
  BY <1>3 DEF Owes, Waits, In
<1>11. CASE x # m
  <2>1. Same(x) /\ Kept(x)
    BY <1>3, <1>8, <1>10, <1>11 DEF Same, Kept
  <2> QED
    BY <1>0, <1>4, <1>6, <1>11, <2>1, Bystander
<1>12. CASE x = m
  <2>1. \A fn \in Concerning : ~On(fn, m)'
    BY <1>4, <1>5, <1>7
  <2>2. Awaiting(m)' <=> Awaiting(m)
    BY <1>3 DEF Awaiting
  <2>3. Sound(m)
    BY <1>7, Parts
  <2> USE DEF Concerning
  <2>4. OneOutcome(m)'
    BY <1>3, <2>3 DEF Sound, OneOutcome
  <2>5. OneWorker(m)'
    BY <1>3, <1>7, <1>10, <2>2, <2>3 DEF Sound, OneWorker
  <2>6. HandlerHasIt(m)'
    BY <1>3, <1>10, <2>2, <2>3 DEF Sound, HandlerHasIt
  <2>7. WaitsForStart(m)'
    BY <1>2, <1>3, <1>7, <1>9, <2>1, <2>2, <2>3 DEF Sound, WaitsForStart
  <2>8. Deliverable(m)' /\ Called(m)'
    BY <2>1 DEF Deliverable, Called
  <2>9. Somewhere(m)'
    BY <1>2, <1>3, <1>9, <2>2 DEF Somewhere, Awaiting, Final
  <2> QED
    BY <1>12, <2>4, <2>5, <2>6, <2>7, <2>8, <2>9 DEF Sound
<1> QED
  BY <1>11, <1>12

LEMMA LaunchFailedSound ==
  ASSUME Promise, NEW x \in Msg, LaunchFailed
  PROVE  Sound(x)'
PROOF
<1>0. calls \in Seq(Frame) /\ calls # <<>> /\ TypeOK /\ Sound(x) /\ ServerStep
      /\ Top.fn = "launch_failed" /\ Singly /\ StartsHavePtype
  <2>1. ServerStep /\ Top.fn = "launch_failed"
    BY DEF ServerStep, LaunchFailed, Running
  <2> QED
    BY <2>1, Parts, ServerCalls
<1>a. Top \in Frame /\ Top.t \in Ptype /\ Top.m \in Msg \union {NoMsg}
  BY <1>0, TopTypes DEF TypeCalls
<1>b. 1 \in DOMAIN calls /\ calls[1] = Top
  BY <1>0 DEF Top
<1>1. PICK pt \in Ptype, rest \in Seq(Frame) :
        /\ pt = Top.t /\ rest = <<OnType("launch_failed", pt)>>
        /\ \A fn : \A y \in Msg : ~Makes(rest, fn, y)
  <2> DEFINE f(t) == OnType("launch_failed", t)
  <2>1. \A t \in Ptype : f(t) \in Frame
    BY Frames DEF TypeCalls, ProcCalls
  <2>2. \A t \in Ptype : \A y \in Msg : f(t).m # y
    BY CallMessages, ConstantsAssumption
  <2> HIDE DEF f
  <2>3. \A t \in Ptype : <<f(t)>> \in Seq(Frame)
                         /\ \A fn : \A y \in Msg : ~Makes(<<f(t)>>, fn, y)
    BY <2>1, <2>2, Few
  <2> QED
    BY <1>a, <2>3 DEF f
<1>2. UNCHANGED <<undelivered, delivered, handler, reliability, sender_copy>>
  BY DEF LaunchFailed, procVars
<1>3. \A p \in Proc : \A y : (Owes(p, y)' <=> Owes(p, y)) /\ (Waits(p, y)' <=> Waits(p, y))
  BY <1>2 DEF Owes, Waits, In
<1>4. /\ \A fn \in Concerning : \A y : ~Beneath(fn, y)
      /\ \A t : ~DeliversBeneath(t)
  BY <1>0, Below DEF Loops, TypeCalls
<1>5. \A y : ~Offered(y)
  BY <1>0, <1>4, StackBefore DEF Offered
<1>6. ASSUME NEW m \in Msg, Finish(m, "FAILED", rest), Awaiting(m),
             \A p \in Proc : ~Owes(p, m), ~Queued(m)',
             \A y : y # m => (Queued(y)' <=> Queued(y))
      PROVE  Sound(x)'
  <2>1. "FAILED" \in Final /\ "FAILED" \notin state_reported[m] /\ Sound(m)
    BY <1>0, <1>6, Parts, NotOverYet DEF Final
  <2>2. PICK cs \in Seq(Frame) :
          /\ Then(cs)
          /\ \A fn, y : Makes(cs, fn, y) <=>
               Makes(rest, fn, y) \/ (fn = "report" /\ y = m)
    BY <1>0, <1>6, <2>1, FinishAnew
  <2>3. /\ state'[m] = "FAILED"
        /\ state_reported'[m] = state_reported[m] \union {"FAILED"}
        /\ \A y \in Msg : y # m =>
             state'[y] = state[y] /\ state_reported'[y] = state_reported[y]
    BY <1>0, <1>6, <2>1, FinishAnew
  <2>4. \A fn : \A y \in Msg : Makes(cs, fn, y) => fn = "report" /\ y = m
    BY <1>1, <2>2
  <2>5. \A fn \in Concerning : On(fn, m)' => fn = "report"
    BY <1>0, <1>4, <1>6, <2>2, <2>4, StackAfter
  <2>6. CASE x # m
    <3>1. Same(x) /\ Kept(x)
      BY <1>2, <1>3, <1>6, <2>3, <2>6 DEF Same, Kept
    <3> QED
      BY <1>0, <1>5, <2>2, <2>4, <2>6, <3>1, Bystander
  <2>7. CASE x = m
    BY <1>2, <1>3, <1>6, <2>1, <2>3, <2>5, <2>7, Ended DEF Concerning
  <2> QED
    BY <2>6, <2>7
<1>7. ASSUME Then(rest) \/ Then(<<>>), ~Awaiting(x) \/ Top.m # x,
             UNCHANGED <<state, state_reported, ptype_queue>>
      PROVE  Sound(x)'
  <2>1. Same(x) /\ Kept(x)
    BY <1>2, <1>7, Quiet
  <2>2. PICK none \in Seq(Frame) : none = <<>> /\ \A fn, y : ~Makes(none, fn, y)
    BY NoCalls
  <2>3. PICK cs \in Seq(Frame) : Then(cs) /\ \A fn : ~Makes(cs, fn, x)
    BY <1>1, <1>7, <2>2
  <2> QED
    BY <1>0, <1>5, <1>7, <2>1, <2>3, Bystander
<1>8. CASE Top.m # NoMsg
  <2>1. PICK m \in Msg : m = Top.m
    BY <1>a, <1>8
  <2>2. Finish(m, "FAILED", rest) /\ UNCHANGED ptype_queue
    BY <1>1, <1>8, <2>1 DEF LaunchFailed
  <2>3. On("launch_failed", m) /\ Sound(m)
    BY <1>0, <1>b, <2>1, Parts DEF On
  <2>4. ~Queued(m) /\ (\A p \in Proc : ~Owes(p, m))
        /\ (Awaiting(m) \/ state[m] = "FAILED")
    BY <2>3 DEF Sound, WaitsForStart, OneWorker, Called
  <2>5. \A y : Queued(y)' <=> Queued(y)
    BY <2>2 DEF Queued, In
  <2>6. CASE Awaiting(m)
    BY <1>6, <2>2, <2>4, <2>5, <2>6
  <2>7. CASE ~Awaiting(m)
    <3>1. "FAILED" \in state_reported[m]
      BY <2>3, <2>4, <2>7 DEF Sound, OneOutcome, Final
    <3>2. Then(rest) /\ UNCHANGED <<state, state_reported>>
      BY <2>2, <3>1 DEF Finish
    <3> QED
      BY <1>7, <2>1, <2>2, <2>7, <3>2
  <2> QED
    BY <2>6, <2>7
<1>9. CASE Top.m = NoMsg /\ ptype_queue[pt] # <<>>
  <2>1. PICK m : m = Head(ptype_queue[pt])
    OBVIOUS
  <2>2. /\ Finish(m, "FAILED", rest)
        /\ ptype_queue' = [ptype_queue EXCEPT ![pt] = Tail(@)]
    BY <1>1, <1>9, <2>1 DEF LaunchFailed
  <2>3. /\ m \in Msg /\ Queued(m) /\ ~Queued(m)'
        /\ \A y : y # m => (Queued(y)' <=> Queued(y))
    BY <1>0, <1>9, <2>1, <2>2, Unqueued
  <2>4. Sound(m)
    BY <2>3, Parts
  <2>5. Awaiting(m) /\ handler[m] = NoProc
    BY <1>5, <2>3, <2>4 DEF Sound, WaitsForStart
  <2>6. \A p \in Proc : ~Owes(p, m)
    BY <2>4, <2>5, ConstantsAssumption DEF Sound, OneWorker
  <2> QED
    BY <1>6, <2>2, <2>3, <2>5, <2>6
<1>10. CASE Top.m = NoMsg /\ ptype_queue[pt] = <<>>
  <2>1. Then(<<>>) /\ UNCHANGED <<state, state_reported, ptype_queue>>
    BY <1>1, <1>10 DEF LaunchFailed
  <2>2. Top.m # x
    BY <1>10, ConstantsAssumption
  <2> QED
    BY <1>7, <2>1, <2>2
<1> QED
  BY <1>8, <1>9, <1>10

(* The lists after a handler's answer was taken: it owes none.             *)
LEMMA TakenWork ==
  ASSUME TypeOK, Singly, NEW pr \in Proc, NEW m, TakeDelivered(pr, m),
         \A p \in Proc : Owes(p, m) => p = pr
  PROVE  /\ Owes(pr, m) /\ \A p \in Proc : ~Owes(p, m)'
         /\ \A p \in Proc : \A y : y # m => (Owes(p, y)' <=> Owes(p, y))
PROOF
<1>1. PICK i \in DOMAIN delivered[pr] :
        /\ delivered[pr][i] = m
        /\ delivered' = [delivered EXCEPT ![pr] = RemoveAt(@, i)]
  BY DEF TakeDelivered
<1>2. delivered[pr] \in Seq(Msg)
  BY DEF TypeOK
<1>3. \A p \in Proc :
        delivered'[p] = IF p = pr THEN RemoveAt(delivered[pr], i) ELSE delivered[p]
  BY <1>1 DEF TypeOK
<1>4. ~In(m, RemoveAt(delivered[pr], i))
  BY <1>1, <1>2, OnceRemoveAt DEF Singly
<1>5. \A y : y # m => (In(y, RemoveAt(delivered[pr], i)) <=> In(y, delivered[pr]))
  BY <1>1, <1>2, InRemoveAt
<1>6. \A p \in Proc : \A y : Owes(p, y)' <=> In(y, delivered'[p])
  BY DEF Owes, In
<1>7. \A p \in Proc : \A y : Owes(p, y) <=> In(y, delivered[p])
  BY DEF Owes, In
<1>8. Owes(pr, m)
  BY <1>1 DEF Owes
<1> QED
  BY <1>3, <1>4, <1>5, <1>6, <1>7, <1>8

LEMMA UpdateFinalSound ==
  ASSUME Promise, NEW x \in Msg, UpdateFinal
  PROVE  Sound(x)'
PROOF
<1>0. calls \in Seq(Frame) /\ calls # <<>> /\ TypeOK /\ Sound(x) /\ ServerStep
      /\ Top.fn = "update" /\ Singly
  <2>1. ServerStep /\ Top.fn = "update"
    BY DEF ServerStep, UpdateFinal, Running
  <2> QED
    BY <2>1, Parts, ServerCalls
<1>a. Top \in Frame /\ Top.m \in Msg /\ Top.p \in Proc
  BY <1>0, TopTypes DEF MsgCalls, ProcCalls
<1>b. PICK none \in Seq(Frame) : none = <<>> /\ \A fn, y : ~Makes(none, fn, y)
  BY NoCalls
<1>1. PICK m \in Msg, pr \in Proc, s \in Final : m = Top.m /\ pr = Top.p /\ s = Top.s
  BY <1>a DEF UpdateFinal
<1>2. /\ TakeDelivered(pr, m) /\ Finish(m, s, none)
      /\ UNCHANGED <<undelivered, handler, reliability, sender_copy, ptype_queue>>
  BY <1>1, <1>b DEF UpdateFinal, queueVars
<1>3. Owes(pr, m) /\ Sound(m)
  BY <1>2, Parts DEF TakeDelivered, Owes
<1>4. handler[m] = pr /\ Awaiting(m) /\ \A p \in Proc : Owes(p, m) => p = pr
  BY <1>3 DEF Sound, OneWorker
<1>5. /\ \A p \in Proc : ~Owes(p, m)'
      /\ \A p \in Proc : \A y : y # m => (Owes(p, y)' <=> Owes(p, y))
  BY <1>0, <1>2, <1>4, TakenWork
<1>6. /\ \A p \in Proc : \A y : Waits(p, y)' <=> Waits(p, y)
      /\ \A y : Queued(y)' <=> Queued(y)
  BY <1>2 DEF Waits, Queued, In
<1>7. s \notin state_reported[m]
  BY <1>0, <1>3, <1>4, NotOverYet
<1>8. PICK cs \in Seq(Frame) :
        /\ Then(cs)
        /\ \A fn, y : Makes(cs, fn, y) <=> Makes(none, fn, y) \/ (fn = "report" /\ y = m)
  BY <1>0, <1>2, <1>7, FinishAnew
<1>9. /\ state'[m] = s
      /\ state_reported'[m] = state_reported[m] \union {s}
      /\ \A y \in Msg : y # m =>
           state'[y] = state[y] /\ state_reported'[y] = state_reported[y]
  BY <1>0, <1>2, <1>7, FinishAnew
<1>10. \A fn \in Concerning : On(fn, m)' => fn = "report"
  BY <1>0, <1>b, <1>8, StackAfter, Below
<1>11. CASE x # m
  <2>1. Same(x) /\ Kept(x)
    BY <1>2, <1>5, <1>6, <1>9, <1>11 DEF Same, Kept
  <2> QED
    BY <1>0, <1>b, <1>8, <1>11, <2>1, Bystander DEF Running
<1>12. CASE x = m
  <2>1. ~Queued(m)'
    BY <1>3, <1>6 DEF Sound, OneWorker
  <2> QED
    BY <1>2, <1>3, <1>4, <1>5, <1>9, <1>10, <1>12, <2>1, Ended DEF Concerning
<1> QED
  BY <1>11, <1>12

LEMMA UpdateRejectedSound ==
  ASSUME Promise, NEW x \in Msg, UpdateRejected
  PROVE  Sound(x)'
PROOF
<1>0. calls \in Seq(Frame) /\ calls # <<>> /\ TypeOK /\ Sound(x) /\ ServerStep
      /\ Top.fn = "update" /\ Singly
  <2>1. ServerStep /\ Top.fn = "update"
    BY DEF ServerStep, UpdateRejected, Running
  <2> QED
    BY <2>1, Parts, ServerCalls
<1>a. Top \in Frame /\ Top.m \in Msg /\ Top.p \in Proc
  BY <1>0, TopTypes DEF MsgCalls, ProcCalls
<1>1. PICK m \in Msg, pr \in Proc : m = Top.m /\ pr = Top.p
  BY <1>a
<1>2. /\ TakeDelivered(pr, m)
      /\ state' = [state EXCEPT ![m] = "SENT"]
      /\ Then(<<OnMsg("deliver", m)>>)
      /\ IF handler[m] = NoProc
         THEN UNCHANGED <<handler, tried, state_reported>>
         ELSE /\ state_reported' = [state_reported EXCEPT ![m] = @ \ {"STARTED"}]
              /\ handler' = [handler EXCEPT ![m] = NoProc]
      /\ UNCHANGED <<undelivered, reliability, sender_copy, ptype_queue>>
  BY <1>1 DEF UpdateRejected, queueVars
<1>3. Owes(pr, m) /\ Sound(m)
  BY <1>2, Parts DEF TakeDelivered, Owes
<1>4. handler[m] = pr /\ Awaiting(m) /\ ~Queued(m) /\ \A p \in Proc : Owes(p, m) => p = pr
  BY <1>3 DEF Sound, OneWorker
<1>5. /\ \A p \in Proc : ~Owes(p, m)'
      /\ \A p \in Proc : \A y : y # m => (Owes(p, y)' <=> Owes(p, y))
  BY <1>0, <1>2, <1>4, TakenWork
<1>6. /\ \A p \in Proc : \A y : Waits(p, y)' <=> Waits(p, y)
      /\ \A y : Queued(y)' <=> Queued(y)
  BY <1>2 DEF Waits, Queued, In
<1>7. PICK cs \in Seq(Frame) :
        /\ Then(cs)
        /\ \A fn, y : Makes(cs, fn, y) <=> fn = "deliver" /\ y = m
  <2> DEFINE f == OnMsg("deliver", m)
  <2>1. f \in Frame /\ f.fn = "deliver" /\ f.m = m
    BY Frames, CallMessages
  <2> HIDE DEF f
  <2>2. <<f>> \in Seq(Frame) /\ \A fn, y : Makes(<<f>>, fn, y) <=> fn = "deliver" /\ y = m
    BY <2>1, Few
  <2>3. Then(<<f>>)
    BY <1>2 DEF f
  <2> QED
    BY <2>2, <2>3
<1>8. /\ state'[m] = "SENT" /\ handler'[m] = NoProc
      /\ state_reported'[m] = state_reported[m] \ {"STARTED"}
      /\ \A y \in Msg : y # m =>
           /\ state'[y] = state[y] /\ handler'[y] = handler[y]
           /\ state_reported'[y] = state_reported[y]
  BY <1>0, <1>2, <1>4, ConstantsAssumption DEF TypeOK
<1>9. \A fn \in Concerning : On(fn, m)' <=> fn = "deliver"
  <2>1. \A fn, y : On(fn, y)' <=> Makes(cs, fn, y) \/ Beneath(fn, y)
    BY <1>0, <1>7, StackAfter
  <2>2. \A fn \in Concerning : \A y : ~Beneath(fn, y)
    BY <1>0, Below
  <2> QED
    BY <1>7, <2>1, <2>2
<1>10. CASE x # m
  <2>1. Same(x) /\ Kept(x)
    BY <1>2, <1>5, <1>6, <1>8, <1>10 DEF Same, Kept
  <2> QED
    BY <1>0, <1>7, <1>10, <2>1, Bystander DEF Running
<1>11. CASE x = m
  <2>1. Awaiting(m)'
    BY <1>8 DEF Awaiting
  <2> USE DEF Concerning
  <2>2. OneOutcome(m)'
    BY <1>2, <1>3, <1>4, <1>8 DEF Sound, OneOutcome, Awaiting, Final
  <2>3. OneWorker(m)'
    BY <1>5 DEF OneWorker
  <2>4. HandlerHasIt(m)'
    BY <1>8, ConstantsAssumption DEF HandlerHasIt
  <2>5. WaitsForStart(m)'
    BY <1>4, <1>6 DEF WaitsForStart
  <2>6. Deliverable(m)'
    BY <1>4, <1>6, <1>8, ConstantsAssumption DEF Deliverable
  <2>7. Called(m)' /\ Somewhere(m)'
    BY <1>9 DEF Called, Somewhere
  <2> QED
    BY <1>11, <2>2, <2>3, <2>4, <2>5, <2>6, <2>7 DEF Sound
<1> QED
  BY <1>10, <1>11

LEMMA ServerSound ==
  ASSUME Promise, ServerStep, NEW x \in Msg
  PROVE  Sound(x)'
PROOF
<1>1. ~PatternDelivered
  <2>1. calls \in Seq(Frame) /\ calls # <<>> /\ LoopsInBounds /\ queued = <<>>
    BY Parts, ServerCalls
  <2> QED
    BY <2>1 DEF PatternDelivered, Running, LoopsInBounds, Top
<1> QED
  BY <1>1, QuietSound, ReportSound, DeliverToHandlerSound, NoRecipientsStartSound,
     StartFailedSound, NoRecipientsQueueSound, OrphanUndeliveredSound,
     OrphanDeliveredSound, ProcStartedSound, RedeliverSound, RedeliveredSound,
     LaunchFailedSound, UpdateFinalSound, UpdateRejectedSound
  DEF ServerStep

-----------------------------------------------------------------------------
(* The requests of clients, and what happens to processes.                 *)

(* A message the request is not about.                                     *)
LEMMA OutsideBystander ==
  ASSUME Promise, Outside, NEW x \in Msg, Same(x), Kept(x),
         UNCHANGED <<ptype_queue>>,
         Idle \/ UNCHANGED <<calls, conn>>,
         Idle => \A fn \in Concerning : ~On(fn, x)'
  PROVE  Sound(x)'
PROOF
<1>0. Sound(x)
  BY Parts
<1>1. CASE Idle
  <2>1. calls = <<>>
    BY <1>1 DEF Idle
  <2>2. \A fn : ~On(fn, x)
    BY <2>1 DEF On
  <2>3. ~Offered(x)
    BY <2>1 DEF Offered, Delivers
  <2> QED
    BY <1>0, <1>1, <2>2, <2>3, Undisturbed
<1>2. CASE UNCHANGED <<calls, conn>>
  <2>1. \A fn : On(fn, x)' <=> On(fn, x)
    BY <1>2 DEF On
  <2>2. Offered(x) => Offered(x)'
    BY <1>2 DEF Offered, Delivers
  <2>3. \A pr \in Proc : Leaving(pr) => Leaving(pr)'
    BY <1>2 DEF Leaving, Running, Top
  <2> QED
    BY <1>0, <2>1, <2>2, <2>3, Undisturbed
<1> QED
  BY <1>1, <1>2

(* What a request leaves on the stack, unless it sends a message, is about *)
(* no message that is to be delivered, failed or reported.                 *)
LEMMA OutsideStack ==
  ASSUME TypeOK, StartsHavePtype, Outside, NEW x \in Msg,
         \A pr \in Proc : ~Dispatch(pr, x), Idle
  PROVE  \A fn \in Concerning : ~On(fn, x)'
PROOF
<1>1. CASE UNCHANGED calls
  BY <1>1 DEF Idle, On
<1>2. CASE calls' = <<>>
  BY <1>2 DEF On
<1>3. ASSUME NEW f, calls' = <<f>>, f.fn \notin Concerning \/ f.m # x
      PROVE  \A fn \in Concerning : ~On(fn, x)'
  <2>1. DOMAIN calls' = {1} /\ calls'[1] = f
    BY <1>3
  <2> QED
    BY <1>3, <2>1 DEF On
<1>4. ASSUME NEW f, NEW g, calls' = <<f, g>>,
             f.fn \notin Concerning, g.fn \notin Concerning
      PROVE  \A fn \in Concerning : ~On(fn, x)'
  <2>1. DOMAIN calls' = {1, 2} /\ calls'[1] = f /\ calls'[2] = g
    BY <1>4
  <2> QED
    BY <1>4, <2>1 DEF On
<1>5. /\ \A pr \in Proc : OnProc("deactivate", pr).fn \notin Concerning
      /\ \A pt : OnType("proc_replied", pt).fn \notin Concerning
      /\ Call("pattern_added").fn \notin Concerning
      /\ \A pt : OnType("launch_failed", pt).m # x
  <2>1. \A pt : OnType("launch_failed", pt).m # x
    BY CallMessages, ConstantsAssumption
  <2> QED
    BY <2>1 DEF OnProc, OnType, Call, Concerning
<1>6. ASSUME NEW pr \in Proc, NEW msg \in Msg, NEW s \in Answer, Update(pr, msg, s)
      PROVE  \A fn \in Concerning : ~On(fn, x)'
  <2> DEFINE answer  == [OnMsg("update", msg) EXCEPT !.p = pr, !.s = s]
             replied == OnType("proc_replied", SigPtype[OpOf[msg]])
  <2>1. answer.fn \notin Concerning /\ replied.fn \notin Concerning
    BY <1>5, UpdateFrame DEF Concerning
  <2>2. calls' = <<replied, answer>> \/ calls' = <<answer>>
    BY <1>6 DEF Update
  <2> HIDE DEF answer, replied
  <2> QED
    BY <1>3, <1>4, <2>1, <2>2
<1>7. ASSUME NEW pr \in Proc, Connect(pr)
      PROVE  \A fn \in Concerning : ~On(fn, x)'
  <2> DEFINE f == [OnProc("proc_started", pr) EXCEPT !.t = start_token[pr]]
  <2>1. f.fn \notin Concerning
    BY DEF OnProc, Call, Concerning
  <2>2. calls' = <<>> \/ calls' = <<f>>
    BY <1>7 DEF Connect
  <2> HIDE DEF f
  <2> QED
    BY <1>2, <1>3, <2>1, <2>2
<1>8. ASSUME NEW pr \in Proc, NEW msg \in Msg, Dispatch(pr, msg)
      PROVE  \A fn \in Concerning : ~On(fn, x)'
  <2>1. calls' = <<OnMsg("deliver", msg)>> /\ msg # x
    BY <1>8 DEF Dispatch
  <2>2. OnMsg("deliver", msg).m # x
    BY <2>1, CallMessages
  <2> QED
    BY <1>3, <2>1, <2>2
<1>9. ASSUME NEW pr \in Proc,
             Close(pr) \/ ChannelLost(pr) \/ \E msg \in Msg : Accept(pr, msg)
      PROVE  \A fn \in Concerning : ~On(fn, x)'
  BY <1>3, <1>5, <1>9 DEF Close, ChannelLost, Accept
<1>10. ASSUME NotifyStartFailure
       PROVE  \A fn \in Concerning : ~On(fn, x)'
  BY <1>1, <1>3, <1>5, <1>10 DEF NotifyStartFailure
<1>11. ASSUME NEW pr \in Proc, PatternRequest(pr)
       PROVE  \A fn \in Concerning : ~On(fn, x)'
  <2>1. UNCHANGED calls \/ calls' = <<Call("pattern_added")>>
    BY <1>11 DEF PatternRequest, JoinSession, QuitSession, DeclarePtype, UndeclarePtype,
       AddPattern, DelPattern
  <2> QED
    BY <1>1, <1>3, <1>5, <2>1
<1>12. ASSUME SigChld \/ \E pr \in Proc : Crash(pr) \/ NextMessage(pr)
       PROVE  UNCHANGED calls
  BY <1>12 DEF SigChld, Crash, NextMessage
<1> QED
  BY <1>1, <1>6, <1>7, <1>8, <1>9, <1>10, <1>11, <1>12 DEF Outside, MessageRequest

LEMMA DispatchSound ==
  ASSUME OnlyStarts, Promise, NEW pr \in Proc, NEW m \in Msg, Dispatch(pr, m),
         NEW x \in Msg
  PROVE  Sound(x)'
PROOF
<1>0. TypeOK /\ StartsHavePtype /\ Sound(x) /\ Sound(m) /\ Idle /\ Outside /\ queued = <<>>
  BY Parts DEF Dispatch, Client, Outside, MessageRequest
<1>1. /\ state[m] = "CREATED"
      /\ state' = [state EXCEPT ![m] = "SENT"]
      /\ sender_copy' = [sender_copy EXCEPT ![m] = "SENT"]
      /\ reliability' = [reliability EXCEPT ![m] =
                           IF SigPtype[OpOf[m]] = NoPtype THEN {} ELSE Disp[SigPtype[OpOf[m]]]]
      /\ calls' = <<OnMsg("deliver", m)>>
      /\ UNCHANGED <<undelivered, delivered, handler, state_reported, ptype_queue>>
  BY DEF Dispatch, procVars, queueVars
<1>2. /\ state'[m] = "SENT" /\ sender_copy'[m] = "SENT" /\ "queue" \notin reliability'[m]
      /\ \A y \in Msg : y # m =>
           /\ state'[y] = state[y] /\ sender_copy'[y] = sender_copy[y]
           /\ reliability'[y] = reliability[y]
  <2>1. SigPtype[OpOf[m]] \in Ptype \union {NoPtype}
    BY ConstantsAssumption
  <2> QED
    BY <1>0, <1>1, <2>1 DEF TypeOK, OnlyStarts
<1>3. /\ \A p \in Proc : \A y : (Owes(p, y)' <=> Owes(p, y)) /\ (Waits(p, y)' <=> Waits(p, y))
      /\ \A y : Queued(y)' <=> Queued(y)
  BY <1>1 DEF Owes, Waits, Queued, In
<1>4. CASE x # m
  <2>1. \A p \in Proc : ~Dispatch(p, x)
    <3> SUFFICES ASSUME NEW p \in Proc, Dispatch(p, x)
                 PROVE  FALSE
      OBVIOUS
    <3>1. calls' = <<OnMsg("deliver", x)>>
      BY DEF Dispatch
    <3>2. OnMsg("deliver", x) = OnMsg("deliver", m)
      BY <1>1, <3>1
    <3> QED
      BY <1>4, <3>2, CallMessages
  <2>2. Same(x) /\ Kept(x)
    BY <1>1, <1>2, <1>3, <1>4 DEF Same, Kept
  <2> QED
    BY <1>0, <1>1, <2>1, <2>2, OutsideStack, OutsideBystander
<1>5. CASE x = m
  <2>1. handler[m] = NoProc /\ state_reported[m] = {}
    BY <1>0, <1>1 DEF Sound, OneOutcome
  <2>2. ~Queued(m) /\ \A p \in Proc : ~Owes(p, m)
    BY <1>0, <2>1, ConstantsAssumption DEF Sound, WaitsForStart, OneWorker
  <2>3. \A fn : On(fn, m)' <=> fn = "deliver"
    <3> DEFINE f == OnMsg("deliver", m)
    <3>1. f.fn = "deliver" /\ f.m = m
      BY Frames, CallMessages
    <3>2. calls' = <<f>>
      BY <1>1
    <3> HIDE DEF f
    <3>3. DOMAIN calls' = {1} /\ calls'[1] = f
      BY <3>2
    <3> QED
      BY <3>1, <3>3 DEF On
  <2>4. Awaiting(m)'
    BY <1>2 DEF Awaiting
  <2>5. OneOutcome(m)'
    BY <1>1, <1>2, <2>1 DEF OneOutcome, Final
  <2>6. OneWorker(m)'
    BY <1>3, <2>2 DEF OneWorker
  <2>7. HandlerHasIt(m)'
    BY <1>1, <2>1, ConstantsAssumption DEF HandlerHasIt
  <2>8. WaitsForStart(m)'
    BY <1>3, <2>2 DEF WaitsForStart
  <2>9. Deliverable(m)'
    BY <1>1, <1>3, <2>1, <2>2, ConstantsAssumption DEF Deliverable
  <2>10. Called(m)' /\ Somewhere(m)'
    BY <2>3 DEF Called, Somewhere
  <2> QED
    BY <1>5, <2>5, <2>6, <2>7, <2>8, <2>9, <2>10 DEF Sound
<1> QED
  BY <1>4, <1>5

LEMMA NextMessageSound ==
  ASSUME Promise, NEW pr \in Proc, NextMessage(pr), NEW x \in Msg
  PROVE  Sound(x)'
PROOF
<1>0. TypeOK /\ StartsHavePtype /\ Singly /\ Sound(x) /\ Idle /\ Outside
  BY Parts DEF NextMessage, Client, Outside, MessageRequest
<1>1. PICK m : m = Head(undelivered[pr])
  OBVIOUS
<1>2. /\ undelivered[pr] # <<>>
      /\ undelivered' = [undelivered EXCEPT ![pr] = Tail(@)]
      /\ IF Processing(pr, m)
         THEN /\ delivered' = [delivered EXCEPT ![pr] = <<m>> \o @]
              /\ UNCHANGED sender_copy
         ELSE /\ sender_copy' = IF SenderOf[m] = pr
                                THEN [sender_copy EXCEPT ![m] = state[m]]
                                ELSE sender_copy
              /\ UNCHANGED delivered
      /\ UNCHANGED <<conn, state, handler, state_reported, reliability, ptype_queue, calls>>
  BY <1>1 DEF NextMessage, queueVars
<1>3. undelivered[pr] \in Seq(Msg) /\ delivered[pr] \in Seq(Msg)
  BY <1>0 DEF TypeOK
<1>4. m \in Msg /\ Waits(pr, m)
  BY <1>1, <1>2, <1>3, HeadIn DEF Waits
<1>5. /\ \A p \in Proc : \A y : Waits(p, y)' => Waits(p, y) /\ (p # pr \/ y # m)
      /\ \A p \in Proc : \A y : Waits(p, y) => Waits(p, y)' \/ (p = pr /\ y = m)
  <2>1. \A p \in Proc :
          undelivered'[p] = IF p = pr THEN Tail(undelivered[pr]) ELSE undelivered[p]
    BY <1>0, <1>2 DEF TypeOK
  <2>2. ~In(m, Tail(undelivered[pr]))
    BY <1>0, <1>1, <1>2, <1>3, OnceTail DEF Singly
  <2>3. \A y : /\ In(y, Tail(undelivered[pr])) => In(y, undelivered[pr])
               /\ In(y, undelivered[pr]) /\ y # m => In(y, Tail(undelivered[pr]))
    BY <1>1, <1>2, <1>3, InTail
  <2> QED
    BY <2>1, <2>2, <2>3 DEF Waits
<1>6. \A p \in Proc : \A y :
        Owes(p, y)' <=> Owes(p, y) \/ (Processing(pr, m) /\ p = pr /\ y = m)
  <2>1. CASE Processing(pr, m)
    <3>1. \A p \in Proc :
            delivered'[p] = IF p = pr THEN <<m>> \o delivered[pr] ELSE delivered[p]
      BY <1>0, <1>2, <2>1 DEF TypeOK
    <3>2. \A y : In(y, <<m>> \o delivered[pr]) <=> y = m \/ In(y, delivered[pr])
      BY <1>3, <1>4, InCons
    <3>3. \A p \in Proc : \A y : /\ Owes(p, y)' <=> In(y, delivered'[p])
                                 /\ Owes(p, y) <=> In(y, delivered[p])
      BY DEF Owes, In
    <3> QED
      BY <2>1, <3>1, <3>2, <3>3
  <2>2. CASE ~Processing(pr, m)
    BY <1>2, <2>2 DEF Owes
  <2> QED
    BY <2>1, <2>2
<1>7. \A y : Queued(y)' <=> Queued(y)
  BY <1>2 DEF Queued
<1>8. calls = <<>> /\ calls' = <<>>
  BY <1>0, <1>2 DEF Idle
<1>9. (\A fn, y : ~On(fn, y)) /\ (\A fn, y : ~On(fn, y)') /\ \A y : ~Offered(y)
  BY <1>8 DEF On, Offered, Delivers
<1>10. \A y \in Msg : sender_copy'[y] \in {sender_copy[y], state[y]}
                      /\ (Processing(pr, m) => sender_copy'[y] = sender_copy[y])
  BY <1>0, <1>2 DEF TypeOK
<1>11. CASE x # m \/ ~Processing(pr, m)
  <2>1. Same(x)
    BY <1>2, <1>10 DEF Same
  <2>2. Kept(x)
    BY <1>5, <1>6, <1>7, <1>11 DEF Kept
  <2> QED
    BY <1>0, <1>2, <1>9, <2>1, <2>2, OutsideBystander
<1>12. CASE x = m /\ Processing(pr, m)
  <2>1. Sound(m)
    BY <1>0, <1>12
  <2>2. Awaiting(m) /\ handler[m] = pr
    BY <1>0, <1>4, <1>12, <2>1, NotOverYet DEF Processing
  <2>3. ~Queued(m)
    BY <1>9, <2>1, <2>2, ConstantsAssumption DEF Sound, WaitsForStart
  <2>4. Awaiting(m)'
    BY <1>2, <2>2 DEF Awaiting
  <2>5. OneOutcome(m)'
    BY <1>2, <1>4, <1>10, <1>12, <2>1 DEF Sound, OneOutcome
  <2>6. \A p \in Proc : Owes(p, m)' => p = pr
    BY <1>6, <2>1, <2>2 DEF Sound, OneWorker
  <2>7. OneWorker(m)'
    BY <1>2, <1>5, <1>7, <1>9, <2>2, <2>3, <2>4, <2>6 DEF OneWorker
  <2>8. HandlerHasIt(m)'
    BY <1>2, <1>6, <1>12, <2>2 DEF HandlerHasIt
  <2>9. WaitsForStart(m)'
    BY <1>7, <2>3 DEF WaitsForStart
  <2>10. Deliverable(m)' /\ Called(m)'
    BY <1>9 DEF Deliverable, Called
  <2>11. Somewhere(m)'
    BY <1>2, <2>2, ConstantsAssumption DEF Somewhere
  <2> QED
    BY <1>12, <2>5, <2>7, <2>8, <2>9, <2>10, <2>11 DEF Sound
<1> QED
  BY <1>11, <1>12

LEMMA OutsideSound ==
  ASSUME OnlyStarts, Promise, Outside, NEW x \in Msg
  PROVE  Sound(x)'
PROOF
<1>0. TypeOK /\ StartsHavePtype
  BY Parts
<1>1. CASE \E pr \in Proc : NextMessage(pr)
  BY <1>1, NextMessageSound
<1>2. CASE \E pr \in Proc, m \in Msg : Dispatch(pr, m)
  BY <1>2, DispatchSound
<1>3. CASE /\ \A pr \in Proc : ~NextMessage(pr)
           /\ \A pr \in Proc, m \in Msg : ~Dispatch(pr, m)
  <2>1. UNCHANGED <<state, handler, state_reported, reliability, sender_copy,
                    undelivered, delivered, ptype_queue>>
    BY <1>3, OutsideProcs, OutsideLeaves
  <2>2. Idle \/ UNCHANGED <<calls, conn>>
    BY <1>0, OutsideCalls, OutsideBusy DEF Aside
  <2>3. Same(x) /\ Kept(x)
    BY <2>1, Quiet
  <2>4. Idle => \A fn \in Concerning : ~On(fn, x)'
    BY <1>0, <1>3, OutsideStack
  <2> QED
    BY <2>1, <2>2, <2>3, <2>4, OutsideBystander
<1> QED
  BY <1>1, <1>2, <1>3

-----------------------------------------------------------------------------
(* The rest of the invariant.                                              *)

LEMMA NoneQueued ==
  ASSUME Promise, ServerStep \/ Outside
  PROVE  queued' = <<>>
PROOF
<1>0. queued = <<>> /\ LoopsInBounds /\ TypeOK /\ calls \in Seq(Frame)
  BY Parts
<1>1. \A m \in Msg : "queue" \notin reliability[m]
  BY Parts DEF Sound, OneOutcome
<1>2. CASE ServerStep
  <2>1. calls # <<>>
    BY <1>0, <1>2, ServerCalls
  <2>2. ~PatternDelivered
    BY <1>0, <2>1 DEF PatternDelivered, Running, LoopsInBounds, Top
  <2>3. CASE NoRecipientsQueue
    <3>1. PICK m \in Msg : HonourQueue(m)
      BY <1>0, <2>1, <2>3, TopTypes DEF NoRecipientsQueue, Running, MsgCalls
    <3> QED
      BY <1>0, <1>1, <3>1 DEF HonourQueue
  <2> QED
    BY <1>0, <1>2, <2>2, <2>3 DEF ServerStep, Report, DeliverToHandler, DeliverToNobody,
       NoRecipientsStart, StartFailed, Deactivate, OrphanUndelivered, OrphanDelivered,
       OrphansDone, ProcStarted, ProcStartedIdly, ProcReplied, Redeliver, Redelivered,
       LaunchFailed, PatternAdded, UpdateFinal, UpdateRejected, UpdateUnknown, queueVars
<1>3. CASE Outside
  BY <1>0, <1>3, OutsideLeaves
<1> QED
  BY <1>2, <1>3

(* No list gets a message it has.                                          *)
LEMMA SentSingly ==
  ASSUME TypeOK, Singly, NEW pr \in Proc, NEW msg \in Msg, NEW ok, NEW lost,
         AddMessage(pr, msg, ok, lost)
  PROVE  \A p \in Proc : Once(undelivered'[p])
PROOF
<1>0. undelivered \in [Proc -> Seq(Msg)] /\ Once(undelivered[pr])
  BY DEF TypeOK, Singly
<1>1. CASE UNCHANGED undelivered
  BY <1>1 DEF Singly
<1>2. ASSUME NEW i \in DOMAIN undelivered[pr], undelivered[pr][i] = msg,
             undelivered' = [undelivered EXCEPT ![pr] = Append(RemoveAt(@, i), msg)]
      PROVE  \A p \in Proc : Once(undelivered'[p])
  <2>1. undelivered[pr] \in Seq(Msg)
    BY <1>0
  <2>2. /\ RemoveAt(undelivered[pr], i) \in Seq(Msg)
        /\ Once(RemoveAt(undelivered[pr], i))
        /\ ~In(msg, RemoveAt(undelivered[pr], i))
    BY <1>0, <1>2, <2>1, RemoveAtElements, OnceRemoveAt
  <2>3. Once(Append(RemoveAt(undelivered[pr], i), msg))
    BY <2>2, OnceAppend
  <2>4. \A p \in Proc : undelivered'[p] =
          IF p = pr THEN Append(RemoveAt(undelivered[pr], i), msg) ELSE undelivered[p]
    BY <1>0, <1>2
  <2> QED
    BY <2>3, <2>4 DEF Singly
<1>3. CASE /\ \A i \in DOMAIN undelivered[pr] : undelivered[pr][i] # msg
           /\ undelivered' = [undelivered EXCEPT ![pr] = Append(@, msg)]
  <2>1. undelivered[pr] \in Seq(Msg) /\ ~In(msg, undelivered[pr])
    BY <1>0, <1>3 DEF In
  <2>2. Once(Append(undelivered[pr], msg))
    BY <1>0, <2>1, OnceAppend
  <2>3. \A p \in Proc : undelivered'[p] =
          IF p = pr THEN Append(undelivered[pr], msg) ELSE undelivered[p]
    BY <1>0, <1>3
  <2> QED
    BY <2>2, <2>3 DEF Singly
<1> QED
  BY <1>1, <1>2, <1>3 DEF AddMessage

LEMMA TailSingly ==
  ASSUME NEW D, NEW f \in [D -> Seq(Msg)], NEW d \in D, f[d] # <<>>,
         \A e \in D : Once(f[e])
  PROVE  \A e \in D : Once([f EXCEPT ![d] = Tail(@)][e])
PROOF
<1>1. f[d] \in Seq(Msg)
  OBVIOUS
<1>2. Once(Tail(f[d]))
  BY <1>1, OnceTail
<1>3. \A e \in D : [f EXCEPT ![d] = Tail(@)][e] = IF e = d THEN Tail(f[d]) ELSE f[e]
  OBVIOUS
<1> QED
  BY <1>2, <1>3

LEMMA ServerSingly ==
  ASSUME Promise, ServerStep
  PROVE  Singly'
PROOF
<1>0. TypeOK /\ calls \in Seq(Frame) /\ calls # <<>> /\ Singly /\ LoopsInBounds
  BY Parts, ServerCalls
<1>a. /\ Top \in Frame
      /\ Top.fn \in MsgCalls => Top.m \in Msg
      /\ Top.fn \in ProcCalls => Top.p \in Proc
      /\ Top.fn \in TypeCalls => Top.t \in Ptype
  BY <1>0, TopTypes
<1>b. /\ undelivered \in [Proc -> Seq(Msg)] /\ delivered \in [Proc -> Seq(Msg)]
      /\ ptype_queue \in [Ptype -> Seq(Msg)]
      /\ \A p \in Proc : Once(undelivered[p]) /\ Once(delivered[p])
      /\ \A t \in Ptype : Once(ptype_queue[t])
  BY <1>0 DEF TypeOK, Singly
<1>1. \A p \in Proc : Once(undelivered'[p])
  <2>1. CASE UNCHANGED undelivered
    BY <1>b, <2>1
  <2>2. CASE Report
    <3>1. Top.m \in Msg /\ SenderOf[Top.m] \in Proc
      BY <1>a, <2>2, ConstantsAssumption DEF Report, Running, MsgCalls
    <3> QED
      BY <1>0, <2>2, <3>1, SentSingly DEF Report
  <2>3. CASE DeliverToHandler
    <3>1. PICK pr \in Proc, msg \in Msg : AddMessage(pr, msg, <<>>, <<Top>>)
      BY <1>0, <2>3, HandlerChosen
    <3> QED
      BY <1>0, <3>1, SentSingly
  <2>4. CASE ProcStarted
    <3>1. Top.t \in Ptype /\ Top.p \in Proc /\ ptype_queue[Top.t] # <<>>
      BY <1>a, <2>4 DEF ProcStarted, Running, ProcCalls, TypeCalls
    <3>2. Head(ptype_queue[Top.t]) \in Msg
      BY <1>b, <3>1
    <3>a. PICK m \in Msg : \E fail : AddMessage(Top.p, m, <<>>, <<fail>>)
      BY <2>4, <3>2 DEF ProcStarted
    <3>3. PICK fail : AddMessage(Top.p, m, <<>>, <<fail>>)
      BY <3>a
    <3> QED
      BY <1>0, <3>1, <3>3, SentSingly
  <2>5. CASE OrphanUndelivered
    <3>1. /\ undelivered[Top.p] # <<>> /\ Top.p \in Proc
          /\ undelivered' = [undelivered EXCEPT ![Top.p] = Tail(@)]
      BY <1>a, <2>5 DEF OrphanUndelivered, Running, ProcCalls, TypeOK, Frame
    <3> QED
      BY <1>b, <3>1, TailSingly
  <2> QED
    BY <2>1, <2>2, <2>3, <2>4, <2>5 DEF ServerStep, DeliverToNobody,
       NoRecipientsStart, StartFailed, NoRecipientsQueue, Deactivate, OrphanDelivered,
       OrphansDone, ProcStartedIdly, ProcReplied, Redeliver, Redelivered,
       LaunchFailed, PatternAdded, PatternDelivered, UpdateFinal, UpdateRejected,
       UpdateUnknown, procVars
<1>2. \A p \in Proc : Once(delivered'[p])
  <2>1. CASE UNCHANGED delivered
    BY <1>b, <2>1
  <2>2. CASE OrphanDelivered
    <3>1. CASE Top.p \in Proc
      <4>1. /\ delivered[Top.p] # <<>>
            /\ delivered' = [delivered EXCEPT ![Top.p] = Tail(@)]
        BY <2>2 DEF OrphanDelivered
      <4> QED
        BY <1>b, <3>1, <4>1, TailSingly
    <3>2. CASE Top.p \notin Proc
      <4>1. delivered' = [delivered EXCEPT ![Top.p] = Tail(@)]
        BY <2>2 DEF OrphanDelivered
      <4>2. delivered' = delivered
        BY <1>b, <3>2, <4>1
      <4> QED
        BY <1>b, <4>2
    <3> QED
      BY <3>1, <3>2
  <2>3. ASSUME TakeDelivered(Top.p, Top.m), Top.p \in Proc
        PROVE  \A p \in Proc : Once(delivered'[p])
    <3>1. PICK i \in DOMAIN delivered[Top.p] :
            delivered' = [delivered EXCEPT ![Top.p] = RemoveAt(@, i)]
      BY <2>3 DEF TakeDelivered
    <3>2. delivered[Top.p] \in Seq(Msg)
      BY <1>b, <2>3
    <3>3. Once(RemoveAt(delivered[Top.p], i))
      BY <1>b, <2>3, <3>1, <3>2, OnceRemoveAt
    <3>4. \A p \in Proc : delivered'[p] =
            IF p = Top.p THEN RemoveAt(delivered[Top.p], i) ELSE delivered[p]
      BY <1>b, <2>3, <3>1
    <3> QED
      BY <1>b, <3>3, <3>4
  <2>4. CASE UpdateFinal \/ UpdateRejected
    <3>1. TakeDelivered(Top.p, Top.m) /\ Top.fn = "update"
      BY <2>4 DEF UpdateFinal, UpdateRejected, Running
    <3> QED
      BY <1>a, <2>3, <3>1 DEF ProcCalls
  <2> QED
    BY <2>1, <2>2, <2>4 DEF ServerStep, Report, DeliverToHandler, DeliverToNobody,
       NoRecipientsStart, StartFailed, NoRecipientsQueue, Deactivate, OrphanUndelivered,
       OrphansDone, ProcStarted, ProcStartedIdly, ProcReplied, Redeliver, Redelivered,
       LaunchFailed, PatternAdded, PatternDelivered, UpdateUnknown, procVars
<1>3. \A t \in Ptype : Once(ptype_queue'[t])
  <2>1. CASE UNCHANGED ptype_queue
    BY <1>b, <2>1
  <2>2. CASE NoRecipientsStart
    <3>1. PICK m \in Msg :
            /\ NoHandler(m) /\ Awaiting(m) /\ StartsAnew(m)
            /\ \/ UNCHANGED ptype_queue
               \/ ptype_queue' = [ptype_queue EXCEPT ![SigPtype[OpOf[m]]] = Append(@, m)]
      BY <2>2 DEF NoRecipientsStart
    <3>2. ~Queued(m)
      <4>1. Sound(m)
        BY Parts
      <4> QED
        BY <3>1, <4>1 DEF Sound, WaitsForStart, StartsAnew
    <3>3. PICK pt : pt = SigPtype[OpOf[m]]
      OBVIOUS
    <3>4. CASE pt \in Ptype
      <4>1. ptype_queue[pt] \in Seq(Msg) /\ ~In(m, ptype_queue[pt])
        BY <1>b, <3>2, <3>4 DEF Queued
      <4>2. Once(Append(ptype_queue[pt], m))
        BY <1>b, <3>4, <4>1, OnceAppend
      <4>3. \A t \in Ptype : ptype_queue'[t] \in
              {ptype_queue[t], IF t = pt THEN Append(ptype_queue[pt], m) ELSE ptype_queue[t]}
        BY <1>b, <3>1, <3>3, <3>4
      <4> QED
        BY <1>b, <4>2, <4>3
    <3>5. CASE pt \notin Ptype
      <4>1. ptype_queue' = ptype_queue
        BY <1>b, <3>1, <3>3, <3>5
      <4> QED
        BY <1>b, <4>1
    <3> QED
      BY <3>4, <3>5
  <2>3. CASE ProcStarted \/ Redelivered \/ LaunchFailed
    <3>1. Top.t \in Ptype
      BY <1>a, <2>3 DEF ProcStarted, Redelivered, LaunchFailed, Running, TypeCalls
    <3>2. \/ UNCHANGED ptype_queue
          \/ /\ ptype_queue[Top.t] # <<>>
             /\ ptype_queue' = [ptype_queue EXCEPT ![Top.t] = Tail(@)]
      <4>1. 1 \in DOMAIN calls /\ calls[1] = Top
        BY <1>0 DEF Top
      <4>2. Top.fn = "redelivered" => ptype_queue[Top.t] # <<>>
        BY <1>0, <4>1 DEF LoopsInBounds
      <4> QED
        BY <2>3, <4>2 DEF ProcStarted, Redelivered, LaunchFailed, Running
    <3> QED
      BY <1>b, <2>1, <3>1, <3>2, TailSingly
  <2> QED
    BY <2>1, <2>2, <2>3 DEF ServerStep, Report, DeliverToHandler, DeliverToNobody,
       StartFailed, NoRecipientsQueue, Deactivate, OrphanUndelivered, OrphanDelivered,
       OrphansDone, ProcStartedIdly, ProcReplied, Redeliver, PatternAdded,
       PatternDelivered, UpdateFinal, UpdateRejected, UpdateUnknown, queueVars
<1> QED
  BY <1>1, <1>2, <1>3 DEF Singly, Once

LEMMA OutsideSingly ==
  ASSUME Promise, Outside
  PROVE  Singly'
PROOF
<1>0. TypeOK /\ Singly
  BY Parts
<1>b. /\ undelivered \in [Proc -> Seq(Msg)] /\ delivered \in [Proc -> Seq(Msg)]
      /\ \A p \in Proc : Once(undelivered[p]) /\ Once(delivered[p])
      /\ \A t \in Ptype : Once(ptype_queue[t])
  BY <1>0 DEF TypeOK, Singly
<1>1. ASSUME NEW pr \in Proc, NextMessage(pr)
      PROVE  Singly'
  <2>1. PICK m : m = Head(undelivered[pr])
    OBVIOUS
  <2>2. /\ undelivered[pr] # <<>>
        /\ undelivered' = [undelivered EXCEPT ![pr] = Tail(@)]
        /\ UNCHANGED ptype_queue
        /\ \/ /\ Processing(pr, m)
              /\ delivered' = [delivered EXCEPT ![pr] = <<m>> \o @]
           \/ UNCHANGED delivered
    BY <1>1, <2>1 DEF NextMessage, queueVars
  <2>3. \A p \in Proc : Once(undelivered'[p])
    BY <1>b, <2>2, TailSingly
  <2>4. \A p \in Proc : Once(delivered'[p])
    <3>1. CASE UNCHANGED delivered
      BY <1>b, <3>1
    <3>2. CASE /\ Processing(pr, m)
               /\ delivered' = [delivered EXCEPT ![pr] = <<m>> \o @]
      <4>1. undelivered[pr] \in Seq(Msg) /\ delivered[pr] \in Seq(Msg)
        BY <1>b
      <4>2. m \in Msg /\ Waits(pr, m)
        BY <2>1, <2>2, <4>1, HeadIn DEF Waits
      <4>3. ~Owes(pr, m)
        BY <4>2, Parts DEF Sound, OneWorker
      <4>4. Once(<<m>> \o delivered[pr])
        BY <1>b, <4>1, <4>2, <4>3, OnceCons DEF Owes, In
      <4>5. \A p \in Proc : delivered'[p] =
              IF p = pr THEN <<m>> \o delivered[pr] ELSE delivered[p]
        BY <1>b, <3>2
      <4> QED
        BY <1>b, <4>4, <4>5
    <3> QED
      BY <2>2, <3>1, <3>2
  <2>5. \A t \in Ptype : Once(ptype_queue'[t])
    BY <1>b, <2>2
  <2> QED
    BY <2>3, <2>4, <2>5 DEF Singly, Once
<1>2. CASE \A pr \in Proc : ~NextMessage(pr)
  <2>1. UNCHANGED <<undelivered, delivered, ptype_queue>>
    BY <1>2, OutsideProcs, OutsideLeaves
  <2> QED
    BY <1>0, <2>1 DEF Singly, Once
<1> QED
  BY <1>1, <1>2

-----------------------------------------------------------------------------
(* What the loop over a ptype's queue knows.                               *)

(* The delivery the loop waits for goes on, or told it whether it found a  *)
(* handler.                                                                *)
Answers(cs) ==
  \/ cs # <<>> /\ cs[Len(cs)] = Top
  \/ /\ cs = <<>>
     /\ IF ret' THEN handler'[Top.m] # NoProc \/ state'[Top.m] \in Final
                ELSE handler'[Top.m] = NoProc /\ state'[Top.m] \in {"SENT", "STARTED"}

LEMMA LoopWaits ==
  ASSUME Promise, ServerStep, NEW cs \in Seq(Frame), Then(cs),
         \A i \in DOMAIN cs : cs[i].fn # "redelivered",
         Running("deliver") /\ Offered(Top.m) => Answers(cs)
  PROVE  LoopKnows'
PROOF
<1>0. calls \in Seq(Frame) /\ calls # <<>> /\ LoopKnows
  BY Parts, ServerCalls
<1> SUFFICES ASSUME NEW j \in DOMAIN calls', calls'[j].fn = "redelivered",
                    NEW pt, pt = calls'[j].t
             PROVE  LET msg == Head(ptype_queue'[pt])
                    IN  IF j = 1
                        THEN IF ret' THEN handler'[msg] # NoProc \/ state'[msg] \in Final
                                     ELSE handler'[msg] = NoProc
                                          /\ state'[msg] \in {"SENT", "STARTED"}
                        ELSE calls'[j - 1].fn = "deliver" /\ calls'[j - 1].m = msg
  BY DEF LoopKnows, Awaiting
<1>1. /\ j \notin DOMAIN cs /\ j - Len(cs) + 1 \in DOMAIN calls
      /\ j - Len(cs) + 1 # 1 /\ calls'[j] = calls[j - Len(cs) + 1]
      /\ j \in Nat /\ Len(cs) \in Nat
  BY <1>0, ThenElements
<1>2. PICK k \in DOMAIN calls : k = j - Len(cs) + 1
  BY <1>1
<1>3. k # 1 /\ k \in Nat /\ j = k - 1 + Len(cs) /\ calls[k] = calls'[j] /\ k >= 2
  <2>1. k \in Nat /\ k >= 1
    BY <1>0
  <2>2. k # 1 /\ calls[k] = calls'[j]
    BY <1>1, <1>2
  <2>3. \A a, b, c \in Nat : a = b - c + 1 => b = a - 1 + c
    OBVIOUS
  <2>4. j = k - 1 + Len(cs)
    BY <1>1, <1>2, <2>1, <2>3
  <2>5. k >= 2
    BY <2>1, <2>2
  <2> QED
    BY <2>1, <2>2, <2>4, <2>5
<1>4. pt \in Ptype
  <2>1. calls[k] \in Frame /\ calls[k].fn = "redelivered" /\ calls[k].t = pt
    BY <1>0, <1>3
  <2> QED
    BY <2>1 DEF Frame, TypeCalls
<1>5. DeliversBeneath(pt)
  BY <1>3 DEF DeliversBeneath
<1>6. Head(ptype_queue'[pt]) = Head(ptype_queue[pt])
  BY <1>4, <1>5, ServerKeepsFirst
<1>7. calls[k - 1].fn = "deliver" /\ calls[k - 1].m = Head(ptype_queue[pt])
  BY <1>0, <1>3 DEF LoopKnows
<1>8. CASE k # 2
  <2>1. k - 1 \in DOMAIN calls /\ k - 1 # 1 /\ j # 1
    BY <1>0, <1>1, <1>3, <1>8
  <2>2. calls'[k - 1 - 1 + Len(cs)] = calls[k - 1]
    BY <1>0, <2>1, ThenKeeps
  <2>3. k - 1 - 1 + Len(cs) = j - 1
    BY <1>1, <1>3
  <2> QED
    BY <1>6, <1>7, <2>1, <2>2, <2>3
<1>9. CASE k = 2
  <2>1. Top.fn = "deliver" /\ Top.m = Head(ptype_queue[pt])
    BY <1>0, <1>7, <1>9 DEF Top
  <2>2. Offered(Top.m)
    BY <1>3, <1>4, <2>1 DEF Offered, Delivers
  <2>3. Answers(cs)
    BY <1>0, <2>1, <2>2 DEF Running
  <2>4. j = 1 + Len(cs)
    BY <1>1, <1>3, <1>9
  <2>5. CASE cs = <<>>
    <3>1. j = 1
      BY <2>4, <2>5
    <3> QED
      BY <1>6, <2>1, <2>3, <2>5, <3>1 DEF Answers
  <2>6. CASE cs # <<>>
    <3>1. Len(cs) \in DOMAIN cs /\ j - 1 = Len(cs) /\ j # 1
      BY <1>1, <2>4, <2>6
    <3>2. calls'[j - 1] = Top
      BY <1>0, <2>3, <2>6, <3>1, ThenKeeps DEF Answers
    <3> QED
      BY <1>6, <2>1, <3>1, <3>2
  <2> QED
    BY <2>5, <2>6
<1> QED
  BY <1>8, <1>9

LEMMA ServerLoopKnows ==
  ASSUME Promise, ServerStep
  PROVE  LoopKnows'
PROOF
<1>0. calls \in Seq(Frame) /\ calls # <<>> /\ TypeOK /\ TypeOK'
  <2>1. Inductive
    BY DEF Promise, Delivery
  <2>2. [Next]_vars
    BY DEF Next
  <2>3. TypeOK'
    BY <2>1, <2>2, NextInductive DEF Inductive
  <2> QED
    BY <2>3, Parts, ServerCalls
<1>a. /\ Top \in Frame
      /\ Top.fn \in MsgCalls => Top.m \in Msg
      /\ Top.fn \in TypeCalls => Top.t \in Ptype
  BY <1>0, TopTypes
<1>b. PICK cs : Pushes(cs) /\ Then(cs)
  BY <1>0, ServerCalls
<1>c. cs \in Seq(Frame)
  BY <1>b DEF Pushes
<1>1. CASE ~Running("redeliver") /\ ~(Running("deliver") /\ Offered(Top.m))
  <2>1. \A i \in DOMAIN cs : cs[i].fn # "redelivered"
    BY <1>0, <1>1, <1>b DEF Pushes, Running
  <2> QED
    BY <1>1, <1>b, <1>c, <2>1, LoopWaits
<1>2. CASE Running("redeliver")
  <2>1. Redeliver
    BY <1>2 DEF ServerStep, Running, Report, DeliverToHandler, DeliverToNobody, NoHandler,
       NoRecipientsStart, StartFailed, NoRecipientsQueue, Deactivate,
       OrphanUndelivered, OrphanDelivered, OrphansDone, ProcStarted,
       ProcStartedIdly, ProcReplied, Redelivered, LaunchFailed,
       PatternAdded, PatternDelivered, UpdateFinal, UpdateRejected, UpdateUnknown
  <2>2. PICK pt \in Ptype : pt = Top.t
    BY <1>2, <1>a DEF Running, TypeCalls
  <2>3. CASE ptype_queue[pt] = <<>>
    <3>1. PICK none \in Seq(Frame) : none = <<>>
      BY NoCalls
    <3>2. Then(none) /\ DOMAIN none = {}
      BY <2>1, <2>2, <2>3, <3>1 DEF Redeliver
    <3> QED
      BY <1>2, <3>2, LoopWaits DEF Running
  <2>4. CASE ptype_queue[pt] # <<>>
    <3>1. PICK m \in Msg : m = Head(ptype_queue[pt])
      BY <1>0, <2>4 DEF TypeOK
    <3> DEFINE f == OnMsg("deliver", m)
               g == OnType("redelivered", pt)
    <3>2. /\ f \in Frame /\ f.fn = "deliver" /\ f.m = m
          /\ g \in Frame /\ g.fn = "redelivered" /\ g.t = pt
      BY <3>1, Frames, CallMessages DEF TypeCalls, ProcCalls
    <3>3. Then(<<f, g>>)
      BY <2>1, <2>2, <2>4, <3>1 DEF Redeliver
    <3> HIDE DEF f, g
    <3>4. /\ <<f, g>> \in Seq(Frame) /\ DOMAIN <<f, g>> = {1, 2} /\ Len(<<f, g>>) = 2
          /\ <<f, g>>[1] = f /\ <<f, g>>[2] = g
      BY <3>2
    <3>a. PICK two \in Seq(Frame) : two = <<f, g>>
      BY <3>4
    <3>b. Then(two)
      BY <3>3, <3>a
    <3>5. UNCHANGED ptype_queue
      BY <2>1 DEF Redeliver, queueVars
    <3>6. \A pt2 : ~DeliversBeneath(pt2)
      BY <1>0, <1>2, Below DEF Running, Loops, TypeCalls
    <3>7. SUFFICES ASSUME NEW j \in DOMAIN calls', calls'[j].fn = "redelivered"
                   PROVE  /\ j # 1 /\ calls'[j - 1].fn = "deliver"
                          /\ calls'[j - 1].m = Head(ptype_queue'[calls'[j].t])
      BY DEF LoopKnows
    <3>8. j \in DOMAIN two /\ calls'[j] = two[j]
      <4>1. \/ j \in DOMAIN two /\ calls'[j] = two[j]
            \/ \E k \in DOMAIN calls : k # 1 /\ calls'[j] = calls[k]
        BY <1>0, <3>b, ThenElements
      <4> QED
        BY <3>6, <3>7, <4>1 DEF DeliversBeneath
    <3>9. j = 2 /\ calls'[j] = g
      BY <3>2, <3>4, <3>a, <3>7, <3>8
    <3>10. calls'[1] = f
      BY <1>0, <3>4, <3>a, <3>b, ThenKeeps
    <3>11. j - 1 = 1
      BY <3>9
    <3> QED
      BY <3>1, <3>2, <3>5, <3>9, <3>10, <3>11
  <2> QED
    BY <2>3, <2>4
<1>3. CASE Running("deliver") /\ Offered(Top.m)
  <2>1. PICK m \in Msg : m = Top.m
    BY <1>3, <1>a DEF Running, MsgCalls
  <2>2. Sound(m) /\ Queued(m) /\ On("deliver", m)
    <3>1. PICK pt \in Ptype : Delivers(pt) /\ m = Head(ptype_queue[pt])
      BY <1>3, <2>1 DEF Offered
    <3>2. ptype_queue[pt] # <<>> /\ ptype_queue[pt] \in Seq(Msg)
      BY <1>0, <3>1, Parts DEF Delivers, LoopsInBounds, TypeOK
    <3>3. In(m, ptype_queue[pt])
      BY <3>1, <3>2, HeadIn
    <3>4. 1 \in DOMAIN calls /\ calls[1] = Top
      BY <1>0 DEF Top
    <3> QED
      BY <1>3, <2>1, <3>3, <3>4, Parts DEF Queued, On, Running
  <2>3. /\ "STARTED" \in state_reported[m] /\ "start" \in reliability[m]
        /\ "queue" \notin reliability[m]
    BY <2>2 DEF Sound, WaitsForStart, OneOutcome
  <2>a. state[m] \in MsgState /\ state[m] \notin {"CREATED", "QUEUED"}
    BY <1>0, <2>2, <2>3 DEF Sound, OneOutcome, TypeOK
  <2>4. PICK none \in Seq(Frame) : none = <<>>
    BY NoCalls
  <2>5. ASSUME Then(none), Answers(none)
        PROVE  LoopKnows'
    <3>1. \A i \in DOMAIN none : none[i].fn # "redelivered"
      BY <2>4
    <3> QED
      BY <2>5, <3>1, LoopWaits
  <2>6. CASE DeliverToHandler
    <3>1. PICK pr \in Proc :
            /\ conn[pr] = "active"
            /\ handler' = [handler EXCEPT ![m] = pr]
            /\ AddMessage(pr, m, <<>>, <<Top>>)
      BY <1>0, <2>1, <2>6, HandlerChosen
    <3>2. handler'[m] = pr /\ pr # NoProc /\ ret' = TRUE
      <4>1. pr # NoProc
        BY ConstantsAssumption
      <4> QED
        BY <1>0, <2>6, <3>1, <4>1 DEF DeliverToHandler, TypeOK
    <3>3. CASE Then(<<>>)
      BY <2>1, <2>4, <2>5, <3>2, <3>3 DEF Answers
    <3>4. CASE Then(<<OnProc("deactivate", pr)>> \o <<Top>>)
      <4> DEFINE f == OnProc("deactivate", pr)
                 two == <<f>> \o <<Top>>
      <4>1. f \in Frame /\ f.fn = "deactivate"
        BY Frames
      <4>a. Then(two)
        BY <3>4
      <4> HIDE DEF f
      <4>2. /\ two \in Seq(Frame) /\ Len(two) = 2 /\ two # <<>> /\ two[2] = Top
            /\ DOMAIN two = {1, 2} /\ two[1] = f
        BY <1>a, <4>1
      <4> HIDE DEF two
      <4>3. Answers(two)
        BY <4>2 DEF Answers
      <4>4. \A k \in DOMAIN two : two[k].fn # "redelivered"
        BY <1>3, <4>1, <4>2 DEF Running
      <4> QED
        BY <4>a, <4>2, <4>3, <4>4, LoopWaits
    <3> QED
      BY <3>1, <3>3, <3>4 DEF AddMessage
  <2>7. CASE DeliverToNobody
    <3>1. Then(none) /\ ret' = TRUE /\ ~Awaiting(m) /\ UNCHANGED state
      BY <2>1, <2>4, <2>7 DEF DeliverToNobody, NoHandler, msgVars
    <3>2. state'[m] \in Final
      BY <2>a, <3>1 DEF MsgState, Open, Awaiting
    <3>3. Answers(none)
      BY <2>1, <2>4, <3>1, <3>2 DEF Answers
    <3> QED
      BY <2>5, <3>1, <3>3
  <2>8. CASE NoRecipientsStart
    BY <2>1, <2>3, <2>8 DEF NoRecipientsStart, NoHandler, StartsAnew
  <2>9. CASE NoRecipientsQueue
    <3>1. /\ Awaiting(m) /\ HonourQueue(m) /\ ret' = FALSE /\ UNCHANGED handler
      BY <1>3, <2>1, <2>9 DEF NoRecipientsQueue, NoHandler, Running
    <3>2. Then(none) /\ UNCHANGED state
      BY <2>3, <2>4, <3>1 DEF HonourQueue
    <3>3. handler[m] = NoProc
      BY <1>3, <2>1, <3>1, DeliverUnheld
    <3>4. Answers(none)
      BY <2>1, <2>4, <3>1, <3>2, <3>3 DEF Answers, Awaiting
    <3> QED
      BY <2>5, <3>2, <3>4
  <2> QED
    BY <1>3, <2>6, <2>7, <2>8, <2>9 DEF ServerStep, Running, Report, StartFailed,
       Deactivate, OrphanUndelivered, OrphanDelivered, OrphansDone, ProcStarted,
       ProcStartedIdly, ProcReplied, Redeliver, Redelivered, LaunchFailed,
       PatternAdded, PatternDelivered, UpdateFinal, UpdateRejected, UpdateUnknown
<1> QED
  BY <1>1, <1>2, <1>3

LEMMA OutsideLoopKnows ==
  ASSUME Promise, Outside
  PROVE  LoopKnows'
PROOF
<1>0. calls \in Seq(Frame) /\ TypeOK /\ StartsHavePtype /\ LoopKnows
  BY Parts
<1>1. CASE Fresh(calls')
  BY <1>1 DEF LoopKnows, Fresh
<1>2. CASE UNCHANGED <<calls, ret, handler, state, ptype_queue>>
  BY <1>0, <1>2 DEF LoopKnows, Awaiting
<1>3. CASE UNCHANGED calls /\ Idle
  BY <1>3 DEF LoopKnows, Idle
<1>4. Idle \/ UNCHANGED <<calls, ret, handler, state, ptype_queue>>
  BY <1>0, OutsideCalls, OutsideBusy DEF Aside
<1>5. UNCHANGED calls \/ Fresh(calls')
  BY <1>0, OutsideCalls
<1> QED
  BY <1>1, <1>2, <1>3, <1>4, <1>5

-----------------------------------------------------------------------------
(* The invariant, and the properties it implies.                           *)

LEMMA InitPromise == Init => Promise
PROOF
<1> SUFFICES ASSUME Init PROVE Promise
  OBVIOUS
<1>1. Delivery
  BY InitDelivery
<1> USE DEF Init
<1>2. Layered /\ LoopKnows /\ queued = <<>>
  BY DEF Layered, LoopKnows
<1>3. Singly
  BY DEF Singly, Once
<1>4. ASSUME NEW msg \in Msg
      PROVE  Sound(msg)
  <2>1. ~Queued(msg) /\ \A fn : ~On(fn, msg)
    BY DEF Queued, In, On
  <2>2. \A pr \in Proc : ~Owes(pr, msg)
    BY DEF Owes
  <2>3. OneOutcome(msg) /\ ~Awaiting(msg)
    BY DEF OneOutcome, Awaiting, Final
  <2> QED
    BY <2>1, <2>2, <2>3 DEF Sound, OneWorker, HandlerHasIt, WaitsForStart, Deliverable,
       Called, Somewhere
<1> QED
  BY <1>1, <1>2, <1>3, <1>4 DEF Promise

LEMMA NextPromise ==
  ASSUME OnlyStarts, Promise, [Next]_vars
  PROVE  Promise'
PROOF
<1>1. Delivery'
  BY NextDelivery DEF Promise
<1>2. CASE ServerStep \/ Outside
  <2>1. Layered'
    BY <1>2, Parts, NextLayered
  <2>2. Singly'
    BY <1>2, ServerSingly, OutsideSingly
  <2>3. LoopKnows'
    BY <1>2, ServerLoopKnows, OutsideLoopKnows
  <2>4. queued' = <<>>
    BY <1>2, NoneQueued
  <2>5. \A msg \in Msg : Sound(msg)'
    BY <1>2, ServerSound, OutsideSound
  <2> QED
    BY <1>1, <2>1, <2>2, <2>3, <2>4, <2>5 DEF Promise
<1>3. CASE UNCHANGED vars
  <2> USE <1>3 DEF vars, childVars, procVars, msgVars, queueVars
  <2>1. Layered' /\ queued' = <<>>
    BY DEF Promise, Layered, Above, Depth
  <2>2. Singly' /\ LoopKnows'
    BY DEF Promise, Singly, Once, LoopKnows, Awaiting
  <2>3. ASSUME NEW msg \in Msg
        PROVE  Sound(msg)'
    <3>1. Sound(msg) /\ (Offered(msg) => Offered(msg)')
          /\ \A fn : (On(fn, msg)' <=> On(fn, msg))
      BY DEF Promise, Offered, Delivers, On
    <3>2. Same(msg) /\ Kept(msg)
      BY Quiet
    <3>3. \A pr \in Proc : Leaving(pr) => Leaving(pr)'
      BY DEF Leaving, Running, Top
    <3> QED
      BY <3>1, <3>2, <3>3, Undisturbed
  <2> QED
    BY <1>1, <2>1, <2>2, <2>3 DEF Promise
<1> QED
  BY <1>2, <1>3 DEF Next, Outside

LEMMA PromiseInvariant == OnlyStarts => (Spec => []Promise)
PROOF
<1>1. OnlyStarts => OnlyStarts'
  BY DEF OnlyStarts
<1> QED
  BY <1>1, InitPromise, NextPromise, PTL DEF Spec

(* Whatever happens to processes and in whatever order they are found      *)
(* dead, at most one process owes an answer for a request, and it is the   *)
(* message's handler (add_message, update_message, deactivate and the      *)
(* loop over a ptype's queue).                                             *)
THEOREM OneAtATime == OnlyStarts => (Spec => []OneHandlerAtATime)
PROOF
<1>1. Promise => OneHandlerAtATime
  BY DEF Promise, Sound, OneWorker, OneHandlerAtATime
<1> QED
  BY <1>1, PromiseInvariant, PTL

(* Between requests every open request is with its handler or on the queue *)
(* of a ptype: no path through deliver, handle_no_recipients,              *)
(* proc_started, launch failures and deactivate drops one.                 *)
THEOREM NoRequestDropped == OnlyStarts => (Spec => []Accounted)
PROOF
<1>1. Promise => Accounted
  <2> SUFFICES ASSUME Promise, Idle, NEW msg \in Msg, state[msg] \in Open
               PROVE  \/ \E pr \in Proc :
                           /\ handler[msg] = pr
                           /\ msg \in ToSet(undelivered[pr]) \union ToSet(delivered[pr])
                      \/ \E pt \in Ptype : msg \in ToSet(ptype_queue[pt])
    BY DEF Accounted
  <2>1. Sound(msg) /\ handler[msg] \in Proc \union {NoProc}
    BY DEF Promise, Delivery, Inductive, TypeOK
  <2>2. Awaiting(msg)
    BY <2>1 DEF Sound, OneOutcome, Awaiting, Open
  <2>3. \A fn : ~On(fn, msg)
    BY DEF On, Idle
  <2>4. CASE Queued(msg)
    BY <2>4 DEF Queued, In, ToSet
  <2>5. CASE ~Queued(msg)
    <3>1. PICK pr \in Proc : handler[msg] = pr
      BY <2>1, <2>2, <2>3, <2>5 DEF Sound, Somewhere
    <3>2. Waits(pr, msg) \/ Owes(pr, msg)
      BY <2>1, <2>2, <3>1 DEF Sound, HandlerHasIt
    <3> QED
      BY <3>1, <3>2 DEF Waits, Owes, In, ToSet
  <2> QED
    BY <2>4, <2>5
<1> QED
  BY <1>1, PromiseInvariant, PTL

(* A request that was handled is not handed out again, also not by a copy  *)
(* that still waits for another process when the answer comes.             *)
THEOREM HandledAtMostOnce == OnlyStarts => (Spec => HandledOnce)
PROOF
<1>1. Promise /\ [Next]_vars =>
        [\A msg \in Msg, pr \in Proc :
           "HANDLED" \in state_reported[msg] /\ Owes(pr, msg)' => Owes(pr, msg)]_vars
  <2> SUFFICES ASSUME Promise, ServerStep \/ Outside, NEW msg \in Msg, NEW pr \in Proc,
                      "HANDLED" \in state_reported[msg], Owes(pr, msg)'
               PROVE  Owes(pr, msg)
    BY DEF Next, Outside
  <2>1. TypeOK /\ Sound(msg)
    BY Parts
  <2>2. state[msg] = "HANDLED"
    BY <2>1 DEF Sound, OneOutcome, Final
  <2>3. ~Processing(pr, msg)
    BY <2>2 DEF Processing, Final
  <2>4. In(msg, delivered'[pr])
    BY DEF Owes, In
  <2>5. In(msg, delivered[pr])
    BY <2>1, <2>3, <2>4, ServerWork, OutsideMail
  <2> QED
    BY <2>5 DEF Owes, In
<1> QED
  BY <1>1, PromiseInvariant, PTL DEF Spec, HandledOnce

-----------------------------------------------------------------------------
(* The refinement: every step is a step of TtRequest or changes none of    *)
(* its variables.                                                          *)

Keeps == Request!Next \/ UNCHANGED Request!vars

LEMMA Unmoved ==
  /\ UNCHANGED state => UNCHANGED Outcomes
  /\ UNCHANGED delivered => UNCHANGED Workers
  /\ UNCHANGED sender_copy => UNCHANGED Learnt
PROOF
  BY DEF Outcomes, Workers, Learnt, Owes

LEMMA OutcomeIs ==
  ASSUME NEW m \in Msg
  PROVE  /\ state[m] = "CREATED" => Outcomes[m] = "none"
         /\ Awaiting(m) => Outcomes[m] = "open"
         /\ state'[m] \in {"SENT", "STARTED"} => Outcomes'[m] = "open"
         /\ state[m] \in Final => Outcomes[m] = state[m]
         /\ state'[m] \in Final => Outcomes'[m] = state'[m]
PROOF
  BY DEF Outcomes, Awaiting, Open, Final

LEMMA OutcomeOf ==
  ASSUME NEW m \in Msg, \A y \in Msg : y # m => state'[y] = state[y]
  PROVE  Outcomes' = [Outcomes EXCEPT ![m] = Outcomes'[m]]
PROOF
<1>1. \A y \in Msg : y # m => Outcomes'[y] = Outcomes[y]
  BY DEF Outcomes
<1>2. \E f, g : Outcomes = [y \in Msg |-> f[y]] /\ Outcomes' = [y \in Msg |-> g[y]]
  <2>1. Outcomes = [y \in Msg |-> Outcomes[y]] /\ Outcomes' = [y \in Msg |-> Outcomes'[y]]
    BY DEF Outcomes
  <2> QED
    BY <2>1
<1> QED
  BY <1>1, <1>2

LEMMA WorkersAre ==
  ASSUME NEW m \in Msg
  PROVE  /\ (\A pr \in Proc : ~Owes(pr, m)) => Workers[m] = {}
         /\ (\A pr \in Proc : ~Owes(pr, m)') => Workers'[m] = {}
         /\ \A pr \in Proc :
              Owes(pr, m) /\ (\A q \in Proc : Owes(q, m) => q = pr) => Workers[m] = {pr}
         /\ \A pr \in Proc :
              Owes(pr, m)' /\ (\A q \in Proc : Owes(q, m)' => q = pr) => Workers'[m] = {pr}
PROOF
  BY DEF Workers

LEMMA WorkersOf ==
  ASSUME NEW m \in Msg,
         \A y \in Msg : y # m => \A pr \in Proc : Owes(pr, y)' <=> Owes(pr, y)
  PROVE  Workers' = [Workers EXCEPT ![m] = Workers'[m]]
PROOF
  BY DEF Workers

LEMMA QuietKeeps ==
  ASSUME UNCHANGED <<state, delivered, tried, sender_copy>>
  PROVE  Keeps
PROOF
  BY Unmoved DEF Keeps, Request!vars

LEMMA StillOpenKeeps ==
  ASSUME NEW m \in Msg, Awaiting(m), state'[m] \in {"SENT", "STARTED"},
         \A y \in Msg : y # m => state'[y] = state[y],
         UNCHANGED <<delivered, tried, sender_copy>>
  PROVE  Keeps
PROOF
<1>1. Outcomes'[m] = Outcomes[m]
  BY OutcomeIs
<1>2. Outcomes' = [Outcomes EXCEPT ![m] = Outcomes'[m]]
  BY OutcomeOf
<1>3. UNCHANGED Outcomes
  BY <1>1, <1>2 DEF Outcomes
<1> QED
  BY <1>3, Unmoved DEF Keeps, Request!vars

LEMMA GivenUpKeeps ==
  ASSUME NEW m \in Msg, Awaiting(m), \A pr \in Proc : ~Owes(pr, m),
         state'[m] = "FAILED", \A y \in Msg : y # m => state'[y] = state[y],
         UNCHANGED <<delivered, sender_copy>>,
         NEW pr \in Proc, tried' \in {tried, [tried EXCEPT ![m] = @ \ {pr}]}
  PROVE  Keeps
PROOF
<1>1. Outcomes[m] = "open" /\ Outcomes'[m] = "FAILED" /\ Workers[m] = {}
  BY OutcomeIs, WorkersAre DEF Final
<1>2. Outcomes' = [Outcomes EXCEPT ![m] = "FAILED"]
  BY <1>1, OutcomeOf
<1>3. Request!GiveUp(m)
  BY <1>1, <1>2, Unmoved DEF Request!GiveUp
<1> QED
  BY <1>3 DEF Keeps, Request!Next

(* A call that fails a message nobody works on, if it has no outcome yet.  *)
LEMMA FailedKeeps ==
  ASSUME Promise, NEW m \in Msg, NEW rest, Finish(m, "FAILED", rest),
         Awaiting(m) \/ state[m] = "FAILED", \A pr \in Proc : ~Owes(pr, m),
         UNCHANGED <<delivered, tried, sender_copy>>
  PROVE  Keeps
PROOF
<1>0. TypeOK /\ Sound(m)
  BY Parts
<1>1. CASE "FAILED" \in state_reported[m]
  BY <1>1, QuietKeeps DEF Finish
<1>2. CASE "FAILED" \notin state_reported[m]
  <2>1. Awaiting(m)
    BY <1>0, <1>2 DEF Sound, OneOutcome, Final
  <2>2. state'[m] = "FAILED" /\ \A y \in Msg : y # m => state'[y] = state[y]
    BY <1>0, <1>2 DEF Finish, TypeOK
  <2>3. PICK pr \in Proc : pr = SenderOf[m]
    BY ConstantsAssumption
  <2> QED
    BY <2>1, <2>2, <2>3, GivenUpKeeps
<1> QED
  BY <1>1, <1>2

LEMMA StartKeeps ==
  ASSUME Promise, NoRecipientsStart
  PROVE  Keeps
PROOF
<1>1. PICK m \in Msg :
        /\ Awaiting(m) /\ state' = [state EXCEPT ![m] = "STARTED"]
        /\ UNCHANGED <<delivered, tried, sender_copy>>
  BY DEF NoRecipientsStart, procVars
<1>2. state'[m] = "STARTED" /\ \A y \in Msg : y # m => state'[y] = state[y]
  BY <1>1, Parts DEF TypeOK
<1> QED
  BY <1>1, <1>2, StillOpenKeeps

LEMMA StartFailedKeeps ==
  ASSUME Promise, StartFailed
  PROVE  Keeps
PROOF
<1>0. ServerStep /\ calls # <<>> /\ calls \in Seq(Frame)
  BY Parts DEF ServerStep, StartFailed, Running
<1>1. PICK m \in Msg : m = Top.m
  BY <1>0, TopTypes DEF StartFailed, Running, MsgCalls
<1>2. On("start_failed", m)
  <2>1. 1 \in DOMAIN calls /\ calls[1] = Top
    BY <1>0 DEF Top
  <2> QED
    BY <1>1, <2>1 DEF On, StartFailed, Running
<1>3. Sound(m)
  BY Parts
<1>4. Awaiting(m) \/ state[m] = "FAILED"
  BY <1>2, <1>3 DEF Sound, Called
<1>5. \A pr \in Proc : ~Owes(pr, m)
  BY <1>2, <1>3 DEF Sound, OneWorker
<1> QED
  BY <1>1, <1>4, <1>5, FailedKeeps DEF StartFailed, procVars

LEMMA QueueKeeps ==
  ASSUME Promise, NoRecipientsQueue
  PROVE  Keeps
PROOF
<1>0. ServerStep /\ calls # <<>> /\ calls \in Seq(Frame)
  BY Parts DEF ServerStep, NoRecipientsQueue, NoHandler, Running
<1>1. UNCHANGED <<delivered, tried, sender_copy>>
  BY DEF NoRecipientsQueue, procVars
<1>2. CASE Running("queue")
  <2>1. PICK m \in Msg : m = Top.m
    BY <1>0, <1>2, TopTypes DEF Running, MsgCalls
  <2>2. On("queue", m)
    <3>1. 1 \in DOMAIN calls /\ calls[1] = Top
      BY <1>0 DEF Top
    <3> QED
      BY <1>2, <2>1, <3>1 DEF On, Running
  <2>3. "start" \in reliability[m] /\ "queue" \notin reliability[m]
    BY <2>2, Parts DEF Sound, Called, OneOutcome
  <2>4. UNCHANGED state
    BY <1>2, <2>1, <2>3 DEF NoRecipientsQueue, NoHandler, HonourQueue, Running
  <2> QED
    BY <1>1, <2>4, QuietKeeps
<1>3. CASE ~Running("queue")
  <2>1. PICK m \in Msg : NoHandler(m) /\ Awaiting(m) /\ HonourQueue(m)
    BY <1>3 DEF NoRecipientsQueue
  <2>2. \A pr \in Proc : ~Owes(pr, m)
    BY <1>0, <2>1, NobodyHasIt
  <2>3. "queue" \notin reliability[m]
    BY Parts DEF Sound, OneOutcome
  <2>4. UNCHANGED state \/ Finish(m, "FAILED", <<>>)
    BY <2>1, <2>3 DEF HonourQueue
  <2> QED
    BY <1>1, <2>1, <2>2, <2>4, QuietKeeps, FailedKeeps
<1> QED
  BY <1>2, <1>3

LEMMA OrphanUndeliveredKeeps ==
  ASSUME Promise, OrphanUndelivered
  PROVE  Keeps
PROOF
<1>0. TypeOK /\ calls # <<>> /\ calls \in Seq(Frame)
  BY Parts DEF OrphanUndelivered, Running
<1>1. PICK pr \in Proc : pr = Top.p
  BY <1>0, TopTypes DEF OrphanUndelivered, Running, ProcCalls
<1>2. undelivered[pr] # <<>> /\ undelivered[pr] \in Seq(Msg)
  BY <1>0, <1>1 DEF OrphanUndelivered, TypeOK
<1>3. PICK m \in Msg : m = Head(undelivered[pr])
  BY <1>2
<1>4. Waits(pr, m) /\ Sound(m)
  BY <1>2, <1>3, HeadIn, Parts DEF Waits
<1>5. /\ tried' = [tried EXCEPT ![m] = @ \ {pr}]
      /\ UNCHANGED <<delivered, sender_copy>>
      /\ Processing(pr, m) => \E rest : Finish(m, "FAILED", rest)
      /\ ~Processing(pr, m) => UNCHANGED state
  BY <1>1, <1>3 DEF OrphanUndelivered
<1>6. CASE Processing(pr, m)
  <2>1. Awaiting(m) /\ "FAILED" \notin state_reported[m]
    BY <1>0, <1>4, <1>6, NotOverYet DEF Final
  <2>2. \A q \in Proc : ~Owes(q, m)
    BY <1>4, <1>6 DEF Sound, OneWorker, Processing
  <2>3. state'[m] = "FAILED" /\ \A y \in Msg : y # m => state'[y] = state[y]
    BY <1>0, <1>5, <1>6, <2>1 DEF Finish, TypeOK
  <2> QED
    BY <1>5, <2>1, <2>2, <2>3, GivenUpKeeps
<1>7. CASE ~Processing(pr, m)
  <2>1. Request!Forget(pr, m)
    BY <1>5, <1>7, Unmoved DEF Request!Forget
  <2> QED
    BY <2>1 DEF Keeps, Request!Next
<1> QED
  BY <1>6, <1>7

LEMMA OrphanDeliveredKeeps ==
  ASSUME Promise, OrphanDelivered
  PROVE  Keeps
PROOF
<1>0. TypeOK /\ calls # <<>> /\ calls \in Seq(Frame) /\ Singly
  BY Parts DEF OrphanDelivered, Running
<1>1. PICK pr \in Proc : pr = Top.p
  BY <1>0, TopTypes DEF OrphanDelivered, Running, ProcCalls
<1>2. delivered[pr] # <<>> /\ delivered[pr] \in Seq(Msg) /\ Once(delivered[pr])
  BY <1>0, <1>1 DEF OrphanDelivered, TypeOK, Singly
<1>3. PICK m \in Msg : m = Head(delivered[pr])
  BY <1>2
<1>4. Owes(pr, m) /\ Sound(m)
  BY <1>2, <1>3, HeadIn, Parts DEF Owes, In
<1>5. Awaiting(m) /\ "FAILED" \notin state_reported[m]
      /\ \A q \in Proc : Owes(q, m) => q = pr
  BY <1>0, <1>4, NotOverYet DEF Final
<1>6. /\ tried' = [tried EXCEPT ![m] = @ \ {pr}]
      /\ UNCHANGED sender_copy
      /\ \E rest : Finish(m, "FAILED", rest)
      /\ delivered' = [delivered EXCEPT ![pr] = Tail(@)]
  BY <1>1, <1>3 DEF OrphanDelivered
<1>7. state'[m] = "FAILED" /\ \A y \in Msg : y # m => state'[y] = state[y]
  BY <1>0, <1>5, <1>6 DEF Finish, TypeOK
<1>8. \A q \in Proc : q # pr => delivered'[q] = delivered[q]
  BY <1>0, <1>6 DEF TypeOK
<1>9. delivered'[pr] = Tail(delivered[pr])
  BY <1>0, <1>6 DEF TypeOK
<1>10. \A q \in Proc : ~Owes(q, m)'
  <2>1. ~In(m, delivered'[pr])
    BY <1>2, <1>3, <1>9, OnceTail
  <2> QED
    BY <1>5, <1>8, <2>1 DEF Owes, In
<1>11. \A y \in Msg : y # m => \A q \in Proc : Owes(q, y)' <=> Owes(q, y)
  <2>1. \A y : y # m => (In(y, delivered'[pr]) <=> In(y, delivered[pr]))
    BY <1>2, <1>3, <1>9, InTail
  <2> QED
    BY <1>8, <2>1 DEF Owes, In
<1>12. /\ Outcomes[m] = "open" /\ Outcomes' = [Outcomes EXCEPT ![m] = "FAILED"]
       /\ Workers[m] = {pr} /\ Workers' = [Workers EXCEPT ![m] = {}]
  <2>1. Outcomes[m] = "open" /\ Outcomes'[m] = "FAILED"
    BY <1>5, <1>7, OutcomeIs DEF Final
  <2>2. Workers[m] = {pr} /\ Workers'[m] = {}
    BY <1>4, <1>5, <1>10, WorkersAre
  <2> QED
    BY <1>7, <1>11, <2>1, <2>2, OutcomeOf, WorkersOf
<1>13. Request!Lose(pr, m)
  BY <1>6, <1>12, Unmoved DEF Request!Lose
<1> QED
  BY <1>13 DEF Keeps, Request!Next

LEMMA RedeliverKeeps ==
  ASSUME Promise, Redeliver
  PROVE  Keeps
PROOF
<1>0. TypeOK /\ calls # <<>> /\ calls \in Seq(Frame) /\ ServerStep
  BY Parts DEF Redeliver, Running, ServerStep
<1>1. PICK pt \in Ptype : pt = Top.t
  BY <1>0, TopTypes DEF Redeliver, Running, TypeCalls
<1>2. UNCHANGED <<delivered, tried, sender_copy>>
  BY DEF Redeliver, procVars
<1>3. CASE ptype_queue[pt] = <<>>
  BY <1>1, <1>2, <1>3, QuietKeeps DEF Redeliver
<1>4. CASE ptype_queue[pt] # <<>>
  <2>1. ptype_queue[pt] \in Seq(Msg)
    BY <1>0 DEF TypeOK
  <2>2. PICK m \in Msg : m = Head(ptype_queue[pt])
    BY <1>4, <2>1
  <2>3. Queued(m) /\ ~Offered(m)
    <3>1. In(m, ptype_queue[pt])
      BY <1>4, <2>1, <2>2, HeadIn
    <3>2. Top.fn \in Loops /\ Top.fn # "redelivered"
      BY DEF Redeliver, Running, Loops, TypeCalls
    <3>3. \A t : ~Delivers(t)
      BY <1>0, <3>2, Below, StackBefore
    <3> QED
      BY <3>1, <3>3 DEF Queued, Offered
  <2>4. Awaiting(m)
    BY <2>3, Parts DEF Sound, WaitsForStart
  <2>5. state'[m] = "SENT" /\ \A y \in Msg : y # m => state'[y] = state[y]
    BY <1>0, <1>1, <1>4, <2>2 DEF Redeliver, TypeOK
  <2> QED
    BY <1>2, <2>4, <2>5, StillOpenKeeps
<1> QED
  BY <1>3, <1>4

LEMMA LaunchFailedKeeps ==
  ASSUME Promise, LaunchFailed
  PROVE  Keeps
PROOF
<1>0. TypeOK /\ calls # <<>> /\ calls \in Seq(Frame) /\ ServerStep
  BY Parts DEF LaunchFailed, Running, ServerStep
<1>1. PICK pt \in Ptype : pt = Top.t
  BY <1>0, TopTypes DEF LaunchFailed, Running, TypeCalls
<1>2. UNCHANGED <<delivered, tried, sender_copy>>
  BY DEF LaunchFailed, procVars
<1>3. CASE Top.m # NoMsg
  <2>1. PICK m \in Msg : m = Top.m
    BY <1>0, <1>3, TopTypes
  <2>2. On("launch_failed", m)
    <3>1. 1 \in DOMAIN calls /\ calls[1] = Top
      BY <1>0 DEF Top
    <3> QED
      BY <2>1, <3>1 DEF On, LaunchFailed, Running
  <2>3. Sound(m)
    BY Parts
  <2>4. (Awaiting(m) \/ state[m] = "FAILED") /\ \A pr \in Proc : ~Owes(pr, m)
    BY <2>2, <2>3 DEF Sound, Called, OneWorker
  <2>5. PICK rest : Finish(m, "FAILED", rest)
    BY <1>3, <2>1 DEF LaunchFailed
  <2> QED
    BY <1>2, <2>4, <2>5, FailedKeeps
<1>4. CASE Top.m = NoMsg /\ ptype_queue[pt] # <<>>
  <2>1. ptype_queue[pt] \in Seq(Msg)
    BY <1>0 DEF TypeOK
  <2>2. PICK m \in Msg : m = Head(ptype_queue[pt])
    BY <1>4, <2>1
  <2>3. Queued(m) /\ ~Offered(m)
    <3>1. In(m, ptype_queue[pt])
      BY <1>4, <2>1, <2>2, HeadIn
    <3>2. Top.fn \in Loops /\ Top.fn # "redelivered"
      BY DEF LaunchFailed, Running, Loops, TypeCalls
    <3>3. \A t : ~Delivers(t)
      BY <1>0, <3>2, Below, StackBefore
    <3> QED
      BY <3>1, <3>3 DEF Queued, Offered
  <2>4. Awaiting(m) /\ \A pr \in Proc : ~Owes(pr, m)
    BY <2>3, Parts DEF Sound, WaitsForStart, OneWorker
  <2>5. PICK rest : Finish(m, "FAILED", rest)
    BY <1>1, <1>4, <2>2 DEF LaunchFailed
  <2> QED
    BY <1>2, <2>4, <2>5, FailedKeeps
<1>5. CASE Top.m = NoMsg /\ ptype_queue[pt] = <<>>
  BY <1>1, <1>2, <1>5, QuietKeeps DEF LaunchFailed
<1> QED
  BY <1>3, <1>4, <1>5

LEMMA UpdateFinalKeeps ==
  ASSUME Promise, UpdateFinal
  PROVE  Keeps
PROOF
<1>0. TypeOK /\ calls # <<>> /\ calls \in Seq(Frame) /\ Singly
  BY Parts DEF UpdateFinal, Running
<1>1. PICK pr \in Proc, m \in Msg, s \in Final : pr = Top.p /\ m = Top.m /\ s = Top.s
  BY <1>0, TopTypes DEF UpdateFinal, Running, ProcCalls, MsgCalls
<1>2. /\ TakeDelivered(pr, m) /\ Finish(m, s, <<>>)
      /\ UNCHANGED <<tried, sender_copy>>
  BY <1>1 DEF UpdateFinal
<1>3. Owes(pr, m) /\ Sound(m)
  BY <1>2, Parts DEF TakeDelivered, Owes
<1>4. Awaiting(m) /\ s \notin state_reported[m]
      /\ \A q \in Proc : Owes(q, m) => q = pr
  BY <1>0, <1>3, NotOverYet
<1>5. /\ \A q \in Proc : ~Owes(q, m)'
      /\ \A q \in Proc : \A y : y # m => (Owes(q, y)' <=> Owes(q, y))
  BY <1>0, <1>2, <1>4, TakenWork
<1>6. state'[m] = s /\ \A y \in Msg : y # m => state'[y] = state[y]
  BY <1>0, <1>2, <1>4 DEF Finish, TypeOK
<1>7. Outcomes[m] = "open" /\ Outcomes' = [Outcomes EXCEPT ![m] = s]
  <2>1. Outcomes[m] = "open" /\ Outcomes'[m] = s
    BY <1>4, <1>6, OutcomeIs
  <2> QED
    BY <1>6, <2>1, OutcomeOf
<1>8. Workers[m] = {pr} /\ Workers' = [Workers EXCEPT ![m] = {}]
  <2>1. Workers[m] = {pr} /\ Workers'[m] = {}
    BY <1>3, <1>4, <1>5, WorkersAre
  <2> QED
    BY <1>5, <2>1, WorkersOf
<1>9. Request!Answer(pr, m, s)
  BY <1>2, <1>7, <1>8, Unmoved DEF Request!Answer
<1>10. s \in Request!Results
  BY DEF Request!Results, Final
<1> QED
  BY <1>9, <1>10 DEF Keeps, Request!Next

LEMMA UpdateRejectedKeeps ==
  ASSUME Promise, UpdateRejected
  PROVE  Keeps
PROOF
<1>0. TypeOK /\ calls # <<>> /\ calls \in Seq(Frame) /\ Singly
  BY Parts DEF UpdateRejected, Running
<1>1. PICK pr \in Proc, m \in Msg : pr = Top.p /\ m = Top.m
  BY <1>0, TopTypes DEF UpdateRejected, Running, ProcCalls, MsgCalls
<1>2. TakeDelivered(pr, m)
  BY <1>1 DEF UpdateRejected
<1>3. Owes(pr, m) /\ Sound(m)
  BY <1>2, Parts DEF TakeDelivered, Owes
<1>4. Awaiting(m) /\ handler[m] = pr /\ \A q \in Proc : Owes(q, m) => q = pr
  BY <1>0, <1>3, NotOverYet
<1>5. /\ \A q \in Proc : ~Owes(q, m)'
      /\ \A q \in Proc : \A y : y # m => (Owes(q, y)' <=> Owes(q, y))
  BY <1>0, <1>2, <1>4, TakenWork
<1>6. /\ state'[m] = "SENT" /\ \A y \in Msg : y # m => state'[y] = state[y]
      /\ tried' = [tried EXCEPT ![m] = @ \union {pr}]
      /\ UNCHANGED sender_copy
  BY <1>0, <1>1, <1>4, ConstantsAssumption DEF UpdateRejected, TypeOK
<1>7. UNCHANGED Outcomes
  <2>1. Outcomes[m] = "open" /\ Outcomes'[m] = "open"
    BY <1>4, <1>6, OutcomeIs
  <2>2. Outcomes' = [Outcomes EXCEPT ![m] = Outcomes'[m]]
    BY <1>6, OutcomeOf
  <2> QED
    BY <2>1, <2>2 DEF Outcomes
<1>8. Workers[m] = {pr} /\ Workers' = [Workers EXCEPT ![m] = {}]
  <2>1. Workers[m] = {pr} /\ Workers'[m] = {}
    BY <1>3, <1>4, <1>5, WorkersAre
  <2> QED
    BY <1>5, <2>1, WorkersOf
<1>9. Request!Refuse(pr, m)
  BY <1>6, <1>7, <1>8, Unmoved DEF Request!Refuse
<1> QED
  BY <1>9 DEF Keeps, Request!Next

LEMMA ServerKeeps ==
  ASSUME Promise, ServerStep
  PROVE  Keeps
PROOF
<1>0. calls # <<>> /\ calls \in Seq(Frame) /\ queued = <<>> /\ LoopsInBounds
  BY Parts, ServerCalls
<1>1. CASE \/ Report \/ DeliverToHandler \/ DeliverToNobody \/ Deactivate \/ OrphansDone
           \/ ProcStarted \/ ProcStartedIdly \/ ProcReplied \/ Redelivered \/ UpdateUnknown
  <2>1. UNCHANGED <<state, delivered, tried, sender_copy>>
    BY <1>1 DEF Report, DeliverToHandler, DeliverToNobody, Deactivate, OrphansDone,
       ProcStarted, ProcStartedIdly, ProcReplied, Redelivered, UpdateUnknown, procVars,
       msgVars
  <2> QED
    BY <2>1, QuietKeeps
<1>2. CASE PatternAdded
  <2>1. Top.i > Len(queued)
    BY <1>0, TopTypes
  <2> QED
    BY <1>2, <2>1, QuietKeeps DEF PatternAdded, procVars
<1>3. ~PatternDelivered
  <2>1. 1 \in DOMAIN calls /\ calls[1] = Top
    BY <1>0 DEF Top
  <2>2. DOMAIN queued = {}
    BY <1>0
  <2> QED
    BY <1>0, <2>1, <2>2 DEF LoopsInBounds, PatternDelivered, Running
<1> QED
  BY <1>1, <1>2, <1>3, StartKeeps, StartFailedKeeps, QueueKeeps, OrphanUndeliveredKeeps,
     OrphanDeliveredKeeps, RedeliverKeeps, LaunchFailedKeeps, UpdateFinalKeeps,
     UpdateRejectedKeeps DEF ServerStep

LEMMA DispatchKeeps ==
  ASSUME Promise, NEW pr \in Proc, NEW m \in Msg, Dispatch(pr, m)
  PROVE  Keeps
PROOF
<1>0. TypeOK /\ Sound(m)
  BY Parts
<1>1. /\ state[m] = "CREATED" /\ state'[m] = "SENT"
      /\ \A y \in Msg : y # m => state'[y] = state[y]
      /\ sender_copy' = [sender_copy EXCEPT ![m] = "SENT"]
      /\ UNCHANGED <<delivered, tried>>
  BY <1>0 DEF Dispatch, TypeOK, procVars
<1>2. Outcomes[m] = "none" /\ Outcomes' = [Outcomes EXCEPT ![m] = "open"]
  <2>1. Outcomes[m] = "none" /\ Outcomes'[m] = "open"
    BY <1>1, OutcomeIs
  <2> QED
    BY <1>1, <2>1, OutcomeOf
<1>3. UNCHANGED Learnt
  <2>1. sender_copy[m] \notin Final
    BY <1>0, <1>1 DEF Sound, OneOutcome, Final
  <2> QED
    BY <1>0, <1>1, <2>1 DEF Learnt, Final, TypeOK
<1>4. Request!Ask(m)
  BY <1>1, <1>2, <1>3, Unmoved DEF Request!Ask
<1> QED
  BY <1>4 DEF Keeps, Request!Next

LEMMA NextMessageKeeps ==
  ASSUME Promise, NEW pr \in Proc, NextMessage(pr)
  PROVE  Keeps
PROOF
<1>0. TypeOK /\ undelivered[pr] \in Seq(Msg) /\ undelivered[pr] # <<>>
  BY Parts DEF NextMessage, TypeOK
<1>1. PICK m \in Msg : m = Head(undelivered[pr])
  BY <1>0
<1>2. Sound(m) /\ Waits(pr, m) /\ UNCHANGED <<state, tried>>
  BY <1>0, <1>1, HeadIn, Parts DEF Waits, NextMessage
<1>3. CASE Processing(pr, m)
  <2>1. /\ delivered' = [delivered EXCEPT ![pr] = <<m>> \o @]
        /\ UNCHANGED sender_copy
    BY <1>1, <1>3 DEF NextMessage
  <2>2. Awaiting(m) /\ handler[m] = pr /\ \A q \in Proc : ~Owes(q, m)
    BY <1>0, <1>2, <1>3, NotOverYet DEF Processing, Sound, OneWorker
  <2>3. pr \notin tried[m]
    BY <2>2, ConstantsAssumption DEF Promise, Delivery, RejectedStaysRejected
  <2>4. \A q \in Proc : q # pr => delivered'[q] = delivered[q]
    BY <1>0, <2>1 DEF TypeOK
  <2>5. \A y : In(y, delivered'[pr]) <=> y = m \/ In(y, delivered[pr])
    <3>1. delivered[pr] \in Seq(Msg) /\ delivered'[pr] = <<m>> \o delivered[pr]
      BY <1>0, <2>1 DEF TypeOK
    <3> QED
      BY <3>1, InCons
  <2>6. Workers[m] = {} /\ Workers' = [Workers EXCEPT ![m] = {pr}]
    <3>1. Owes(pr, m)' /\ \A q \in Proc : Owes(q, m)' => q = pr
      BY <2>2, <2>4, <2>5 DEF Owes, In
    <3>2. \A y \in Msg : y # m => \A q \in Proc : Owes(q, y)' <=> Owes(q, y)
      BY <2>4, <2>5 DEF Owes, In
    <3>3. Workers[m] = {} /\ Workers'[m] = {pr}
      BY <2>2, <3>1, WorkersAre
    <3> QED
      BY <3>2, <3>3, WorkersOf
  <2>7. Request!Take(pr, m)
    BY <1>2, <2>1, <2>2, <2>3, <2>6, OutcomeIs, Unmoved DEF Request!Take
  <2> QED
    BY <2>7 DEF Keeps, Request!Next
<1>4. CASE ~Processing(pr, m)
  <2>1. UNCHANGED delivered
    BY <1>1, <1>4 DEF NextMessage
  <2>2. CASE SenderOf[m] # pr
    BY <1>1, <1>2, <1>4, <2>1, <2>2, QuietKeeps DEF NextMessage
  <2>3. CASE SenderOf[m] = pr
    <3>1. sender_copy' = [sender_copy EXCEPT ![m] = state[m]]
      BY <1>1, <1>4, <2>3 DEF NextMessage
    <3>2. CASE state[m] \in Final
      <4>1. Outcomes[m] = state[m] /\ state[m] \in Request!Results
        BY <3>2, OutcomeIs DEF Request!Results, Final
      <4>2. Learnt' = [Learnt EXCEPT ![m] = Outcomes[m]]
        BY <1>0, <3>1, <3>2, <4>1 DEF Learnt, TypeOK
      <4>3. Request!Learn(m)
        BY <1>2, <2>1, <4>1, <4>2, Unmoved DEF Request!Learn
      <4> QED
        BY <4>3 DEF Keeps, Request!Next
    <3>3. CASE state[m] \notin Final
      <4>1. sender_copy[m] \notin Final
        BY <1>2, <3>3 DEF Sound, OneOutcome
      <4>2. UNCHANGED Learnt
        BY <1>0, <3>1, <3>3, <4>1 DEF Learnt, TypeOK
      <4> QED
        BY <1>2, <2>1, <4>2, Unmoved DEF Keeps, Request!vars
    <3> QED
      BY <3>2, <3>3
  <2> QED
    BY <2>2, <2>3
<1> QED
  BY <1>3, <1>4

LEMMA OutsideKeeps ==
  ASSUME Promise, Outside
  PROVE  Keeps
PROOF
<1>1. CASE UNCHANGED <<state, delivered, tried, sender_copy>>
  BY <1>1, QuietKeeps
<1>2. CASE SigChld \/ NotifyStartFailure
  BY <1>1, <1>2 DEF SigChld, NotifyStartFailure, procVars, msgVars
<1>3. ASSUME NEW pr \in Proc, PatternRequest(pr) \/ Crash(pr) \/ ChannelLost(pr)
      PROVE  Keeps
  BY <1>1, <1>3 DEF PatternRequest, Crash, ChannelLost, JoinSession, QuitSession,
     DeclarePtype, UndeclarePtype, AddPattern, DelPattern, OnlyPatterns, procVars, msgVars
<1>4. ASSUME NEW pr \in Proc, NEW m \in Msg, Accept(pr, m) \/ \E s \in Answer : Update(pr, m, s)
      PROVE  Keeps
  <2>1. CASE Accept(pr, m)
    BY <1>1, <2>1 DEF Accept, procVars, msgVars
  <2>2. ASSUME NEW s \in Answer, Update(pr, m, s)
        PROVE  UNCHANGED <<state, delivered, tried, sender_copy>>
    BY <2>2 DEF Update, msgVars
  <2> QED
    BY <1>1, <1>4, <2>1, <2>2
<1>5. ASSUME NEW pr \in Proc, Connect(pr) \/ Close(pr)
      PROVE  Keeps
  <2>1. Connect(pr) => UNCHANGED <<state, delivered, tried, sender_copy>>
    BY DEF Connect, msgVars
  <2>2. Close(pr) => UNCHANGED <<state, delivered, tried, sender_copy>>
    BY DEF Close, procVars, msgVars
  <2> QED
    BY <1>1, <1>5, <2>1, <2>2
<1> QED
  BY <1>2, <1>3, <1>4, <1>5, NextMessageKeeps, DispatchKeeps DEF Outside, MessageRequest

LEMMA InitKeeps == Init => Request!Init
PROOF
  BY DEF Init, Request!Init, Outcomes, Workers, Learnt, Owes, Open, Final

(* The server does to each request what TtRequest promises, whatever       *)
(* processes do and whenever they die: one at a time works on it, who      *)
(* refused is not asked again, it has one outcome, the worker's answer     *)
(* unless nobody is found to work on it or the worker is lost, and what    *)
(* its sender learns is that outcome.                                      *)
THEOREM PromiseIsKept == OnlyStarts => (Spec => KeepsPromise)
PROOF
<1>1. Promise /\ [Next]_vars => [Request!Next]_(Request!vars)
  <2>1. ASSUME Promise, ServerStep \/ Outside PROVE Keeps
    BY <2>1, ServerKeeps, OutsideKeeps
  <2>2. ASSUME UNCHANGED vars PROVE Keeps
    BY <2>2, QuietKeeps DEF vars, procVars, msgVars
  <2> QED
    BY <2>1, <2>2 DEF Keeps, Next, Outside
<1> QED
  BY <1>1, InitKeeps, PromiseInvariant, PTL DEF Spec, KeepsPromise, Request!Spec
=============================================================================
