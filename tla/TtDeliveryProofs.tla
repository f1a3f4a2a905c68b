-------------------------- MODULE TtDeliveryProofs --------------------------
(***************************************************************************)
(* More proofs about TtServer, for any processes, messages, operations and *)
(* ptypes: what a process leaves behind, that a handler is not asked again *)
(* after it rejected a request, what senders are told, and that messages   *)
(* wait for a process only while one is on its way.                        *)
(***************************************************************************)
EXTENDS TtServerProofs

-----------------------------------------------------------------------------
(* Sequences and what is in them.                                          *)

In(x, q) == \E i \in DOMAIN q : q[i] = x

(* What is left after removing one element, in the order it was in.        *)
LEMMA RemoveAtElements ==
  ASSUME NEW S, NEW q \in Seq(S), NEW i \in DOMAIN q
  PROVE  /\ RemoveAt(q, i) \in Seq(S)
         /\ DOMAIN RemoveAt(q, i) = 1..(Len(q) - 1)
         /\ \A j \in 1..(Len(q) - 1) :
              RemoveAt(q, i)[j] = IF j < i THEN q[j] ELSE q[j + 1]
PROOF
<1>0. Len(q) \in Nat /\ i \in Nat /\ 1 <= i /\ i <= Len(q)
  OBVIOUS
<1> DEFINE front == SubSeq(q, 1, i - 1)
           back  == SubSeq(q, i + 1, Len(q))
<1>1. /\ front \in Seq(S) /\ Len(front) = i - 1
      /\ \A j \in 1..(i - 1) : front[j] = q[j]
  BY <1>0
<1>2. /\ back \in Seq(S) /\ Len(back) = Len(q) - i
      /\ \A j \in 1..(Len(q) - i) : back[j] = q[i + j]
  BY <1>0
<1>3. RemoveAt(q, i) = front \o back
  BY DEF RemoveAt
<1> HIDE DEF front, back
<1>4. /\ front \o back \in Seq(S) /\ Len(front \o back) = Len(q) - 1
      /\ \A j \in 1..(Len(q) - 1) :
           (front \o back)[j] = IF j <= i - 1 THEN front[j] ELSE back[j - (i - 1)]
  <2>1. front \in Seq(S) /\ back \in Seq(S) /\ Len(front) \in Nat /\ Len(back) \in Nat
    BY <1>1, <1>2
  <2>2. /\ front \o back \in Seq(S) /\ Len(front \o back) = Len(front) + Len(back)
        /\ \A j \in 1..(Len(front) + Len(back)) :
             (front \o back)[j] = IF j <= Len(front) THEN front[j] ELSE back[j - Len(front)]
    BY <2>1, ConcatProperties
  <2>3. Len(front) = i - 1 /\ Len(front) + Len(back) = Len(q) - 1
    BY <1>0, <1>1, <1>2
  <2> QED
    BY <2>2, <2>3
<1>5. ASSUME NEW j \in 1..(Len(q) - 1)
      PROVE  (front \o back)[j] = IF j < i THEN q[j] ELSE q[j + 1]
  <2>1. CASE j < i
    BY <2>1, <1>0, <1>1, <1>4
  <2>2. CASE ~(j < i)
    <3>1. /\ j - (i - 1) \in 1..(Len(q) - i) /\ i + (j - (i - 1)) = j + 1
          /\ ~(j <= i - 1)
      BY <2>2, <1>0
    <3>2. (front \o back)[j] = back[j - (i - 1)]
      BY <3>1, <1>4
    <3>3. back[j - (i - 1)] = q[i + (j - (i - 1))]
      BY <3>1, <1>2
    <3> QED
      BY <2>2, <3>1, <3>2, <3>3
  <2> QED
    BY <2>1, <2>2
<1> QED
  BY <1>0, <1>3, <1>4, <1>5

LEMMA InRemoveAt ==
  ASSUME NEW S, NEW q \in Seq(S), NEW i \in DOMAIN q, NEW x
  PROVE  /\ In(x, RemoveAt(q, i)) => In(x, q)
         /\ In(x, q) /\ x # q[i] => In(x, RemoveAt(q, i))
PROOF
<1>0. /\ Len(q) \in Nat /\ i \in Nat /\ 1 <= i /\ i <= Len(q)
      /\ DOMAIN q = 1..Len(q)
  OBVIOUS
<1>1. /\ DOMAIN RemoveAt(q, i) = 1..(Len(q) - 1)
      /\ \A j \in 1..(Len(q) - 1) :
           RemoveAt(q, i)[j] = IF j < i THEN q[j] ELSE q[j + 1]
  BY RemoveAtElements
<1>2. ASSUME In(x, RemoveAt(q, i))
      PROVE  In(x, q)
  <2>1. PICK j \in 1..(Len(q) - 1) : RemoveAt(q, i)[j] = x
    BY <1>1, <1>2 DEF In
  <2>2. j \in DOMAIN q /\ j + 1 \in DOMAIN q
    BY <1>0, <2>1
  <2> QED
    BY <1>1, <2>1, <2>2 DEF In
<1>3. ASSUME In(x, q), x # q[i]
      PROVE  In(x, RemoveAt(q, i))
  <2>1. PICK j \in DOMAIN q : q[j] = x
    BY <1>3 DEF In
  <2>2. j # i
    BY <1>3, <2>1
  <2>3. CASE j < i
    <3>1. j \in 1..(Len(q) - 1)
      BY <1>0, <2>1, <2>3
    <3> QED
      BY <1>1, <2>1, <2>3, <3>1 DEF In
  <2>4. CASE ~(j < i)
    <3>1. j - 1 \in 1..(Len(q) - 1) /\ ~(j - 1 < i) /\ (j - 1) + 1 = j
      BY <1>0, <2>1, <2>2, <2>4
    <3> QED
      BY <1>1, <2>1, <3>1 DEF In
  <2> QED
    BY <2>3, <2>4
<1> QED
  BY <1>2, <1>3

LEMMA InAppend ==
  ASSUME NEW S, NEW q \in Seq(S), NEW y \in S, NEW x
  PROVE  In(x, Append(q, y)) <=> x = y \/ In(x, q)
PROOF
<1>1. /\ DOMAIN Append(q, y) = 1..(Len(q) + 1) /\ DOMAIN q = 1..Len(q)
      /\ Len(q) \in Nat
      /\ \A j \in 1..Len(q) : Append(q, y)[j] = q[j]
      /\ Append(q, y)[Len(q) + 1] = y
  OBVIOUS
<1>2. \A j \in 1..(Len(q) + 1) : j \in 1..Len(q) \/ j = Len(q) + 1
  BY <1>1
<1>3. 1..Len(q) \subseteq 1..(Len(q) + 1) /\ Len(q) + 1 \in 1..(Len(q) + 1)
  BY <1>1
<1> QED
  BY <1>1, <1>2, <1>3 DEF In

LEMMA InTail ==
  ASSUME NEW S, NEW q \in Seq(S), q # <<>>, NEW x
  PROVE  /\ In(x, Tail(q)) => In(x, q)
         /\ In(x, q) /\ x # Head(q) => In(x, Tail(q))
PROOF
<1>1. /\ DOMAIN Tail(q) = 1..(Len(q) - 1) /\ DOMAIN q = 1..Len(q)
      /\ Len(q) \in Nat
      /\ \A j \in 1..(Len(q) - 1) : Tail(q)[j] = q[j + 1]
      /\ q[1] = Head(q)
  OBVIOUS
<1>2. \A j \in 1..(Len(q) - 1) : j + 1 \in 1..Len(q)
  BY <1>1
<1>3. \A j \in 1..Len(q) : j # 1 => j - 1 \in 1..(Len(q) - 1) /\ (j - 1) + 1 = j
  BY <1>1
<1>4. In(x, Tail(q)) => In(x, q)
  BY <1>1, <1>2 DEF In
<1>5. ASSUME In(x, q), x # Head(q)
      PROVE  In(x, Tail(q))
  <2>1. PICK j \in 1..Len(q) : q[j] = x
    BY <1>1, <1>5 DEF In
  <2>2. j # 1
    BY <1>1, <1>5, <2>1
  <2> QED
    BY <1>1, <1>3, <2>1, <2>2 DEF In
<1> QED
  BY <1>4, <1>5

LEMMA InCons ==
  ASSUME NEW S, NEW q \in Seq(S), NEW y \in S, NEW x
  PROVE  In(x, <<y>> \o q) <=> x = y \/ In(x, q)
PROOF
<1>1. /\ DOMAIN (<<y>> \o q) = 1..(Len(q) + 1) /\ DOMAIN q = 1..Len(q)
      /\ Len(q) \in Nat
      /\ \A j \in 1..Len(q) : (<<y>> \o q)[j + 1] = q[j]
      /\ (<<y>> \o q)[1] = y
  OBVIOUS
<1>2. \A j \in 1..(Len(q) + 1) :
        j = 1 \/ (j - 1 \in 1..Len(q) /\ (<<y>> \o q)[j] = q[j - 1])
  BY <1>1
<1>3. \A j \in 1..Len(q) : j + 1 \in 1..(Len(q) + 1)
  BY <1>1
<1>4. 1 \in 1..(Len(q) + 1)
  BY <1>1
<1>5. In(x, <<y>> \o q) => x = y \/ In(x, q)
  BY <1>1, <1>2 DEF In
<1>6. x = y \/ In(x, q) => In(x, <<y>> \o q)
  BY <1>1, <1>3, <1>4 DEF In
<1> QED
  BY <1>5, <1>6

LEMMA InEmpty ==
  ASSUME NEW S, NEW q \in Seq(S)
  PROVE  q = <<>> <=> \A x : ~In(x, q)
PROOF
<1>1. q # <<>> => 1 \in DOMAIN q
  OBVIOUS
<1> QED
  BY <1>1 DEF In

-----------------------------------------------------------------------------
(* What a step does to the stack and to the lists of a process.            *)

(* The calls below the innermost one stay, in their order, and the calls   *)
(* made come before them.                                                  *)
LEMMA ThenKeeps ==
  ASSUME calls \in Seq(Frame), calls # <<>>, NEW cs \in Seq(Frame), Then(cs)
  PROVE  /\ Len(cs) \in Nat
         /\ \A i \in DOMAIN cs : i \in DOMAIN calls' /\ calls'[i] = cs[i]
         /\ \A i \in DOMAIN calls : i # 1 =>
              /\ i \in Nat /\ i > 1
              /\ i - 1 + Len(cs) \in DOMAIN calls'
              /\ calls'[i - 1 + Len(cs)] = calls[i]
PROOF
<1>1. calls' = cs \o Tail(calls) /\ Tail(calls) \in Seq(Frame)
  BY DEF Then
<1>2. /\ Len(cs) \in Nat /\ DOMAIN cs = 1..Len(cs) /\ Len(calls) \in Nat
      /\ DOMAIN calls = 1..Len(calls)
      /\ Len(Tail(calls)) = Len(calls) - 1
      /\ \A j \in 1..(Len(calls) - 1) : Tail(calls)[j] = calls[j + 1]
  OBVIOUS
<1>3. /\ Len(calls') = Len(cs) + Len(calls) - 1
      /\ DOMAIN calls' = 1..Len(calls')
      /\ \A i \in 1..Len(calls') :
           calls'[i] = IF i <= Len(cs) THEN cs[i] ELSE Tail(calls)[i - Len(cs)]
  BY <1>1, <1>2
<1>4. \A i \in DOMAIN cs : i \in DOMAIN calls' /\ calls'[i] = cs[i]
  <2>1. Len(calls) >= 1
    OBVIOUS
  <2> QED
    BY <1>2, <1>3, <2>1
<1>5. ASSUME NEW i \in DOMAIN calls, i # 1
      PROVE  /\ i \in Nat /\ i > 1
             /\ i - 1 + Len(cs) \in DOMAIN calls'
             /\ calls'[i - 1 + Len(cs)] = calls[i]
  <2>1. i \in Nat /\ i > 1 /\ i - 1 \in 1..(Len(calls) - 1) /\ (i - 1) + 1 = i
    BY <1>2, <1>5
  <2>2. /\ i - 1 + Len(cs) \in 1..Len(calls') /\ ~(i - 1 + Len(cs) <= Len(cs))
        /\ (i - 1 + Len(cs)) - Len(cs) = i - 1
    BY <1>2, <1>3, <2>1
  <2> QED
    BY <1>2, <1>3, <2>1, <2>2
<1> QED
  BY <1>2, <1>4, <1>5

(* A message that is sent to an active process is then in its list, and    *)
(* that is all that changes in what is in it.                              *)
LEMMA AddMessageMail ==
  ASSUME TypeOK, NEW pr \in Proc, NEW msg \in Msg, NEW ok, NEW lost,
         AddMessage(pr, msg, ok, lost), NEW p \in Proc, NEW x
  PROVE  In(x, undelivered'[p]) <=>
           In(x, undelivered[p]) \/ (p = pr /\ conn[pr] = "active" /\ x = msg)
PROOF
<1>1. undelivered \in [Proc -> Seq(Msg)] /\ undelivered[pr] \in Seq(Msg)
  BY DEF TypeOK
<1>2. CASE conn[pr] # "active" /\ UNCHANGED undelivered
  BY <1>2
<1>3. ASSUME conn[pr] = "active",
             NEW i \in DOMAIN undelivered[pr], undelivered[pr][i] = msg,
             undelivered' = [undelivered EXCEPT ![pr] = Append(RemoveAt(@, i), msg)]
      PROVE  In(x, undelivered'[p]) <=>
               In(x, undelivered[p]) \/ (p = pr /\ conn[pr] = "active" /\ x = msg)
  <2>1. RemoveAt(undelivered[pr], i) \in Seq(Msg)
    BY <1>1, RemoveAtElements
  <2>2. In(x, Append(RemoveAt(undelivered[pr], i), msg)) <=>
          x = msg \/ In(x, RemoveAt(undelivered[pr], i))
    BY <2>1, InAppend
  <2>3. In(x, Append(RemoveAt(undelivered[pr], i), msg)) <=>
          x = msg \/ In(x, undelivered[pr])
    BY <1>1, <1>3, <2>2, InRemoveAt
  <2> QED
    BY <1>1, <1>3, <2>3
<1>4. ASSUME conn[pr] = "active",
             undelivered' = [undelivered EXCEPT ![pr] = Append(@, msg)]
      PROVE  In(x, undelivered'[p]) <=>
               In(x, undelivered[p]) \/ (p = pr /\ conn[pr] = "active" /\ x = msg)
  <2>1. In(x, Append(undelivered[pr], msg)) <=> x = msg \/ In(x, undelivered[pr])
    BY <1>1, InAppend
  <2> QED
    BY <1>1, <1>4, <2>1
<1> QED
  BY <1>2, <1>3, <1>4 DEF AddMessage

(* The message that the innermost call sends.                              *)
Sends(x) ==
  \/ Top.fn \in {"report", "deliver"} /\ x = Top.m
  \/ /\ Top.fn = "proc_started" /\ ptype_queue[Top.t] # <<>>
     /\ x = Head(ptype_queue[Top.t])

(* The server's steps send to active processes only, and take messages     *)
(* from those it cleans up.                                                *)
LEMMA ServerMail ==
  ASSUME TypeOK, ServerStep, NEW p \in Proc, NEW x
  PROVE  /\ In(x, undelivered'[p]) =>
              In(x, undelivered[p]) \/ (conn[p] = "active" /\ Sends(x))
         /\ In(x, undelivered[p]) =>
              In(x, undelivered'[p]) \/ (Top.fn = "orphans" /\ Top.p = p)
PROOF
<1>0. calls # <<>> /\ calls \in Seq(Frame)
  BY ServerCalls DEF TypeOK
<1>1. CASE Report
  <2>1. Top.m \in Msg /\ SenderOf[Top.m] \in Proc
    BY <1>0, <1>1, TopTypes, ConstantsAssumption DEF Report, Running, MsgCalls
  <2> DEFINE pr  == SenderOf[Top.m]
             msg == Top.m
  <2>2. Sends(msg) /\ pr \in Proc /\ msg \in Msg
    BY <1>1, <2>1 DEF Report, Running, Sends
  <2>3. PICK ok, lost : AddMessage(pr, msg, ok, lost)
    BY <1>1 DEF Report
  <2> HIDE DEF pr, msg
  <2>4. In(x, undelivered'[p]) <=>
          In(x, undelivered[p]) \/ (p = pr /\ conn[pr] = "active" /\ x = msg)
    BY <2>2, <2>3, AddMessageMail
  <2> QED
    BY <2>2, <2>4
<1>2. CASE DeliverToHandler
  <2>1. PICK pr \in Proc, msg \in Msg :
          /\ msg = Top.m /\ conn[pr] = "active" /\ Sends(msg)
          /\ AddMessage(pr, msg, <<>>, <<Top>>)
    BY <1>0, <1>2, HandlerChosen DEF Sends
  <2>2. PICK ok, lost : AddMessage(pr, msg, ok, lost)
    BY <2>1
  <2>3. In(x, undelivered'[p]) <=>
          In(x, undelivered[p]) \/ (p = pr /\ conn[pr] = "active" /\ x = msg)
    BY <2>2, AddMessageMail
  <2> QED
    BY <2>1, <2>3
<1>3. CASE ProcStarted
  <2>1. /\ Top.p \in Proc /\ Top.t \in Ptype /\ Top.fn = "proc_started"
        /\ ptype_queue[Top.t] # <<>>
    BY <1>0, <1>3, TopTypes DEF ProcStarted, Running, ProcCalls, TypeCalls
  <2>2. Head(ptype_queue[Top.t]) \in Msg
    BY <2>1 DEF TypeOK
  <2>3. PICK ok, lost : AddMessage(Top.p, Head(ptype_queue[Top.t]), ok, lost)
    BY <1>3 DEF ProcStarted
  <2> DEFINE msg == Head(ptype_queue[Top.t])
  <2>4. AddMessage(Top.p, msg, ok, lost) /\ msg \in Msg /\ Sends(msg)
    BY <2>1, <2>2, <2>3 DEF Sends
  <2> HIDE DEF msg
  <2>5. In(x, undelivered'[p]) <=>
          In(x, undelivered[p]) \/ (p = Top.p /\ conn[Top.p] = "active" /\ x = msg)
    BY <2>1, <2>4, AddMessageMail
  <2> QED
    BY <2>4, <2>5
<1>4. CASE OrphanUndelivered
  <2>1. /\ Top.p \in Proc /\ Top.fn = "orphans" /\ undelivered[Top.p] # <<>>
        /\ undelivered' = [undelivered EXCEPT ![Top.p] = Tail(@)]
    BY <1>0, <1>4, TopTypes DEF OrphanUndelivered, Running, ProcCalls
  <2>2. undelivered[Top.p] \in Seq(Msg)
    BY <2>1 DEF TypeOK
  <2>3. In(x, Tail(undelivered[Top.p])) => In(x, undelivered[Top.p])
    BY <2>1, <2>2, InTail
  <2> QED
    BY <2>1, <2>3 DEF TypeOK
<1>5. CASE UNCHANGED undelivered
  BY <1>5
<1> QED
  BY <1>1, <1>2, <1>3, <1>4, <1>5 DEF ServerStep, DeliverToNobody, NoRecipientsStart,
     StartFailed, NoRecipientsQueue, Deactivate, OrphanDelivered, OrphansDone,
     ProcStartedIdly, ProcReplied, Redeliver, Redelivered, LaunchFailed, PatternAdded,
     PatternDelivered, UpdateFinal, UpdateRejected, UpdateUnknown, procVars

(* They hand out nothing: only a process that fetches a message owes it.   *)
LEMMA TakeDeliveredWork ==
  ASSUME TypeOK, NEW pr \in Proc, NEW msg, TakeDelivered(pr, msg),
         NEW p \in Proc, NEW x
  PROVE  /\ In(x, delivered'[p]) => In(x, delivered[p])
         /\ In(x, delivered[p]) => In(x, delivered'[p]) \/ (p = pr /\ x = msg)
PROOF
<1>1. PICK i \in DOMAIN delivered[pr] :
        /\ delivered[pr][i] = msg
        /\ delivered' = [delivered EXCEPT ![pr] = RemoveAt(@, i)]
  BY DEF TakeDelivered
<1>2. delivered[pr] \in Seq(Msg)
  BY DEF TypeOK
<1>3. /\ In(x, RemoveAt(delivered[pr], i)) => In(x, delivered[pr])
      /\ In(x, delivered[pr]) /\ x # msg => In(x, RemoveAt(delivered[pr], i))
  BY <1>1, <1>2, InRemoveAt
<1> QED
  BY <1>1, <1>3 DEF TypeOK

LEMMA ServerWork ==
  ASSUME TypeOK, ServerStep, NEW p \in Proc, NEW x
  PROVE  In(x, delivered'[p]) => In(x, delivered[p])
PROOF
<1>0. calls # <<>> /\ calls \in Seq(Frame)
  BY ServerCalls DEF TypeOK
<1>1. CASE OrphanDelivered
  <2>1. /\ Top.p \in Proc /\ delivered[Top.p] # <<>>
        /\ delivered' = [delivered EXCEPT ![Top.p] = Tail(@)]
    BY <1>0, <1>1, TopTypes DEF OrphanDelivered, Running, ProcCalls
  <2>2. delivered[Top.p] \in Seq(Msg)
    BY <2>1 DEF TypeOK
  <2>3. In(x, Tail(delivered[Top.p])) => In(x, delivered[Top.p])
    BY <2>1, <2>2, InTail
  <2> QED
    BY <2>1, <2>3 DEF TypeOK
<1>2. CASE UpdateFinal \/ UpdateRejected
  <2>1. Top.p \in Proc /\ TakeDelivered(Top.p, Top.m)
    BY <1>0, <1>2, TopTypes DEF UpdateFinal, UpdateRejected, Running, ProcCalls
  <2> QED
    BY <2>1, TakeDeliveredWork
<1>3. CASE UNCHANGED delivered
  BY <1>3
<1> QED
  BY <1>1, <1>2, <1>3 DEF ServerStep, Report, DeliverToHandler, DeliverToNobody,
     NoRecipientsStart, StartFailed, NoRecipientsQueue, Deactivate, OrphanUndelivered,
     OrphansDone, ProcStarted, ProcStartedIdly, ProcReplied, Redeliver, Redelivered,
     LaunchFailed, PatternAdded, PatternDelivered, UpdateUnknown, procVars

(* A process fetches its messages while it is active.                      *)
LEMMA OutsideMail ==
  ASSUME TypeOK, Outside, NEW p \in Proc, NEW x
  PROVE  /\ In(x, undelivered'[p]) => In(x, undelivered[p])
         /\ In(x, undelivered[p]) =>
              In(x, undelivered'[p]) \/ (NextMessage(p) /\ x = Head(undelivered[p]))
         /\ In(x, delivered[p]) => In(x, delivered'[p])
         /\ In(x, delivered'[p]) =>
              \/ In(x, delivered[p])
              \/ /\ NextMessage(p) /\ x = Head(undelivered[p])
                 /\ Processing(p, x)
PROOF
<1>1. ASSUME NEW pr \in Proc, NextMessage(pr)
      PROVE  /\ In(x, undelivered'[p]) => In(x, undelivered[p])
             /\ In(x, undelivered[p]) =>
                  \/ In(x, undelivered'[p])
                  \/ NextMessage(p) /\ x = Head(undelivered[p])
             /\ In(x, delivered[p]) => In(x, delivered'[p])
             /\ In(x, delivered'[p]) =>
                  \/ In(x, delivered[p])
                  \/ /\ NextMessage(p) /\ x = Head(undelivered[p])
                     /\ Processing(p, x)
  <2> DEFINE msg == Head(undelivered[pr])
  <2>1. /\ undelivered[pr] # <<>>
        /\ undelivered' = [undelivered EXCEPT ![pr] = Tail(@)]
        /\ \/ UNCHANGED delivered
           \/ /\ Processing(pr, msg)
              /\ delivered' = [delivered EXCEPT ![pr] = <<msg>> \o @]
    BY <1>1 DEF NextMessage
  <2>2. undelivered[pr] \in Seq(Msg) /\ delivered[pr] \in Seq(Msg) /\ msg \in Msg
    BY <2>1 DEF TypeOK
  <2> HIDE DEF msg
  <2>3. /\ In(x, Tail(undelivered[pr])) => In(x, undelivered[pr])
        /\ In(x, undelivered[pr]) /\ x # Head(undelivered[pr])
             => In(x, Tail(undelivered[pr]))
    BY <2>1, <2>2, InTail
  <2>4. In(x, <<msg>> \o delivered[pr]) <=> x = msg \/ In(x, delivered[pr])
    BY <2>2, InCons
  <2>5. /\ In(x, undelivered'[p]) => In(x, undelivered[p])
        /\ In(x, undelivered[p]) =>
             \/ In(x, undelivered'[p])
             \/ p = pr /\ x = Head(undelivered[p])
    BY <2>1, <2>3 DEF TypeOK
  <2>6. /\ In(x, delivered[p]) => In(x, delivered'[p])
        /\ In(x, delivered'[p]) =>
             \/ In(x, delivered[p])
             \/ p = pr /\ x = msg /\ Processing(p, x)
    BY <2>1, <2>4 DEF TypeOK
  <2> QED
    BY <1>1, <2>5, <2>6 DEF msg
<1>2. CASE UNCHANGED <<undelivered, delivered>>
  BY <1>2
<1> QED
  BY <1>1, <1>2, OutsideProcs

-----------------------------------------------------------------------------
(* What a process leaves behind.                                           *)

Distinct(ps) == \A i, j \in DOMAIN ps : ps[i].owner = ps[j].owner => i = j
Owns(pr, ps) == \E i \in DOMAIN ps : ps[i].owner = pr

OnePattern == \A op \in Op : Distinct(patterns[op])

LEMMA WithoutOwner ==
  ASSUME NEW ps \in Seq(Pattern), Distinct(ps), NEW pr
  PROVE  /\ Distinct(Without(ps, pr))
         /\ \A p : Owns(p, Without(ps, pr)) => Owns(p, ps) /\ p # pr
PROOF
<1>1. CASE \E i \in DOMAIN ps : ps[i].owner = pr
  <2> DEFINE i == CHOOSE i \in DOMAIN ps : ps[i].owner = pr
  <2>1. i \in DOMAIN ps /\ ps[i].owner = pr /\ Without(ps, pr) = RemoveAt(ps, i)
    BY <1>1 DEF Without
  <2> HIDE DEF i
  <2>2. Len(ps) \in Nat /\ DOMAIN ps = 1..Len(ps) /\ i \in Nat
    BY <2>1
  <2> DEFINE qs == RemoveAt(ps, i)
  <2>3. /\ DOMAIN qs = 1..(Len(ps) - 1)
        /\ \A j \in 1..(Len(ps) - 1) : qs[j] = IF j < i THEN ps[j] ELSE ps[j + 1]
    BY <2>1, RemoveAtElements
  <2> HIDE DEF qs
  <2>4. ASSUME NEW j \in DOMAIN qs
        PROVE  \E k \in DOMAIN ps : /\ qs[j] = ps[k] /\ k # i
                                    /\ k = IF j < i THEN j ELSE j + 1
    <3>1. CASE j < i
      BY <2>2, <2>3, <3>1
    <3>2. CASE ~(j < i)
      <4>1. j + 1 \in DOMAIN ps /\ j + 1 # i /\ qs[j] = ps[j + 1]
        BY <2>2, <2>3, <3>2
      <4> QED
        BY <3>2, <4>1
    <3> QED
      BY <3>1, <3>2
  <2>5. ASSUME NEW j \in DOMAIN qs, NEW k \in DOMAIN qs, qs[j].owner = qs[k].owner
        PROVE  j = k
    <3>1. PICK jj \in DOMAIN ps : /\ qs[j] = ps[jj]
                                  /\ jj = IF j < i THEN j ELSE j + 1
      BY <2>4
    <3>2. PICK kk \in DOMAIN ps : /\ qs[k] = ps[kk]
                                  /\ kk = IF k < i THEN k ELSE k + 1
      BY <2>4
    <3>3. jj = kk
      BY <2>5, <3>1, <3>2 DEF Distinct
    <3>4. j \in Nat /\ k \in Nat
      BY <2>2, <2>3
    <3> QED
      BY <3>1, <3>2, <3>3, <3>4, <2>2
  <2>6. \A p : Owns(p, qs) => Owns(p, ps) /\ p # pr
    <3> SUFFICES ASSUME NEW p, NEW j \in DOMAIN qs, qs[j].owner = p
                 PROVE  Owns(p, ps) /\ p # pr
      BY DEF Owns
    <3>1. PICK k \in DOMAIN ps : qs[j] = ps[k] /\ k # i
      BY <2>4
    <3> QED
      BY <2>1, <3>1 DEF Distinct, Owns
  <2>7. Distinct(qs)
    BY <2>5 DEF Distinct
  <2> QED
    BY <2>1, <2>6, <2>7 DEF qs
<1>2. CASE ~\E i \in DOMAIN ps : ps[i].owner = pr
  BY <1>2 DEF Without, Owns
<1> QED
  BY <1>1, <1>2

(* The server only removes patterns, those of a process it cleaned up.     *)
LEMMA ServerPatterns ==
  ASSUME TypeOK, OnePattern, ServerStep
  PROVE  /\ OnePattern'
         /\ \A op \in Op : \A p : Owns(p, patterns'[op]) => Owns(p, patterns[op])
         /\ OrphansDone => \A op \in Op : ~Owns(Top.p, patterns'[op])
PROOF
<1>1. CASE OrphansDone
  <2>1. \A op \in Op : patterns[op] \in Seq(Pattern) /\ Distinct(patterns[op])
    BY DEF TypeOK, OnePattern
  <2>2. \A op \in Op : patterns'[op] = Without(patterns[op], Top.p)
    BY <1>1 DEF OrphansDone
  <2>3. \A op \in Op :
          /\ Distinct(Without(patterns[op], Top.p))
          /\ \A p : Owns(p, Without(patterns[op], Top.p)) =>
                      Owns(p, patterns[op]) /\ p # Top.p
    BY <2>1, WithoutOwner
  <2> QED
    BY <2>2, <2>3 DEF OnePattern
<1>2. CASE ~OrphansDone
  <2>1. UNCHANGED patterns
    BY <1>2 DEF ServerStep, Report, DeliverToHandler, DeliverToNobody, NoRecipientsStart,
       StartFailed, NoRecipientsQueue, Deactivate, OrphanUndelivered, OrphanDelivered,
       ProcStarted, ProcStartedIdly, ProcReplied, Redeliver, Redelivered, LaunchFailed,
       PatternAdded, PatternDelivered, UpdateFinal, UpdateRejected, UpdateUnknown
  <2> QED
    BY <1>2, <2>1 DEF OnePattern
<1> QED
  BY <1>1, <1>2

(* A process registers at most one pattern for an op, while it is active.  *)
LEMMA OutsidePatterns ==
  ASSUME TypeOK, OnePattern, Outside
  PROVE  /\ OnePattern'
         /\ \A op \in Op : \A p : Owns(p, patterns'[op]) =>
              Owns(p, patterns[op]) \/ conn[p] = "active"
PROOF
<1>a. \A op \in Op : patterns[op] \in Seq(Pattern) /\ Distinct(patterns[op])
  BY DEF TypeOK, OnePattern
<1>1. ASSUME NEW pr \in Proc, NEW ops, NEW pat \in Pattern, pat.owner = pr,
             conn[pr] = "active", \A op \in ops \intersect Op : ~Registered(pr, op),
             Register(pr, ops, pat)
      PROVE  /\ OnePattern'
             /\ \A op \in Op : \A p : Owns(p, patterns'[op]) =>
                  Owns(p, patterns[op]) \/ conn[p] = "active"
  <2> SUFFICES ASSUME NEW op \in Op
               PROVE  /\ Distinct(patterns'[op])
                      /\ \A p : Owns(p, patterns'[op]) =>
                           Owns(p, patterns[op]) \/ conn[p] = "active"
    BY DEF OnePattern
  <2>1. CASE op \in ops
    <3> DEFINE ps == patterns[op]
               qs == <<pat>> \o ps
    <3>1. ps \in Seq(Pattern) /\ Distinct(ps)
      BY <1>a
    <3>2. \A i \in DOMAIN ps : ps[i].owner # pr
      <4>1. \A i \in DOMAIN ps : ps[i] \in Pattern
        BY <3>1
      <4>2. \A i \in DOMAIN ps : ps[i].dynamic \in BOOLEAN
        BY <4>1 DEF Pattern
      <4> QED
        BY <1>1, <2>1, <4>2 DEF Registered, HasPattern
    <3>3. patterns'[op] = qs
      BY <1>1, <2>1 DEF Register
    <3> HIDE DEF ps
    <3>4. /\ Len(ps) \in Nat /\ DOMAIN ps = 1..Len(ps)
          /\ DOMAIN qs = 1..(Len(ps) + 1)
          /\ qs[1] = pat
          /\ \A j \in 1..(Len(ps) + 1) :
               j = 1 \/ (j - 1 \in 1..Len(ps) /\ qs[j] = ps[j - 1])
      BY <3>1
    <3> HIDE DEF qs
    <3>5. Distinct(qs)
      <4> SUFFICES ASSUME NEW i \in DOMAIN qs, NEW j \in DOMAIN qs,
                          qs[i].owner = qs[j].owner
                   PROVE  i = j
        BY DEF Distinct
      <4>1. i \in Nat /\ j \in Nat
        BY <3>4
      <4>2. CASE i = 1 \/ j = 1
        BY <1>1, <3>2, <3>4, <4>2
      <4>3. CASE i # 1 /\ j # 1
        <5>1. /\ i - 1 \in DOMAIN ps /\ qs[i] = ps[i - 1]
              /\ j - 1 \in DOMAIN ps /\ qs[j] = ps[j - 1]
          BY <3>4, <4>3
        <5>2. i - 1 = j - 1
          BY <3>1, <5>1 DEF Distinct
        <5> QED
          BY <4>1, <5>2
      <4> QED
        BY <4>2, <4>3
    <3>6. \A p : Owns(p, qs) => Owns(p, ps) \/ p = pr
      BY <1>1, <3>4 DEF Owns
    <3> QED
      BY <1>1, <3>3, <3>5, <3>6 DEF ps
  <2>2. CASE op \notin ops
    BY <1>1, <1>a, <2>2 DEF Register
  <2> QED
    BY <2>1, <2>2
<1>2. ASSUME NEW pr \in Proc, NEW ops, NEW dyn, Unregister(pr, ops, dyn)
      PROVE  /\ OnePattern'
             /\ \A op \in Op : \A p : Owns(p, patterns'[op]) =>
                  Owns(p, patterns[op]) \/ conn[p] = "active"
  <2>1. \A op \in Op :
          /\ Distinct(Without(patterns[op], pr))
          /\ \A p : Owns(p, Without(patterns[op], pr)) => Owns(p, patterns[op])
    BY <1>a, WithoutOwner
  <2>2. \A op \in Op : patterns'[op] \in {Without(patterns[op], pr), patterns[op]}
    BY <1>2 DEF Unregister
  <2> QED
    BY <1>a, <2>1, <2>2 DEF OnePattern
<1>3. ASSUME NEW pr \in Proc, NEW on \in BOOLEAN, SetSession(pr, on)
      PROVE  /\ OnePattern'
             /\ \A op \in Op : \A p : Owns(p, patterns'[op]) =>
                  Owns(p, patterns[op]) \/ conn[p] = "active"
  <2> SUFFICES ASSUME NEW op \in Op
               PROVE  /\ Distinct(patterns'[op])
                      /\ \A p : Owns(p, patterns'[op]) => Owns(p, patterns[op])
    BY DEF OnePattern
  <2>1. /\ DOMAIN patterns'[op] = DOMAIN patterns[op]
        /\ \A i \in DOMAIN patterns[op] :
             patterns'[op][i] \in {patterns[op][i],
                                   [patterns[op][i] EXCEPT !.session = on]}
    BY <1>3 DEF SetSession
  <2>2. \A i \in DOMAIN patterns[op] : patterns[op][i] \in Pattern
    BY <1>a
  <2>3. \A pat \in Pattern : [pat EXCEPT !.session = on].owner = pat.owner
    BY DEF Pattern
  <2>4. \A i \in DOMAIN patterns[op] : patterns'[op][i].owner = patterns[op][i].owner
    BY <2>1, <2>2, <2>3
  <2> QED
    BY <1>a, <2>1, <2>4 DEF Distinct, Owns
<1>4. ASSUME NEW pr \in Proc, PatternRequest(pr)
      PROVE  /\ OnePattern'
             /\ \A op \in Op : \A p : Owns(p, patterns'[op]) =>
                  Owns(p, patterns[op]) \/ conn[p] = "active"
  <2>1. ASSUME NEW session \in BOOLEAN, NEW dynamic \in BOOLEAN
        PROVE  /\ [owner |-> pr, session |-> session, dynamic |-> dynamic] \in Pattern
               /\ [owner |-> pr, session |-> session, dynamic |-> dynamic].owner = pr
    BY DEF Pattern
  <2>2. conn[pr] = "active"
    BY <1>4 DEF PatternRequest, JoinSession, QuitSession, DeclarePtype, UndeclarePtype,
       AddPattern, DelPattern, Client, HasPattern
  <2>3. CASE JoinSession(pr) \/ QuitSession(pr)
    BY <1>3, <2>3 DEF JoinSession, QuitSession
  <2>4. ASSUME NEW pt \in Ptype, DeclarePtype(pr, pt)
        PROVE  /\ OnePattern'
               /\ \A op \in Op : \A p : Owns(p, patterns'[op]) =>
                    Owns(p, patterns[op]) \/ conn[p] = "active"
    BY <1>1, <2>1, <2>2, <2>4 DEF DeclarePtype
  <2>5. ASSUME NEW op \in Op, AddPattern(pr, op)
        PROVE  /\ OnePattern'
               /\ \A o \in Op : \A p : Owns(p, patterns'[o]) =>
                    Owns(p, patterns[o]) \/ conn[p] = "active"
    <3> DEFINE pat == [owner |-> pr, session |-> TRUE, dynamic |-> TRUE]
               ops == {op}
    <3>1. pat \in Pattern /\ pat.owner = pr
      BY <2>1
    <3>2. Register(pr, ops, pat) /\ \A o \in ops \intersect Op : ~Registered(pr, o)
      BY <2>5 DEF AddPattern
    <3> HIDE DEF pat, ops
    <3> QED
      BY <1>1, <2>2, <3>1, <3>2
  <2>6. ASSUME NEW pt \in Ptype, UndeclarePtype(pr, pt)
        PROVE  /\ OnePattern'
               /\ \A op \in Op : \A p : Owns(p, patterns'[op]) =>
                    Owns(p, patterns[op]) \/ conn[p] = "active"
    BY <1>2, <2>6 DEF UndeclarePtype
  <2>7. ASSUME NEW op \in Op, DelPattern(pr, op)
        PROVE  /\ OnePattern'
               /\ \A o \in Op : \A p : Owns(p, patterns'[o]) =>
                    Owns(p, patterns[o]) \/ conn[p] = "active"
    BY <1>2, <2>7 DEF DelPattern
  <2> QED
    BY <1>4, <2>3, <2>4, <2>5, <2>6, <2>7 DEF PatternRequest
<1>5. CASE UNCHANGED patterns
  BY <1>5 DEF OnePattern
<1> QED
  BY <1>4, <1>5, OnlyPatternRequests

(* Nothing is left of a process: no message for it or on its answer, no    *)
(* pattern.                                                                *)
NothingOf(pr) ==
  /\ undelivered[pr] = <<>> /\ delivered[pr] = <<>>
  /\ \A op \in Op : ~Owns(pr, patterns[op])

CleaningUp(pr) ==
  \E i \in DOMAIN calls : calls[i].fn = "orphans" /\ calls[i].p = pr

(* A process that is gone has left nothing, or is being cleaned up.        *)
CleanedUp ==
  \A pr \in Proc : conn[pr] # "active" =>
    NothingOf(pr) \/ (conn[pr] = "inactive" /\ CleaningUp(pr))

LEMMA NothingComes ==
  ASSUME TypeOK, TypeOK', OnePattern, ServerStep \/ Outside,
         NEW pr \in Proc, conn[pr] # "active", NothingOf(pr)
  PROVE  NothingOf(pr)'
PROOF
<1>1. /\ \A x : ~In(x, undelivered[pr])
      /\ \A x : ~In(x, delivered[pr])
      /\ undelivered[pr] = <<>>
  BY InEmpty DEF NothingOf, TypeOK
<1>2. ASSUME ServerStep
      PROVE  /\ \A x : ~In(x, undelivered'[pr]) /\ ~In(x, delivered'[pr])
             /\ \A op \in Op : ~Owns(pr, patterns'[op])
  BY <1>1, <1>2, ServerMail, ServerWork, ServerPatterns DEF NothingOf
<1>3. ASSUME Outside
      PROVE  /\ \A x : ~In(x, undelivered'[pr]) /\ ~In(x, delivered'[pr])
             /\ \A op \in Op : ~Owns(pr, patterns'[op])
  <2>1. ~NextMessage(pr)
    BY <1>1 DEF NextMessage
  <2> QED
    BY <1>1, <1>3, <2>1, OutsideMail, OutsidePatterns DEF NothingOf
<1>4. /\ undelivered'[pr] = <<>> <=> \A x : ~In(x, undelivered'[pr])
      /\ delivered'[pr] = <<>> <=> \A x : ~In(x, delivered'[pr])
  BY InEmpty DEF TypeOK
<1> QED
  BY <1>2, <1>3, <1>4 DEF NothingOf

(* A call stays on the stack until it is the innermost one.                *)
LEMMA CallsStay ==
  ASSUME TypeOK, ServerStep, NEW i \in DOMAIN calls, i # 1
  PROVE  \E j \in DOMAIN calls' : calls'[j] = calls[i]
PROOF
<1>1. PICK cs : Pushes(cs) /\ Then(cs)
  BY ServerCalls
<1>2. calls # <<>> /\ calls \in Seq(Frame) /\ cs \in Seq(Frame)
  BY <1>1, ServerCalls DEF TypeOK, Pushes
<1> QED
  BY <1>1, <1>2, ThenKeeps

(* While it handles the messages of a process the server stays in the      *)
(* cleanup of it.                                                          *)
LEMMA StillCleaning ==
  ASSUME TypeOK, ServerStep, NEW pr \in Proc, CleaningUp(pr)
  PROVE  CleaningUp(pr)' \/ (OrphansDone /\ Top.p = pr)
PROOF
<1>0. calls # <<>> /\ calls \in Seq(Frame)
  BY ServerCalls DEF TypeOK
<1>1. PICK i \in DOMAIN calls : calls[i].fn = "orphans" /\ calls[i].p = pr
  BY DEF CleaningUp
<1>2. CASE i # 1
  BY <1>1, <1>2, CallsStay DEF CleaningUp
<1>3. CASE i = 1
  <2>1. Top.fn = "orphans" /\ Top.p = pr /\ Top \in Frame
    BY <1>0, <1>1, <1>3, TopTypes DEF Top
  <2>2. OrphanUndelivered \/ OrphanDelivered \/ OrphansDone
    BY <2>1 DEF ServerStep, Report, DeliverToHandler, DeliverToNobody, NoHandler,
       NoRecipientsStart, StartFailed, NoRecipientsQueue, Deactivate, ProcStarted,
       ProcStartedIdly, ProcReplied, Redeliver, Redelivered, LaunchFailed, PatternAdded,
       PatternDelivered, UpdateFinal, UpdateRejected, UpdateUnknown, Running
  <2>3. ASSUME NEW msg \in Msg, Finish(msg, "FAILED", <<Top>>) \/ Then(<<Top>>)
        PROVE  CleaningUp(pr)'
    <3>1. CASE Then(<<Top>>)
      <4> DEFINE cs == <<Top>>
      <4>1. cs \in Seq(Frame) /\ 1 \in DOMAIN cs /\ cs[1] = Top /\ Then(cs)
        BY <2>1, <3>1
      <4> HIDE DEF cs
      <4>2. 1 \in DOMAIN calls' /\ calls'[1] = Top
        BY <1>0, <4>1, ThenKeeps
      <4> QED
        BY <2>1, <4>2 DEF CleaningUp
    <3>2. CASE ~Then(<<Top>>)
      <4> DEFINE cs == <<OnMsg("report", msg)>> \o <<Top>>
      <4>1. OnMsg("report", msg) \in Frame
        BY Frames
      <4>2. cs \in Seq(Frame) /\ 2 \in DOMAIN cs /\ cs[2] = Top
        BY <2>1, <4>1
      <4>3. Then(cs)
        BY <2>3, <3>2 DEF Finish
      <4> HIDE DEF cs
      <4>4. 2 \in DOMAIN calls' /\ calls'[2] = Top
        BY <1>0, <4>2, <4>3, ThenKeeps
      <4> QED
        BY <2>1, <4>4 DEF CleaningUp
    <3> QED
      BY <3>1, <3>2
  <2>4. CASE OrphanUndelivered
    <3>1. Head(undelivered[Top.p]) \in Msg
      BY <2>1, <2>4 DEF OrphanUndelivered, TypeOK
    <3> QED
      BY <2>3, <2>4, <3>1 DEF OrphanUndelivered
  <2>5. CASE OrphanDelivered
    <3>1. Head(delivered[Top.p]) \in Msg
      BY <2>1, <2>5 DEF OrphanDelivered, TypeOK
    <3> QED
      BY <2>3, <2>5, <3>1 DEF OrphanDelivered
  <2> QED
    BY <2>1, <2>2, <2>4, <2>5
<1> QED
  BY <1>2, <1>3

(* Who becomes inactive is cleaned up from then on; nobody becomes active  *)
(* by a step of the server.                                                *)
LEMMA ServerConn ==
  ASSUME TypeOK, ServerStep, NEW pr \in Proc
  PROVE  \/ conn'[pr] = conn[pr]
         \/ conn[pr] = "active" /\ conn'[pr] = "inactive" /\ CleaningUp(pr)'
PROOF
<1>0. calls # <<>> /\ calls \in Seq(Frame)
  BY ServerCalls DEF TypeOK
<1>1. CASE Deactivate
  <2>1. Top.p \in Proc
    BY <1>0, <1>1, TopTypes DEF Deactivate, Running, ProcCalls
  <2>2. CASE conn[Top.p] = "active"
    <3> DEFINE cs == <<OnProc("orphans", Top.p)>>
    <3>1. /\ cs \in Seq(Frame) /\ 1 \in DOMAIN cs
          /\ cs[1].fn = "orphans" /\ cs[1].p = Top.p
      BY <2>1, Frames
    <3>2. Then(cs) /\ conn' = [conn EXCEPT ![Top.p] = "inactive"]
      BY <1>1, <2>2 DEF Deactivate
    <3> HIDE DEF cs
    <3>3. 1 \in DOMAIN calls' /\ calls'[1] = cs[1]
      BY <1>0, <3>1, <3>2, ThenKeeps
    <3>4. CASE pr = Top.p
      <4>1. conn[pr] = "active" /\ conn'[pr] = "inactive"
        BY <2>2, <3>2, <3>4 DEF TypeOK
      <4>2. CleaningUp(pr)'
        BY <3>1, <3>3, <3>4 DEF CleaningUp
      <4> QED
        BY <4>1, <4>2
    <3>5. CASE pr # Top.p
      BY <3>2, <3>5 DEF TypeOK
    <3> QED
      BY <3>4, <3>5
  <2>3. CASE conn[Top.p] # "active"
    BY <1>1, <2>3 DEF Deactivate
  <2> QED
    BY <2>2, <2>3
<1>2. CASE UNCHANGED conn
  BY <1>2
<1> QED
  BY <1>1, <1>2 DEF ServerStep, Report, DeliverToHandler, DeliverToNobody,
     NoRecipientsStart, StartFailed, NoRecipientsQueue, OrphanUndelivered,
     OrphanDelivered, OrphansDone, ProcStarted, ProcStartedIdly, ProcReplied, Redeliver,
     Redelivered, LaunchFailed, PatternAdded, PatternDelivered, UpdateFinal,
     UpdateRejected, UpdateUnknown, procVars

(* Requests only make a process active, and leave the stack alone unless   *)
(* it is empty.                                                            *)
LEMMA OutsideConn ==
  ASSUME TypeOK, Outside, NEW pr \in Proc
  PROVE  conn'[pr] = conn[pr] \/ (Connect(pr) /\ conn'[pr] = "active")
PROOF
<1>1. UNCHANGED conn \/ \E p \in Proc : Connect(p)
  BY OutsideProcs
<1> QED
  BY <1>1 DEF Connect, TypeOK

LEMMA NextCleansUp ==
  ASSUME TypeOK, TypeOK', StartsHavePtype, OnePattern, CleanedUp,
         ServerStep \/ Outside
  PROVE  OnePattern' /\ CleanedUp'
PROOF
<1>1. OnePattern'
  BY ServerPatterns, OutsidePatterns
<1>2. ASSUME NEW pr \in Proc, conn'[pr] # "active", ServerStep
      PROVE  NothingOf(pr)' \/ (conn'[pr] = "inactive" /\ CleaningUp(pr)')
  <2>1. CASE conn[pr] = "active"
    BY <1>2, <2>1, ServerConn
  <2>2. CASE conn[pr] # "active" /\ NothingOf(pr)
    BY <2>2, NothingComes
  <2>3. CASE conn[pr] = "inactive" /\ CleaningUp(pr)
    <3>1. conn'[pr] = "inactive"
      BY <1>2, <2>3, ServerConn
    <3>2. ASSUME OrphansDone, Top.p = pr
          PROVE  NothingOf(pr)'
      <4>1. undelivered'[pr] = <<>> /\ delivered'[pr] = <<>>
        BY <3>2 DEF OrphansDone, procVars
      <4>2. \A op \in Op : ~Owns(pr, patterns'[op])
        BY <1>2, <3>2, ServerPatterns
      <4> QED
        BY <4>1, <4>2 DEF NothingOf
    <3> QED
      BY <1>2, <2>3, <3>1, <3>2, StillCleaning
  <2> QED
    BY <2>1, <2>2, <2>3 DEF CleanedUp
<1>3. ASSUME NEW pr \in Proc, conn'[pr] # "active", Outside
      PROVE  NothingOf(pr)' \/ (conn'[pr] = "inactive" /\ CleaningUp(pr)')
  <2>1. conn'[pr] = conn[pr]
    BY <1>3, OutsideConn
  <2>2. CASE NothingOf(pr)
    BY <1>3, <2>1, <2>2, NothingComes
  <2>3. CASE conn[pr] = "inactive" /\ CleaningUp(pr)
    <3>1. ~Idle
      BY <2>3 DEF CleaningUp, Idle
    <3>2. UNCHANGED calls
      BY <1>3, <3>1, OutsideCalls
    <3> QED
      BY <2>1, <2>3, <3>2 DEF CleaningUp
  <2> QED
    BY <1>3, <2>1, <2>2, <2>3 DEF CleanedUp
<1>4. CleanedUp'
  BY <1>2, <1>3 DEF CleanedUp
<1> QED
  BY <1>1, <1>4

-----------------------------------------------------------------------------
(* Who was asked to handle a request.                                      *)

(* Only processes that have been active were asked or have rejected.       *)
Asked(pr, msg) == handler[msg] = pr \/ pr \in tried[msg]

AskedKnown == \A msg \in Msg, pr \in Proc : Asked(pr, msg) => conn[pr] # "none"

(* A process that reports that it started was never asked: the server does *)
(* nothing else before it gives the process its start message.             *)
StartedAlone ==
  \A i \in DOMAIN calls : calls[i].fn = "proc_started" =>
    /\ Len(calls) = 1
    /\ conn[calls[i].p] = "active"
    /\ \A msg \in Msg : ~Asked(calls[i].p, msg)

LEMMA NoProcStarted ==
  ASSUME TypeOK, StartedAlone, ServerStep
  PROVE  \A i \in DOMAIN calls' : calls'[i].fn # "proc_started"
PROOF
<1>1. PICK cs : Pushes(cs) /\ Then(cs)
  BY ServerCalls
<1>2. calls # <<>> /\ calls \in Seq(Frame) /\ cs \in Seq(Frame)
  BY <1>1, ServerCalls DEF TypeOK, Pushes
<1>3. \A i \in DOMAIN calls' :
        \/ i \in DOMAIN cs /\ calls'[i] = cs[i]
        \/ \E j \in DOMAIN calls : j # 1 /\ calls'[i] = calls[j]
  BY <1>1, <1>2, ThenElements
<1>4. \A j \in DOMAIN calls : j # 1 => Len(calls) # 1
  BY <1>2
<1> QED
  BY <1>1, <1>3, <1>4 DEF Pushes, StartedAlone

(* What a step of the server does to the handler of a request and to those *)
(* that have rejected it.                                                  *)
LEMMA ServerAsks ==
  ASSUME TypeOK, AskedKnown, StartedAlone, RejectedStaysRejected, ServerStep
  PROVE  /\ RejectedStaysRejected'
         /\ \A msg \in Msg, pr \in Proc :
              Asked(pr, msg)' => Asked(pr, msg) \/ conn[pr] = "active"
PROOF
<1>0. calls # <<>> /\ calls \in Seq(Frame)
  BY ServerCalls DEF TypeOK
<1>1. CASE DeliverToHandler
  <2>1. PICK pr \in Proc, msg \in Msg :
          /\ conn[pr] = "active" /\ pr \notin tried[msg]
          /\ handler' = [handler EXCEPT ![msg] = pr]
    BY <1>0, <1>1, HandlerChosen
  <2>2. UNCHANGED tried
    BY <1>1 DEF DeliverToHandler
  <2>3. /\ handler'[msg] = pr
        /\ \A m \in Msg : m # msg => handler'[m] = handler[m]
    <3>1. handler \in [Msg -> Proc \union {NoProc}]
      BY DEF TypeOK
    <3> QED
      BY <2>1, <3>1
  <2>4. RejectedStaysRejected'
    BY <2>1, <2>2, <2>3 DEF RejectedStaysRejected
  <2>5. \A m \in Msg, p \in Proc : Asked(p, m)' => Asked(p, m) \/ conn[p] = "active"
    BY <2>1, <2>2, <2>3 DEF Asked
  <2> QED
    BY <2>4, <2>5
<1>2. CASE ProcStarted
  <2>1. /\ Top = calls[1] /\ 1 \in DOMAIN calls /\ Top.p \in Proc
        /\ Top.fn = "proc_started" /\ ptype_queue[Top.t] # <<>> /\ Top.t \in Ptype
    BY <1>0, <1>2, TopTypes DEF ProcStarted, Running, ProcCalls, TypeCalls, Top
  <2>2. conn[Top.p] = "active" /\ \A msg \in Msg : Top.p \notin tried[msg]
    BY <2>1 DEF StartedAlone, Asked
  <2> DEFINE msg == Head(ptype_queue[Top.t])
  <2>3. msg \in Msg
    BY <2>1 DEF TypeOK
  <2>4. handler' = [handler EXCEPT ![msg] = Top.p] /\ UNCHANGED tried
    BY <1>2 DEF ProcStarted
  <2> HIDE DEF msg
  <2> QED
    BY <2>2, <2>3, <2>4 DEF TypeOK, RejectedStaysRejected, Asked
<1>3. CASE OrphanUndelivered \/ OrphanDelivered
  <2>1. Top.p \in Proc
    BY <1>0, <1>3, TopTypes DEF OrphanUndelivered, OrphanDelivered, Running, ProcCalls
  <2>2. PICK msg : tried' = [tried EXCEPT ![msg] = @ \ {Top.p}] /\ UNCHANGED handler
    BY <1>3 DEF OrphanUndelivered, OrphanDelivered
  <2>3. \A m \in Msg : tried'[m] \subseteq tried[m]
    BY <2>2 DEF TypeOK
  <2> QED
    BY <2>2, <2>3 DEF RejectedStaysRejected, Asked
<1>4. CASE UpdateRejected
  <2>1. Top.m \in Msg
    BY <1>0, <1>4, TopTypes DEF UpdateRejected, Running, MsgCalls
  <2>2. CASE handler[Top.m] = NoProc
    BY <1>4, <2>2 DEF UpdateRejected, RejectedStaysRejected, Asked
  <2>3. CASE handler[Top.m] # NoProc
    <3>1. /\ tried' = [tried EXCEPT ![Top.m] = @ \union {handler[Top.m]}]
          /\ handler' = [handler EXCEPT ![Top.m] = NoProc]
      BY <1>4, <2>3 DEF UpdateRejected
    <3> QED
      BY <2>1, <3>1, ConstantsAssumption DEF TypeOK, RejectedStaysRejected, Asked
  <2> QED
    BY <2>2, <2>3
<1>5. CASE UNCHANGED <<handler, tried>>
  BY <1>5 DEF RejectedStaysRejected, Asked
<1> QED
  BY <1>1, <1>2, <1>3, <1>4, <1>5 DEF ServerStep, Report, DeliverToNobody,
     NoRecipientsStart, StartFailed, NoRecipientsQueue, Deactivate, OrphansDone,
     ProcStartedIdly, ProcReplied, Redeliver, Redelivered, LaunchFailed, PatternAdded,
     PatternDelivered, UpdateFinal, UpdateUnknown, msgVars

LEMMA OutsideAsks ==
  ASSUME Outside
  PROVE  UNCHANGED <<handler, tried>>
PROOF
  BY OutsideLeaves

(* Only a process that connects reports that it started.                   *)
LEMMA OutsideStarted ==
  ASSUME TypeOK, Outside
  PROVE  \/ UNCHANGED calls
         \/ /\ Idle
            /\ \A i \in DOMAIN calls' : calls'[i].fn = "proc_started" =>
                 /\ Len(calls') = 1 /\ calls'[i].p \in Proc
                 /\ Connect(calls'[i].p)
PROOF
<1>1. ASSUME NEW pr \in Proc, Connect(pr)
      PROVE  /\ Idle
             /\ \A i \in DOMAIN calls' : calls'[i].fn = "proc_started" =>
                  /\ Len(calls') = 1 /\ calls'[i].p \in Proc
                  /\ Connect(calls'[i].p)
  <2> DEFINE f == [OnProc("proc_started", pr) EXCEPT !.t = start_token[pr]]
  <2>1. f.p = pr
    BY DEF OnProc, Call
  <2>2. calls' = <<>> \/ calls' = <<f>>
    BY <1>1 DEF Connect
  <2> HIDE DEF f
  <2>3. \A i \in DOMAIN calls' : Len(calls') = 1 /\ calls'[i] = f
    BY <2>2
  <2>4. Idle
    BY <1>1 DEF Connect
  <2> QED
    BY <1>1, <2>1, <2>3, <2>4
<1>2. ASSUME NEW f, NEW g, f.fn # "proc_started", g.fn # "proc_started",
             calls' = <<f>> \/ calls' = <<f, g>>
      PROVE  \A i \in DOMAIN calls' : calls'[i].fn # "proc_started"
  BY <1>2
<1>3. \A msg : OnMsg("deliver", msg).fn # "proc_started"
  BY DEF OnMsg, Call
<1>4. \A pr : OnProc("deactivate", pr).fn # "proc_started"
  BY DEF OnProc, Call
<1>5. \A pt : /\ OnType("proc_replied", pt).fn # "proc_started"
              /\ OnType("launch_failed", pt).fn # "proc_started"
  BY DEF OnType, Call
<1>6. \A msg, pr, s : [OnMsg("update", msg) EXCEPT !.p = pr, !.s = s].fn # "proc_started"
  BY DEF OnMsg, Call
<1>7. Call("pattern_added").fn # "proc_started"
  BY DEF Call
<1>8. CASE NotifyStartFailure
  BY <1>2, <1>5, <1>8 DEF NotifyStartFailure
<1>9. ASSUME NEW pr \in Proc, Close(pr) \/ ChannelLost(pr)
      PROVE  Idle /\ \A i \in DOMAIN calls' : calls'[i].fn # "proc_started"
  BY <1>2, <1>4, <1>9 DEF Close, ChannelLost, Client
<1>10. ASSUME NEW pr \in Proc, NEW msg \in Msg, Dispatch(pr, msg) \/ Accept(pr, msg)
       PROVE  Idle /\ \A i \in DOMAIN calls' : calls'[i].fn # "proc_started"
  BY <1>2, <1>3, <1>5, <1>10 DEF Dispatch, Accept, Client
<1>11. ASSUME NEW pr \in Proc, NEW msg \in Msg, NEW s \in Answer, Update(pr, msg, s)
       PROVE  Idle /\ \A i \in DOMAIN calls' : calls'[i].fn # "proc_started"
  <2> DEFINE f == [OnMsg("update", msg) EXCEPT !.p = pr, !.s = s]
             g == OnType("proc_replied", SigPtype[OpOf[msg]])
  <2>1. Idle /\ (calls' = <<f>> \/ calls' = <<g, f>>)
    BY <1>11 DEF Update, Client
  <2>2. f.fn # "proc_started" /\ g.fn # "proc_started"
    BY <1>5, <1>6
  <2> HIDE DEF f, g
  <2> QED
    BY <1>2, <2>1, <2>2
<1>12. ASSUME NEW pr \in Proc, PatternRequest(pr)
       PROVE  \/ UNCHANGED calls
              \/ Idle /\ \A i \in DOMAIN calls' : calls'[i].fn # "proc_started"
  BY <1>2, <1>7, <1>12 DEF PatternRequest, JoinSession, QuitSession, DeclarePtype,
     UndeclarePtype, AddPattern, DelPattern, Client
<1> QED
  BY <1>1, <1>8, <1>9, <1>10, <1>11, <1>12 DEF Outside, MessageRequest, SigChld, Crash,
     NextMessage

LEMMA NextAsks ==
  ASSUME TypeOK, AskedKnown, StartedAlone, RejectedStaysRejected,
         ServerStep \/ Outside
  PROVE  AskedKnown' /\ StartedAlone' /\ RejectedStaysRejected'
PROOF
<1>1. CASE ServerStep
  <2>1. \A pr \in Proc : conn[pr] # "none" => conn'[pr] # "none"
    BY <1>1, ServerConn
  <2>2. RejectedStaysRejected' /\ AskedKnown'
    BY <1>1, <2>1, ServerAsks DEF AskedKnown
  <2>3. StartedAlone'
    BY <1>1, NoProcStarted DEF StartedAlone
  <2> QED
    BY <2>2, <2>3
<1>2. CASE Outside
  <2>1. UNCHANGED <<handler, tried>>
    BY <1>2, OutsideAsks
  <2>2. \A pr \in Proc : conn[pr] # "none" => conn'[pr] # "none"
    BY <1>2, OutsideConn
  <2>3. RejectedStaysRejected' /\ AskedKnown'
    BY <2>1, <2>2 DEF RejectedStaysRejected, AskedKnown, Asked
  <2>4. ASSUME UNCHANGED calls
        PROVE  StartedAlone'
    <3>1. \A i \in DOMAIN calls : calls[i].fn = "proc_started" => calls[i].p \in Proc
      <4>1. \A i \in DOMAIN calls : calls[i] \in Frame
        BY DEF TypeOK
      <4> QED
        BY <4>1 DEF Frame, ProcCalls
    <3>2. \A pr \in Proc : conn[pr] = "active" => conn'[pr] = "active"
      BY <1>2, OutsideConn
    <3> QED
      BY <2>1, <2>4, <3>1, <3>2 DEF StartedAlone, Asked
  <2>5. ASSUME ~UNCHANGED calls
        PROVE  StartedAlone'
    <3> SUFFICES ASSUME NEW i \in DOMAIN calls', calls'[i].fn = "proc_started"
                 PROVE  /\ Len(calls') = 1
                        /\ conn'[calls'[i].p] = "active"
                        /\ \A msg \in Msg : /\ handler'[msg] # calls'[i].p
                                            /\ calls'[i].p \notin tried'[msg]
      BY DEF StartedAlone, Asked
    <3> DEFINE pr == calls'[i].p
    <3>1. Len(calls') = 1 /\ pr \in Proc /\ Connect(pr)
      BY <1>2, <2>5, OutsideStarted
    <3> HIDE DEF pr
    <3>2. conn[pr] = "none" /\ conn'[pr] = "active"
      BY <3>1 DEF Connect, TypeOK
    <3>3. \A msg \in Msg : ~Asked(pr, msg)
      BY <3>1, <3>2 DEF AskedKnown
    <3> QED
      BY <2>1, <3>1, <3>2, <3>3 DEF pr, Asked
  <2> QED
    BY <2>3, <2>4, <2>5
<1> QED
  BY <1>1, <1>2

-----------------------------------------------------------------------------
(* What the server knows of was sent by a process that has been active.    *)

Sent(msg) == conn[SenderOf[msg]] # "none"

Listed(msg) ==
  \/ \E pr \in Proc : In(msg, undelivered[pr]) \/ In(msg, delivered[pr])
  \/ \E pt \in Ptype : In(msg, ptype_queue[pt])
  \/ In(msg, queued)

Named(msg) == \E i \in DOMAIN calls : calls[i].m = msg

SentBySomeone ==
  \A msg \in Msg : state[msg] # "CREATED" \/ Listed(msg) \/ Named(msg) => Sent(msg)

(* The messages that the innermost call can make calls about.              *)
AtHand(msg) == msg = NoMsg \/ Named(msg) \/ Listed(msg)
Calling(cs) == cs \in Seq(Frame) /\ \A i \in DOMAIN cs : AtHand(cs[i].m)

LEMMA CallMessages ==
  /\ \A fn, msg : OnMsg(fn, msg).m = msg
  /\ \A fn, pr : OnProc(fn, pr).m = NoMsg
  /\ \A fn, pt : OnType(fn, pt).m = NoMsg
PROOF
  BY DEF OnMsg, OnProc, OnType, Call

LEMMA CallingFew ==
  /\ Calling(<<>>)
  /\ \A f \in Frame : AtHand(f.m) => Calling(<<f>>)
  /\ \A f, g \in Frame : AtHand(f.m) /\ AtHand(g.m) => Calling(<<f, g>>)
  /\ \A f \in Frame : \A cs : AtHand(f.m) /\ Calling(cs) => Calling(<<f>> \o cs)
PROOF
<1>1. Calling(<<>>)
  BY DEF Calling
<1>2. ASSUME NEW f \in Frame, AtHand(f.m)
      PROVE  Calling(<<f>>)
  <2>1. <<f>> \in Seq(Frame) /\ DOMAIN <<f>> = {1} /\ <<f>>[1] = f
    OBVIOUS
  <2> QED
    BY <1>2, <2>1 DEF Calling
<1>3. ASSUME NEW f \in Frame, NEW cs, AtHand(f.m), Calling(cs)
      PROVE  Calling(<<f>> \o cs)
  <2> DEFINE new == <<f>> \o cs
  <2>1. cs \in Seq(Frame)
    BY <1>3 DEF Calling
  <2>2. /\ new \in Seq(Frame)
        /\ \A i \in DOMAIN new :
             \/ new[i] = f
             \/ i - 1 \in DOMAIN cs /\ new[i] = cs[i - 1]
    BY <2>1
  <2> HIDE DEF new
  <2>3. Calling(new)
    BY <1>3, <2>2 DEF Calling
  <2> QED
    BY <2>3 DEF new
<1>4. ASSUME NEW f \in Frame, NEW g \in Frame, AtHand(f.m), AtHand(g.m)
      PROVE  Calling(<<f, g>>)
  <2>1. /\ <<f, g>> \in Seq(Frame) /\ DOMAIN <<f, g>> = {1, 2}
        /\ <<f, g>>[1] = f /\ <<f, g>>[2] = g
    OBVIOUS
  <2> QED
    BY <1>4, <2>1 DEF Calling
<1> QED
  BY <1>1, <1>2, <1>3, <1>4

LEMMA AddMessageCalling ==
  ASSUME NEW pr \in Proc, NEW msg, NEW ok, NEW lost,
         AddMessage(pr, msg, ok, lost), Calling(ok), Calling(lost)
  PROVE  \E cs : Calling(cs) /\ Then(cs)
PROOF
<1>1. OnProc("deactivate", pr) \in Frame /\ AtHand(OnProc("deactivate", pr).m)
  BY Frames, CallMessages DEF AtHand
<1>2. Calling(<<OnProc("deactivate", pr)>> \o lost)
  BY <1>1, CallingFew
<1> QED
  BY <1>2 DEF AddMessage

LEMMA FinishCalling ==
  ASSUME NEW msg \in Msg, AtHand(msg), NEW s, NEW rest, Calling(rest),
         Finish(msg, s, rest)
  PROVE  \E cs : Calling(cs) /\ Then(cs)
PROOF
<1>1. OnMsg("report", msg) \in Frame /\ AtHand(OnMsg("report", msg).m)
  BY Frames, CallMessages
<1>2. Calling(<<OnMsg("report", msg)>> \o rest)
  BY <1>1, CallingFew
<1> QED
  BY <1>2 DEF Finish

LEMMA HeadIn ==
  ASSUME NEW S, NEW q \in Seq(S), q # <<>>
  PROVE  In(Head(q), q)
PROOF
<1>1. 1 \in DOMAIN q /\ q[1] = Head(q)
  OBVIOUS
<1> QED
  BY <1>1 DEF In

LEMMA ServerCalling ==
  ASSUME TypeOK, ServerStep
  PROVE  \E cs : Calling(cs) /\ Then(cs)
PROOF
<1> USE DEF Running
<1>a. calls # <<>> /\ calls \in Seq(Frame)
  BY ServerCalls DEF TypeOK
<1>b. /\ Top \in Frame
      /\ Top.i \in Nat \ {0} /\ Top.s \in Answer
      /\ Top.fn \in MsgCalls => Top.m \in Msg
      /\ Top.fn \in ProcCalls => Top.p \in Proc
      /\ Top.fn \in TypeCalls => Top.t \in Ptype
      /\ Top.m \in Msg \union {NoMsg}
  BY <1>a, TopTypes
<1>c. AtHand(Top.m) /\ Calling(<<>>) /\ Calling(<<Top>>) /\ AtHand(NoMsg)
  <2>1. 1 \in DOMAIN calls /\ calls[1] = Top
    BY <1>a DEF Top
  <2>2. AtHand(Top.m) /\ AtHand(NoMsg)
    BY <2>1 DEF AtHand, Named
  <2> QED
    BY <1>b, <2>2, CallingFew
<1>d. \A fn \in {"deliver", "queue", "report", "start_failed"} : \A msg \in Msg :
        AtHand(msg) => /\ OnMsg(fn, msg) \in Frame /\ AtHand(OnMsg(fn, msg).m)
                       /\ Calling(<<OnMsg(fn, msg)>>)
  BY Frames, CallMessages, CallingFew
<1>e. \A fn \in TypeCalls \ ProcCalls : \A pt \in Ptype :
        /\ OnType(fn, pt) \in Frame /\ AtHand(OnType(fn, pt).m)
        /\ Calling(<<OnType(fn, pt)>>)
  BY <1>c, Frames, CallMessages, CallingFew
<1>f. \A pt \in Ptype : ptype_queue[pt] # <<>> =>
        Head(ptype_queue[pt]) \in Msg /\ AtHand(Head(ptype_queue[pt]))
  <2> SUFFICES ASSUME NEW pt \in Ptype, ptype_queue[pt] # <<>>
               PROVE  Head(ptype_queue[pt]) \in Msg /\ AtHand(Head(ptype_queue[pt]))
    OBVIOUS
  <2>1. ptype_queue[pt] \in Seq(Msg)
    BY DEF TypeOK
  <2>2. In(Head(ptype_queue[pt]), ptype_queue[pt]) /\ Head(ptype_queue[pt]) \in Msg
    BY <2>1, HeadIn
  <2> QED
    BY <2>2 DEF AtHand, Listed
<1> USE DEF MsgCalls, ProcCalls, TypeCalls
<1>1. CASE Report
  <2>1. SenderOf[Top.m] \in Proc
    BY <1>1, <1>b, ConstantsAssumption DEF Report
  <2> QED
    BY <1>1, <1>c, <2>1, AddMessageCalling DEF Report
<1>2. CASE DeliverToHandler
  <2>1. PICK pr \in Proc : AddMessage(pr, Top.m, <<>>, <<Top>>)
    BY <1>2, HandlerChosen DEF DeliverToHandler, Running
  <2> QED
    BY <1>c, <2>1, AddMessageCalling
<1>3. CASE NoRecipientsStart
  <2>1. PICK msg \in Msg :
          /\ msg = Top.m
          /\ \/ Then(<<OnMsg("report", msg), OnMsg("queue", msg)>>)
             \/ Then(<<OnMsg("start_failed", msg)>>)
    BY <1>3 DEF NoRecipientsStart, NoHandler
  <2>2. Calling(<<OnMsg("report", msg), OnMsg("queue", msg)>>)
        /\ Calling(<<OnMsg("start_failed", msg)>>)
    BY <1>c, <1>d, <2>1, CallingFew
  <2> QED
    BY <2>1, <2>2
<1>4. CASE StartFailed
  BY <1>4, <1>b, <1>c, FinishCalling DEF StartFailed
<1>5. CASE NoRecipientsQueue
  <2>1. PICK msg \in Msg : HonourQueue(msg) /\ msg = Top.m
    BY <1>5, <1>b DEF NoRecipientsQueue, NoHandler
  <2>2. Calling(<<OnMsg("report", msg)>>) /\ AtHand(msg)
    BY <1>c, <1>d, <2>1
  <2>3. CASE Finish(msg, "FAILED", <<>>)
    BY <1>c, <2>2, <2>3, FinishCalling
  <2>4. CASE ~Finish(msg, "FAILED", <<>>)
    BY <1>c, <2>1, <2>2, <2>4 DEF HonourQueue
  <2> QED
    BY <2>3, <2>4
<1>6. CASE Deactivate
  <2>1. OnProc("orphans", Top.p) \in Frame /\ AtHand(OnProc("orphans", Top.p).m)
    BY <1>6, <1>b, <1>c, Frames, CallMessages DEF Deactivate
  <2>2. Calling(<<OnProc("orphans", Top.p)>>)
    BY <2>1, CallingFew
  <2> QED
    BY <1>6, <1>c, <2>2 DEF Deactivate
<1>7. CASE OrphanUndelivered
  <2>1. Top.p \in Proc /\ undelivered[Top.p] # <<>> /\ undelivered[Top.p] \in Seq(Msg)
    BY <1>7, <1>b DEF OrphanUndelivered, TypeOK
  <2>2. /\ Head(undelivered[Top.p]) \in Msg
        /\ In(Head(undelivered[Top.p]), undelivered[Top.p])
    BY <2>1, HeadIn
  <2>3. AtHand(Head(undelivered[Top.p]))
    BY <2>1, <2>2 DEF AtHand, Listed
  <2>4. Finish(Head(undelivered[Top.p]), "FAILED", <<Top>>) \/ Then(<<Top>>)
    BY <1>7 DEF OrphanUndelivered
  <2> QED
    BY <1>c, <2>2, <2>3, <2>4, FinishCalling
<1>8. CASE OrphanDelivered
  <2>1. Top.p \in Proc /\ delivered[Top.p] # <<>> /\ delivered[Top.p] \in Seq(Msg)
    BY <1>8, <1>b DEF OrphanDelivered, TypeOK
  <2>2. /\ Head(delivered[Top.p]) \in Msg
        /\ In(Head(delivered[Top.p]), delivered[Top.p])
    BY <2>1, HeadIn
  <2>3. AtHand(Head(delivered[Top.p]))
    BY <2>1, <2>2 DEF AtHand, Listed
  <2>4. Finish(Head(delivered[Top.p]), "FAILED", <<Top>>)
    BY <1>8 DEF OrphanDelivered
  <2> QED
    BY <1>c, <2>2, <2>3, <2>4, FinishCalling
<1>9. CASE ProcStarted
  <2> DEFINE msg  == Head(ptype_queue[Top.t])
             fail == [OnType("launch_failed", Top.t) EXCEPT !.m = msg]
  <2>1. msg \in Msg /\ AtHand(msg) /\ Top.t \in Ptype /\ Top.p \in Proc
    BY <1>9, <1>b, <1>f DEF ProcStarted
  <2> HIDE DEF msg
  <2>2. fail \in Frame /\ fail.m = msg
    <3>1. /\ OnType("launch_failed", Top.t) \in Frame
          /\ OnType("launch_failed", Top.t).fn = "launch_failed"
      BY <2>1, Frames
    <3> QED
      BY <2>1, <3>1 DEF Frame
  <2>3. Calling(<<fail>>)
    BY <2>1, <2>2, CallingFew
  <2>4. AddMessage(Top.p, msg, <<>>, <<fail>>)
    BY <1>9 DEF ProcStarted, msg
  <2> HIDE DEF fail
  <2> QED
    BY <1>c, <2>1, <2>3, <2>4, AddMessageCalling
<1>10. CASE ProcReplied \/ Redelivered
  <2>1. Top.t \in Ptype
    BY <1>10, <1>b DEF ProcReplied, Redelivered
  <2>2. Calling(<<OnType("redeliver", Top.t)>>)
    BY <1>e, <2>1
  <2>3. Then(<<OnType("redeliver", Top.t)>>) \/ Then(<<>>)
    BY <1>10 DEF ProcReplied, Redelivered
  <2> QED
    BY <1>c, <2>2, <2>3
<1>11. CASE Redeliver
  <2>1. Top.t \in Ptype
    BY <1>11, <1>b DEF Redeliver
  <2>2. CASE ptype_queue[Top.t] = <<>>
    BY <1>11, <1>c, <2>2 DEF Redeliver
  <2>3. CASE ptype_queue[Top.t] # <<>>
    <3> DEFINE f == OnMsg("deliver", Head(ptype_queue[Top.t]))
               g == OnType("redelivered", Top.t)
    <3>1. f \in Frame /\ AtHand(f.m) /\ g \in Frame /\ AtHand(g.m)
      BY <1>d, <1>e, <1>f, <2>1, <2>3
    <3>2. Then(<<f, g>>)
      BY <1>11, <2>3 DEF Redeliver
    <3> HIDE DEF f, g
    <3> QED
      BY <3>1, <3>2, CallingFew
  <2> QED
    BY <2>2, <2>3
<1>12. CASE LaunchFailed
  <2> DEFINE again == OnType("launch_failed", Top.t)
  <2>1. Calling(<<again>>) /\ Top.t \in Ptype
    BY <1>12, <1>b, <1>e DEF LaunchFailed
  <2> HIDE DEF again
  <2>2. CASE Top.m # NoMsg
    <3>1. Finish(Top.m, "FAILED", <<again>>) /\ Top.m \in Msg
      BY <1>12, <1>b, <2>2 DEF LaunchFailed, again
    <3> QED
      BY <1>c, <2>1, <3>1, FinishCalling
  <2>3. CASE Top.m = NoMsg /\ ptype_queue[Top.t] # <<>>
    <3>1. Finish(Head(ptype_queue[Top.t]), "FAILED", <<again>>)
      BY <1>12, <2>3 DEF LaunchFailed, again
    <3>2. Head(ptype_queue[Top.t]) \in Msg /\ AtHand(Head(ptype_queue[Top.t]))
      BY <1>f, <2>1, <2>3
    <3> QED
      BY <2>1, <3>1, <3>2, FinishCalling
  <2>4. CASE Top.m = NoMsg /\ ptype_queue[Top.t] = <<>>
    BY <1>12, <1>c, <2>4 DEF LaunchFailed
  <2> QED
    BY <2>2, <2>3, <2>4
<1>13. CASE PatternAdded
  <2>1. CASE Top.i > Len(queued)
    BY <1>13, <1>c, <2>1 DEF PatternAdded
  <2>2. CASE ~(Top.i > Len(queued))
    <3> DEFINE msg  == queued[Top.i]
               wait == [Top EXCEPT !.fn = "pattern_delivered"]
    <3>1. msg \in Msg /\ Top.i \in DOMAIN queued
      BY <1>b, <2>2 DEF TypeOK
    <3>2. AtHand(msg)
      BY <3>1 DEF AtHand, Listed, In
    <3>3. wait \in Frame /\ wait.m = Top.m
      BY <1>13, <1>b DEF PatternAdded, Frame, ScanCalls
    <3>4. Then(<<OnMsg("deliver", msg), wait>>)
      BY <1>13, <2>2 DEF PatternAdded
    <3> HIDE DEF msg, wait
    <3> QED
      BY <1>c, <1>d, <3>1, <3>2, <3>3, <3>4, CallingFew
  <2> QED
    BY <2>1, <2>2
<1>14. CASE PatternDelivered
  <2> DEFINE again == [Top EXCEPT !.fn = "pattern_added"]
             next  == [Top EXCEPT !.fn = "pattern_added", !.i = @ + 1]
  <2>1. /\ again \in Frame /\ again.m = Top.m
        /\ next \in Frame /\ next.m = Top.m
    <3>1. Top.i + 1 \in Nat \ {0}
      BY <1>b
    <3> QED
      BY <1>b, <3>1 DEF Frame, ScanCalls
  <2>2. Then(<<again>>) \/ Then(<<next>>)
    BY <1>14 DEF PatternDelivered
  <2> HIDE DEF again, next
  <2> QED
    BY <1>c, <2>1, <2>2, CallingFew
<1>15. CASE UpdateFinal
  BY <1>15, <1>b, <1>c, FinishCalling DEF UpdateFinal
<1>16. CASE UpdateRejected
  BY <1>16, <1>b, <1>c, <1>d DEF UpdateRejected
<1>17. CASE DeliverToNobody \/ OrphansDone \/ ProcStartedIdly \/ UpdateUnknown
  BY <1>17, <1>c DEF DeliverToNobody, OrphansDone, ProcStartedIdly, UpdateUnknown
<1> QED
  BY <1>1, <1>2, <1>3, <1>4, <1>5, <1>6, <1>7, <1>8, <1>9, <1>10, <1>11, <1>12,
     <1>13, <1>14, <1>15, <1>16, <1>17
  DEF ServerStep

(* A step of the server changes the state of the message at hand, if it    *)
(* does; when that is a final state, it reports it to the sender.          *)
Reporting(msg) == \E i \in DOMAIN calls : calls[i].fn = "report" /\ calls[i].m = msg

LEMMA FinishReports ==
  ASSUME TypeOK, calls # <<>>, NEW msg \in Msg, NEW s, NEW rest \in Seq(Frame),
         Finish(msg, s, rest), NEW m \in Msg
  PROVE  state'[m] # state[m] => m = msg /\ Reporting(m)'
PROOF
<1> SUFFICES ASSUME state'[m] # state[m]
             PROVE  m = msg /\ Reporting(m)'
  OBVIOUS
<1>1. /\ state' = [state EXCEPT ![msg] = s]
      /\ Then(<<OnMsg("report", msg)>> \o rest)
  BY DEF Finish
<1>2. m = msg
  BY <1>1 DEF TypeOK
<1> DEFINE cs == <<OnMsg("report", msg)>> \o rest
<1>3. /\ OnMsg("report", msg) \in Frame /\ OnMsg("report", msg).fn = "report"
      /\ OnMsg("report", msg).m = msg
  BY Frames, CallMessages
<1>4. cs \in Seq(Frame) /\ 1 \in DOMAIN cs /\ cs[1] = OnMsg("report", msg)
  BY <1>3
<1>5. Then(cs) /\ calls \in Seq(Frame)
  BY <1>1 DEF TypeOK
<1> HIDE DEF cs
<1>6. 1 \in DOMAIN calls' /\ calls'[1] = OnMsg("report", msg)
  BY <1>4, <1>5, ThenKeeps
<1> QED
  BY <1>2, <1>3, <1>6 DEF Reporting

LEMMA ServerState ==
  ASSUME TypeOK, LoopsInBounds, ServerStep, NEW msg \in Msg,
         state'[msg] # state[msg]
  PROVE  AtHand(msg) /\ (state'[msg] \in Final => Reporting(msg)')
PROOF
<1> USE DEF Running
<1>a. calls # <<>> /\ calls \in Seq(Frame)
  BY ServerCalls DEF TypeOK
<1>b. /\ Top \in Frame /\ Top.i \in Nat \ {0}
      /\ Top.fn \in MsgCalls => Top.m \in Msg
      /\ Top.fn \in ProcCalls => Top.p \in Proc
      /\ Top.fn \in TypeCalls => Top.t \in Ptype
      /\ Top.m \in Msg \union {NoMsg}
  BY <1>a, TopTypes
<1>c. AtHand(Top.m)
  <2>1. 1 \in DOMAIN calls /\ calls[1] = Top
    BY <1>a DEF Top
  <2> QED
    BY <2>1 DEF AtHand, Named
<1>d. \A s \in {"SENT", "STARTED", "QUEUED", "CREATED"} : s \notin Final
  BY DEF Final
<1>e. \A pt \in Ptype : ptype_queue[pt] # <<>> =>
        Head(ptype_queue[pt]) \in Msg /\ AtHand(Head(ptype_queue[pt]))
  <2> SUFFICES ASSUME NEW pt \in Ptype, ptype_queue[pt] # <<>>
               PROVE  Head(ptype_queue[pt]) \in Msg /\ AtHand(Head(ptype_queue[pt]))
    OBVIOUS
  <2>1. ptype_queue[pt] \in Seq(Msg)
    BY DEF TypeOK
  <2>2. In(Head(ptype_queue[pt]), ptype_queue[pt]) /\ Head(ptype_queue[pt]) \in Msg
    BY <2>1, HeadIn
  <2> QED
    BY <2>2 DEF AtHand, Listed
<1>f. <<>> \in Seq(Frame) /\ <<Top>> \in Seq(Frame)
  BY <1>b
<1> USE DEF MsgCalls, ProcCalls, TypeCalls
<1>1. ASSUME NEW m, AtHand(m), NEW s \in {"SENT", "STARTED", "QUEUED"},
             state' = [state EXCEPT ![m] = s]
      PROVE  AtHand(msg) /\ (state'[msg] \in Final => Reporting(msg)')
  BY <1>d, <1>1 DEF TypeOK
<1>2. ASSUME NEW m \in Msg, AtHand(m), NEW s, NEW rest \in Seq(Frame),
             Finish(m, s, rest)
      PROVE  AtHand(msg) /\ (state'[msg] \in Final => Reporting(msg)')
  BY <1>a, <1>2, FinishReports
<1>3. CASE NoRecipientsStart
  BY <1>c, <1>1, <1>3 DEF NoRecipientsStart, NoHandler
<1>4. CASE StartFailed
  BY <1>b, <1>c, <1>f, <1>2, <1>4 DEF StartFailed
<1>5. CASE NoRecipientsQueue
  <2>1. PICK m \in Msg : HonourQueue(m) /\ m = Top.m
    BY <1>b, <1>5 DEF NoRecipientsQueue, NoHandler
  <2> QED
    BY <1>c, <1>f, <1>1, <1>2, <2>1 DEF HonourQueue
<1>6. CASE OrphanUndelivered
  <2>1. Top.p \in Proc /\ undelivered[Top.p] # <<>> /\ undelivered[Top.p] \in Seq(Msg)
    BY <1>b, <1>6 DEF OrphanUndelivered, TypeOK
  <2>2. /\ Head(undelivered[Top.p]) \in Msg
        /\ In(Head(undelivered[Top.p]), undelivered[Top.p])
    BY <2>1, HeadIn
  <2>3. AtHand(Head(undelivered[Top.p]))
    BY <2>1, <2>2 DEF AtHand, Listed
  <2>4. Finish(Head(undelivered[Top.p]), "FAILED", <<Top>>)
    BY <1>6 DEF OrphanUndelivered
  <2> QED
    BY <1>f, <1>2, <2>2, <2>3, <2>4
<1>7. CASE OrphanDelivered
  <2>1. Top.p \in Proc /\ delivered[Top.p] # <<>> /\ delivered[Top.p] \in Seq(Msg)
    BY <1>b, <1>7 DEF OrphanDelivered, TypeOK
  <2>2. /\ Head(delivered[Top.p]) \in Msg
        /\ In(Head(delivered[Top.p]), delivered[Top.p])
    BY <2>1, HeadIn
  <2>3. AtHand(Head(delivered[Top.p]))
    BY <2>1, <2>2 DEF AtHand, Listed
  <2>4. Finish(Head(delivered[Top.p]), "FAILED", <<Top>>)
    BY <1>7 DEF OrphanDelivered
  <2> QED
    BY <1>f, <1>2, <2>2, <2>3, <2>4
<1>8. CASE Redeliver
  <2>1. /\ Top.t \in Ptype /\ ptype_queue[Top.t] # <<>>
        /\ state' = [state EXCEPT ![Head(ptype_queue[Top.t])] = "SENT"]
    BY <1>b, <1>8 DEF Redeliver
  <2> QED
    BY <1>e, <1>1, <2>1
<1>9. CASE LaunchFailed
  <2> DEFINE again == <<OnType("launch_failed", Top.t)>>
  <2>1. again \in Seq(Frame) /\ Top.t \in Ptype
    BY <1>b, <1>9, Frames DEF LaunchFailed
  <2>2. \/ Top.m # NoMsg /\ Finish(Top.m, "FAILED", again)
        \/ /\ ptype_queue[Top.t] # <<>>
           /\ Finish(Head(ptype_queue[Top.t]), "FAILED", again)
    BY <1>9 DEF LaunchFailed
  <2> HIDE DEF again
  <2> QED
    BY <1>b, <1>c, <1>e, <1>2, <2>1, <2>2
<1>10. CASE PatternAdded \/ PatternDelivered
  <2>1. /\ Top.i \in DOMAIN queued
        /\ \/ state' = [state EXCEPT ![queued[Top.i]] = "SENT"]
           \/ state' = [state EXCEPT ![queued[Top.i]] = "QUEUED"]
    <3>1. CASE PatternAdded
      <4>1. ~(Top.i > Len(queued)) /\ queued \in Seq(Msg)
        BY <3>1 DEF PatternAdded, TypeOK
      <4>2. Top.i \in DOMAIN queued
        BY <1>b, <4>1
      <4> QED
        BY <3>1, <4>2 DEF PatternAdded
    <3>2. CASE PatternDelivered
      <4>1. state' = [state EXCEPT ![queued[Top.i]] = "QUEUED"]
        BY <3>2 DEF PatternDelivered
      <4>2. Top.i \in DOMAIN queued
        BY <1>a, <3>2 DEF PatternDelivered, LoopsInBounds, Top
      <4> QED
        BY <4>1, <4>2
    <3> QED
      BY <1>10, <3>1, <3>2
  <2>2. AtHand(queued[Top.i])
    BY <2>1 DEF AtHand, Listed, In
  <2> QED
    BY <1>1, <2>1, <2>2
<1>11. CASE UpdateFinal
  BY <1>b, <1>c, <1>f, <1>2, <1>11 DEF UpdateFinal
<1>12. CASE UpdateRejected
  BY <1>b, <1>c, <1>1, <1>12 DEF UpdateRejected
<1>13. CASE UNCHANGED state
  BY <1>13
<1> QED
  BY <1>3, <1>4, <1>5, <1>6, <1>7, <1>8, <1>9, <1>10, <1>11, <1>12, <1>13
  DEF ServerStep, Report, DeliverToHandler, DeliverToNobody, Deactivate, OrphansDone,
      ProcStarted, ProcStartedIdly, ProcReplied, Redelivered, UpdateUnknown, msgVars

(* The queues get what is at hand, too.                                    *)
LEMMA ServerQueues ==
  ASSUME TypeOK, LoopsInBounds, ServerStep, NEW x
  PROVE  /\ \A pt \in Ptype : In(x, ptype_queue'[pt]) => AtHand(x)
         /\ In(x, queued') => AtHand(x)
PROOF
<1> USE DEF Running
<1>a. calls # <<>> /\ calls \in Seq(Frame)
  BY ServerCalls DEF TypeOK
<1>b. /\ Top.i \in Nat \ {0}
      /\ Top.fn \in MsgCalls => Top.m \in Msg
      /\ Top.fn \in TypeCalls => Top.t \in Ptype
  BY <1>a, TopTypes
<1>c. AtHand(Top.m)
  <2>1. 1 \in DOMAIN calls /\ calls[1] = Top
    BY <1>a DEF Top
  <2> QED
    BY <2>1 DEF AtHand, Named
<1>d. /\ \A pt \in Ptype : In(x, ptype_queue[pt]) => AtHand(x)
      /\ In(x, queued) => AtHand(x)
      /\ queued \in Seq(Msg) /\ \A pt \in Ptype : ptype_queue[pt] \in Seq(Msg)
  BY DEF AtHand, Listed, TypeOK
<1>1. CASE NoRecipientsStart
  <2>1. PICK msg \in Msg :
          /\ msg = Top.m /\ UNCHANGED queued
          /\ \/ UNCHANGED ptype_queue
             \/ ptype_queue' = [ptype_queue EXCEPT ![SigPtype[OpOf[msg]]] = Append(@, msg)]
    BY <1>1 DEF NoRecipientsStart, NoHandler
  <2>2. \A pt \in Ptype : In(x, Append(ptype_queue[pt], msg)) <=>
                            x = msg \/ In(x, ptype_queue[pt])
    BY <1>d, InAppend
  <2>3. \A pt \in Ptype :
          ptype_queue'[pt] \in {ptype_queue[pt], Append(ptype_queue[pt], msg)}
    <3>1. ptype_queue \in [Ptype -> Seq(Msg)]
      BY DEF TypeOK
    <3> QED
      BY <2>1, <3>1
  <2>4. ASSUME NEW pt \in Ptype, In(x, ptype_queue'[pt])
        PROVE  AtHand(x)
    <3>1. CASE ptype_queue'[pt] = ptype_queue[pt]
      BY <1>d, <2>4, <3>1
    <3>2. CASE ptype_queue'[pt] = Append(ptype_queue[pt], msg)
      BY <1>c, <1>d, <2>1, <2>2, <2>4, <3>2
    <3> QED
      BY <2>3, <3>1, <3>2
  <2>5. In(x, queued') => AtHand(x)
    BY <1>d, <2>1
  <2> QED
    BY <2>4, <2>5
<1>2. CASE NoRecipientsQueue
  <2>1. PICK msg \in Msg : HonourQueue(msg) /\ msg = Top.m
    BY <1>b, <1>2 DEF NoRecipientsQueue, NoHandler, MsgCalls
  <2>2. UNCHANGED ptype_queue /\ (UNCHANGED queued \/ queued' = Append(queued, msg))
    BY <1>2, <2>1 DEF NoRecipientsQueue, HonourQueue
  <2>3. In(x, Append(queued, msg)) <=> x = msg \/ In(x, queued)
    BY <1>d, InAppend
  <2> QED
    BY <1>c, <1>d, <2>1, <2>2, <2>3
<1>3. CASE ProcStarted \/ Redelivered \/ LaunchFailed
  <2>1. /\ UNCHANGED queued
        /\ \/ UNCHANGED ptype_queue
           \/ /\ ptype_queue' = [ptype_queue EXCEPT ![Top.t] = Tail(@)]
              /\ ptype_queue[Top.t] # <<>> /\ Top.t \in Ptype
    <3>1. CASE ProcStarted \/ LaunchFailed
      BY <1>b, <3>1 DEF ProcStarted, LaunchFailed, TypeCalls
    <3>2. CASE Redelivered
      BY <1>a, <1>b, <3>2 DEF Redelivered, TypeCalls, LoopsInBounds, Top
    <3> QED
      BY <1>3, <3>1, <3>2
  <2>2. \A pt \in Ptype : ptype_queue[pt] # <<>> =>
          (In(x, Tail(ptype_queue[pt])) => In(x, ptype_queue[pt]))
    BY <1>d, InTail
  <2> QED
    BY <1>d, <2>1, <2>2 DEF TypeOK
<1>4. CASE PatternDelivered
  <2>1. Top.i \in DOMAIN queued
    BY <1>a, <1>4 DEF PatternDelivered, LoopsInBounds, Top
  <2>2. UNCHANGED ptype_queue /\ (UNCHANGED queued \/ queued' = RemoveAt(queued, Top.i))
    BY <1>4 DEF PatternDelivered
  <2>3. In(x, RemoveAt(queued, Top.i)) => In(x, queued)
    BY <1>d, <2>1, InRemoveAt
  <2> QED
    BY <1>d, <2>2, <2>3
<1>5. CASE UNCHANGED <<ptype_queue, queued>>
  BY <1>d, <1>5
<1> QED
  BY <1>1, <1>2, <1>3, <1>4, <1>5 DEF ServerStep, Report, DeliverToHandler,
     DeliverToNobody, StartFailed, Deactivate, OrphanUndelivered, OrphanDelivered,
     OrphansDone, ProcStartedIdly, ProcReplied, Redeliver, PatternAdded, UpdateFinal,
     UpdateRejected, UpdateUnknown, queueVars

(* What the server has at hand after a step it had at hand before.         *)
LEMMA ServerKnows ==
  ASSUME TypeOK, TypeOK', LoopsInBounds, ServerStep, NEW msg \in Msg,
         Listed(msg)' \/ Named(msg)'
  PROVE  Listed(msg) \/ Named(msg)
PROOF
<1>0. calls # <<>> /\ calls \in Seq(Frame)
  BY ServerCalls DEF TypeOK
<1>a. AtHand(msg) => Listed(msg) \/ Named(msg)
  BY ConstantsAssumption DEF AtHand
<1>1. CASE Named(msg)'
  <2>1. PICK cs : Calling(cs) /\ Then(cs)
    BY ServerCalling
  <2>2. cs \in Seq(Frame)
    BY <2>1 DEF Calling
  <2>3. \A i \in DOMAIN calls' :
          \/ i \in DOMAIN cs /\ calls'[i] = cs[i]
          \/ \E j \in DOMAIN calls : calls'[i] = calls[j]
    BY <1>0, <2>1, <2>2, ThenElements
  <2>4. PICK i \in DOMAIN calls' : calls'[i].m = msg
    BY <1>1 DEF Named
  <2>5. AtHand(msg)
    BY <2>1, <2>3, <2>4 DEF Calling, AtHand, Named
  <2> QED
    BY <1>a, <2>5
<1>2. ASSUME NEW pr \in Proc, In(msg, undelivered'[pr])
      PROVE  Listed(msg) \/ Named(msg)
  <2>1. In(msg, undelivered[pr]) \/ Sends(msg)
    BY <1>2, ServerMail
  <2>2. CASE In(msg, undelivered[pr])
    BY <2>2 DEF Listed
  <2>3. CASE Sends(msg) /\ msg = Top.m
    <3>1. 1 \in DOMAIN calls /\ calls[1] = Top
      BY <1>0 DEF Top
    <3> QED
      BY <2>3, <3>1 DEF Named
  <2>4. CASE Sends(msg) /\ msg # Top.m
    <3>1. /\ Top.fn = "proc_started" /\ ptype_queue[Top.t] # <<>>
          /\ msg = Head(ptype_queue[Top.t])
      BY <2>4 DEF Sends
    <3>2. Top.t \in Ptype
      BY <1>0, <3>1, TopTypes DEF TypeCalls
    <3>3. ptype_queue[Top.t] \in Seq(Msg)
      BY <3>2 DEF TypeOK
    <3>4. In(msg, ptype_queue[Top.t])
      BY <3>1, <3>3, HeadIn
    <3> QED
      BY <3>2, <3>4 DEF Listed
  <2> QED
    BY <2>1, <2>2, <2>3, <2>4
<1>3. ASSUME NEW pr \in Proc, In(msg, delivered'[pr])
      PROVE  Listed(msg) \/ Named(msg)
  BY <1>3, ServerWork DEF Listed
<1>4. ASSUME \/ In(msg, queued')
             \/ \E pt \in Ptype : In(msg, ptype_queue'[pt])
      PROVE  Listed(msg) \/ Named(msg)
  BY <1>a, <1>4, ServerQueues
<1> QED
  BY <1>1, <1>2, <1>3, <1>4 DEF Listed

(* What a request brings to hand was sent by a process that is active, or  *)
(* is with a process already.                                              *)
LEMMA OutsideKnows ==
  ASSUME TypeOK, Outside, NEW msg \in Msg,
         state'[msg] # state[msg] \/ Listed(msg)' \/ Named(msg)'
  PROVE  Listed(msg) \/ Named(msg) \/ conn[SenderOf[msg]] = "active"
PROOF
<1>1. ASSUME NEW pr \in Proc, NEW m \in Msg, Dispatch(pr, m)
      PROVE  /\ conn[SenderOf[m]] = "active"
             /\ \A n \in Msg : n # m => state'[n] = state[n]
             /\ \A i \in DOMAIN calls' : calls'[i].m = m
             /\ UNCHANGED <<procVars, queueVars>>
  <2>1. calls' = <<OnMsg("deliver", m)>>
    BY <1>1 DEF Dispatch
  <2>2. \A i \in DOMAIN calls' : calls'[i].m = m
    BY <2>1, CallMessages
  <2>3. conn[SenderOf[m]] = "active" /\ UNCHANGED <<procVars, queueVars>>
    BY <1>1 DEF Dispatch, Client
  <2>4. \A n \in Msg : n # m => state'[n] = state[n]
    BY <1>1 DEF Dispatch, TypeOK
  <2> QED
    BY <2>2, <2>3, <2>4
<1>2. ASSUME NEW pr \in Proc, NEW m \in Msg, NEW s \in Answer, Update(pr, m, s)
      PROVE  /\ Listed(m)
             /\ \A i \in DOMAIN calls' : calls'[i].m \in {m, NoMsg}
             /\ UNCHANGED <<undelivered, delivered, queueVars, state>>
  <2> DEFINE f == [OnMsg("update", m) EXCEPT !.p = pr, !.s = s]
             g == OnType("proc_replied", SigPtype[OpOf[m]])
  <2>1. /\ Owes(pr, m) /\ (calls' = <<f>> \/ calls' = <<g, f>>)
        /\ UNCHANGED <<undelivered, delivered, queueVars, state>>
    BY <1>2 DEF Update, msgVars
  <2>2. f.m = m /\ g.m = NoMsg
    BY DEF OnMsg, OnType, Call
  <2> HIDE DEF f, g
  <2>3. \A i \in DOMAIN calls' : calls'[i].m \in {m, NoMsg}
    BY <2>1, <2>2
  <2> QED
    BY <2>1, <2>3 DEF Owes, Listed, In
<1>3. \A pr : OnProc("deactivate", pr).m = NoMsg
  BY CallMessages
<1>4. \A pr, t : [OnProc("proc_started", pr) EXCEPT !.t = t].m = NoMsg
  BY DEF OnProc, Call
<1>5. \A fn, pt : OnType(fn, pt).m = NoMsg
  BY CallMessages
<1>6. Call("pattern_added").m = NoMsg
  BY DEF Call
<1>7. ASSUME NEW f, f.m = NoMsg, calls' = <<f>> \/ calls' = <<>>
      PROVE  \A i \in DOMAIN calls' : calls'[i].m = NoMsg
  BY <1>7
<1>8. CASE /\ UNCHANGED <<state, queueVars>>
           /\ \/ UNCHANGED calls
              \/ \A i \in DOMAIN calls' : calls'[i].m = NoMsg
  <2>1. Named(msg)' => Named(msg)
    BY <1>8, ConstantsAssumption DEF Named
  <2>2. \A pr \in Proc : In(msg, undelivered'[pr]) \/ In(msg, delivered'[pr]) =>
          Listed(msg)
    <3>1. ASSUME NEW pr \in Proc, In(msg, undelivered'[pr])
          PROVE  Listed(msg)
      BY <3>1, OutsideMail DEF Listed
    <3>2. ASSUME NEW pr \in Proc, In(msg, delivered'[pr])
          PROVE  Listed(msg)
      <4>1. CASE In(msg, delivered[pr])
        BY <4>1 DEF Listed
      <4>2. CASE NextMessage(pr) /\ msg = Head(undelivered[pr])
        <5>1. undelivered[pr] # <<>> /\ undelivered[pr] \in Seq(Msg)
          BY <4>2 DEF NextMessage, TypeOK
        <5> QED
          BY <4>2, <5>1, HeadIn DEF Listed
      <4> QED
        BY <3>2, <4>1, <4>2, OutsideMail
    <3> QED
      BY <3>1, <3>2
  <2>3. Listed(msg)' => Listed(msg)
    BY <1>8, <2>2 DEF Listed, queueVars
  <2> QED
    BY <1>8, <2>1, <2>3
<1>9. CASE \E pr \in Proc, m \in Msg : Dispatch(pr, m)
  <2>1. PICK pr \in Proc, m \in Msg : Dispatch(pr, m)
    BY <1>9
  <2>2. CASE msg = m
    BY <1>1, <2>1, <2>2
  <2>3. CASE msg # m
    BY <1>1, <2>1, <2>3 DEF Listed, Named, procVars, queueVars
  <2> QED
    BY <2>2, <2>3
<1>10. CASE \E pr \in Proc, m \in Msg, s \in Answer : Update(pr, m, s)
  <2>1. PICK pr \in Proc, m \in Msg, s \in Answer : Update(pr, m, s)
    BY <1>10
  <2>2. CASE msg = m
    BY <1>2, <2>1, <2>2
  <2>3. CASE msg # m
    BY <1>2, <2>1, <2>3, ConstantsAssumption DEF Listed, Named, queueVars
  <2> QED
    BY <2>2, <2>3
<1>11. CASE \/ SigChld \/ NotifyStartFailure
            \/ \E pr \in Proc : Crash(pr) \/ ChannelLost(pr) \/ NextMessage(pr)
            \/ \E pr \in Proc, m \in Msg : Accept(pr, m)
  <2>1. UNCHANGED <<state, queueVars>>
    BY <1>11 DEF SigChld, NotifyStartFailure, Crash, ChannelLost, NextMessage, Accept,
       msgVars
  <2>2. \/ UNCHANGED calls
        \/ \A i \in DOMAIN calls' : calls'[i].m = NoMsg
    BY <1>3, <1>5, <1>7, <1>11 DEF SigChld, NotifyStartFailure, Crash, ChannelLost,
       NextMessage, Accept
  <2> QED
    BY <1>8, <2>1, <2>2
<1>12. CASE \E pr \in Proc : Connect(pr) \/ Close(pr) \/ PatternRequest(pr)
  <2>1. UNCHANGED <<state, queueVars>>
    BY <1>12 DEF Connect, Close, PatternRequest, JoinSession, QuitSession,
       DeclarePtype, UndeclarePtype, AddPattern, DelPattern, OnlyPatterns, msgVars
  <2>2. ASSUME NEW pr \in Proc, Connect(pr)
        PROVE  \A i \in DOMAIN calls' : calls'[i].m = NoMsg
    <3> DEFINE f == [OnProc("proc_started", pr) EXCEPT !.t = start_token[pr]]
    <3>1. f.m = NoMsg
      BY <1>4
    <3>2. calls' = <<f>> \/ calls' = <<>>
      BY <2>2 DEF Connect
    <3> HIDE DEF f
    <3> QED
      BY <1>7, <3>1, <3>2
  <2>3. ASSUME NEW pr \in Proc, Close(pr)
        PROVE  \A i \in DOMAIN calls' : calls'[i].m = NoMsg
    BY <1>3, <1>7, <2>3 DEF Close
  <2>4. ASSUME NEW pr \in Proc, PatternRequest(pr)
        PROVE  UNCHANGED calls \/ \A i \in DOMAIN calls' : calls'[i].m = NoMsg
    BY <1>6, <1>7, <2>4 DEF PatternRequest, JoinSession, QuitSession, DeclarePtype,
       UndeclarePtype, AddPattern, DelPattern
  <2> QED
    BY <1>8, <1>12, <2>1, <2>2, <2>3, <2>4
<1> QED
  BY <1>9, <1>10, <1>11, <1>12 DEF Outside, MessageRequest

LEMMA NextSent ==
  ASSUME TypeOK, TypeOK', LoopsInBounds, SentBySomeone, ServerStep \/ Outside
  PROVE  SentBySomeone'
PROOF
<1> SUFFICES ASSUME NEW msg \in Msg,
                    state'[msg] # "CREATED" \/ Listed(msg)' \/ Named(msg)'
             PROVE  conn'[SenderOf[msg]] # "none"
  BY DEF SentBySomeone, Sent
<1>1. SenderOf[msg] \in Proc
  BY ConstantsAssumption
<1>2. conn[SenderOf[msg]] # "none" => conn'[SenderOf[msg]] # "none"
  BY <1>1, ServerConn, OutsideConn
<1>3. \/ state[msg] # "CREATED"
      \/ state'[msg] # state[msg] \/ Listed(msg)' \/ Named(msg)'
  OBVIOUS
<1>4. ASSUME ServerStep, state'[msg] # state[msg] \/ Listed(msg)' \/ Named(msg)'
      PROVE  Listed(msg) \/ Named(msg)
  BY <1>4, ServerState, ServerKnows, ConstantsAssumption DEF AtHand
<1>5. ASSUME Outside, state'[msg] # state[msg] \/ Listed(msg)' \/ Named(msg)'
      PROVE  Listed(msg) \/ Named(msg) \/ conn[SenderOf[msg]] = "active"
  BY <1>5, OutsideKnows
<1> QED
  BY <1>2, <1>3, <1>4, <1>5 DEF SentBySomeone, Sent

-----------------------------------------------------------------------------
(* What the sender of a request is told.                                   *)

(* An active sender knows the outcome of its request, has a message that   *)
(* tells it, or the server is about to send it one.                        *)
WillKnow(msg) ==
  \/ sender_copy[msg] = state[msg]
  \/ In(msg, undelivered[SenderOf[msg]])
  \/ Reporting(msg)

Told ==
  \A msg \in Msg :
    state[msg] \in Final /\ conn[SenderOf[msg]] = "active" => WillKnow(msg)

LEMMA ServerTells ==
  ASSUME TypeOK, LoopsInBounds, Cleanups, Told, ServerStep
  PROVE  Told'
PROOF
<1>0. calls # <<>> /\ calls \in Seq(Frame)
  BY ServerCalls DEF TypeOK
<1> SUFFICES ASSUME NEW msg \in Msg, state'[msg] \in Final,
                    conn'[SenderOf[msg]] = "active"
             PROVE  WillKnow(msg)'
  BY DEF Told
<1> DEFINE sender == SenderOf[msg]
<1>1. sender \in Proc
  BY ConstantsAssumption
<1>2. conn[sender] = "active"
  BY <1>1, ServerConn
<1>3. CASE state'[msg] # state[msg]
  BY <1>3, ServerState DEF WillKnow
<1>4. CASE state'[msg] = state[msg] /\ sender_copy[msg] = state[msg]
  <2>1. UNCHANGED sender_copy
    BY DEF ServerStep, Report, DeliverToHandler, DeliverToNobody, NoRecipientsStart,
       StartFailed, NoRecipientsQueue, Deactivate, OrphanUndelivered, OrphanDelivered,
       OrphansDone, ProcStarted, ProcStartedIdly, ProcReplied, Redeliver, Redelivered,
       LaunchFailed, PatternAdded, PatternDelivered, UpdateFinal, UpdateRejected,
       UpdateUnknown, msgVars
  <2> QED
    BY <1>4, <2>1 DEF WillKnow
<1>5. CASE In(msg, undelivered[sender])
  <2>1. 1 \in DOMAIN calls /\ calls[1] = Top
    BY <1>0 DEF Top
  <2>2. ~(Top.fn = "orphans" /\ Top.p = sender)
    BY <1>2, <2>1 DEF Cleanups
  <2>3. In(msg, undelivered'[sender])
    BY <1>1, <1>5, <2>2, ServerMail
  <2> QED
    BY <2>3 DEF WillKnow
<1>6. CASE Reporting(msg)
  <2>1. PICK i \in DOMAIN calls : calls[i].fn = "report" /\ calls[i].m = msg
    BY <1>6 DEF Reporting
  <2>2. CASE i # 1
    BY <2>1, <2>2, CallsStay DEF WillKnow, Reporting
  <2>3. CASE i = 1
    <3>1. Top.fn = "report" /\ Top.m = msg
      BY <2>1, <2>3 DEF Top
    <3>2. Report
      BY <3>1 DEF ServerStep, DeliverToHandler, DeliverToNobody, NoHandler,
         NoRecipientsStart, StartFailed, NoRecipientsQueue, Deactivate,
         OrphanUndelivered, OrphanDelivered, OrphansDone, ProcStarted, ProcStartedIdly,
         ProcReplied, Redeliver, Redelivered, LaunchFailed, PatternAdded,
         PatternDelivered, UpdateFinal, UpdateRejected, UpdateUnknown, Running
    <3>3. PICK ok, lost : AddMessage(sender, msg, ok, lost)
      BY <3>1, <3>2 DEF Report
    <3> HIDE DEF sender
    <3>4. In(msg, undelivered'[sender])
      BY <1>1, <1>2, <3>3, AddMessageMail
    <3> QED
      BY <3>4 DEF WillKnow, sender
  <2> QED
    BY <2>2, <2>3
<1> QED
  BY <1>2, <1>3, <1>4, <1>5, <1>6 DEF Told, WillKnow

LEMMA OutsideTells ==
  ASSUME TypeOK, StartsHavePtype, SentBySomeone, Told, Outside
  PROVE  Told'
PROOF
<1> SUFFICES ASSUME NEW msg \in Msg, state'[msg] \in Final,
                    conn'[SenderOf[msg]] = "active"
             PROVE  WillKnow(msg)'
  BY DEF Told
<1> DEFINE sender == SenderOf[msg]
<1>1. sender \in Proc
  BY ConstantsAssumption
<1>2. state'[msg] = state[msg]
  <2>1. \/ UNCHANGED state
        \/ \E m \in Msg : state' = [state EXCEPT ![m] = "SENT"]
    BY OutsideProcs DEF Dispatch
  <2> QED
    BY <2>1 DEF TypeOK, Final
<1>3. conn[sender] = "active"
  <2>1. conn[sender] # "none"
    BY <1>2 DEF SentBySomeone, Sent, Final
  <2> QED
    BY <1>1, <2>1, OutsideConn DEF Connect
<1>4. WillKnow(msg)
  BY <1>2, <1>3 DEF Told
<1>5. ASSUME sender_copy[msg] = state[msg]
      PROVE  sender_copy'[msg] = state[msg]
  <2>1. \/ UNCHANGED sender_copy
        \/ \E m \in Msg : /\ state' = [state EXCEPT ![m] = "SENT"]
                          /\ sender_copy' = [sender_copy EXCEPT ![m] = "SENT"]
        \/ \E m : sender_copy' = [sender_copy EXCEPT ![m] = state[m]]
    BY OutsideProcs DEF Dispatch, NextMessage
  <2> QED
    BY <1>2, <1>5, <2>1 DEF TypeOK, Final
<1>6. ASSUME In(msg, undelivered[sender])
      PROVE  sender_copy'[msg] = state[msg] \/ In(msg, undelivered'[sender])
  <2>1. ASSUME NextMessage(sender), msg = Head(undelivered[sender])
        PROVE  sender_copy'[msg] = state[msg]
    <3>1. ~Processing(sender, msg)
      BY <1>2 DEF Processing
    <3>2. sender_copy' = [sender_copy EXCEPT ![msg] = state[msg]]
      BY <2>1, <3>1 DEF NextMessage
    <3> QED
      BY <3>2 DEF TypeOK
  <2> QED
    BY <1>1, <1>6, <2>1, OutsideMail
<1>7. ASSUME Reporting(msg)
      PROVE  Reporting(msg)'
  <2>1. ~Idle
    BY <1>7 DEF Reporting, Idle
  <2>2. UNCHANGED calls
    BY <2>1, OutsideCalls
  <2> QED
    BY <1>7, <2>2 DEF Reporting
<1> QED
  BY <1>2, <1>4, <1>5, <1>6, <1>7 DEF WillKnow

-----------------------------------------------------------------------------
(* The inductive invariant and what follows from it.                       *)

Delivery ==
  /\ Inductive /\ OnePattern /\ CleanedUp
  /\ AskedKnown /\ StartedAlone /\ RejectedStaysRejected
  /\ SentBySomeone /\ Told

LEMMA InitDelivery == Init => Delivery
PROOF
<1> SUFFICES ASSUME Init PROVE Delivery
  OBVIOUS
<1>1. Inductive
  BY InitInductive
<1> USE DEF Init
<1>2. OnePattern /\ CleanedUp
  BY DEF OnePattern, Distinct, CleanedUp, NothingOf, Owns
<1>3. AskedKnown /\ StartedAlone /\ RejectedStaysRejected
  BY ConstantsAssumption DEF AskedKnown, Asked, StartedAlone, RejectedStaysRejected
<1>4. SentBySomeone /\ Told
  BY DEF SentBySomeone, Listed, In, Named, Told, Final
<1> QED
  BY <1>1, <1>2, <1>3, <1>4 DEF Delivery

LEMMA NextDelivery ==
  ASSUME Delivery, [Next]_vars
  PROVE  Delivery'
PROOF
<1>1. Inductive' /\ TypeOK'
  BY NextInductive DEF Delivery, Inductive
<1>2. /\ TypeOK /\ LoopsInBounds /\ StartsHavePtype /\ Cleanups
      /\ OnePattern /\ CleanedUp
      /\ AskedKnown /\ StartedAlone /\ RejectedStaysRejected
      /\ SentBySomeone /\ Told
  BY InductiveParts DEF Delivery
<1>3. CASE ServerStep \/ Outside
  <2>1. OnePattern' /\ CleanedUp'
    BY <1>1, <1>2, <1>3, NextCleansUp
  <2>2. AskedKnown' /\ StartedAlone' /\ RejectedStaysRejected'
    BY <1>2, <1>3, NextAsks
  <2>3. SentBySomeone'
    BY <1>1, <1>2, <1>3, NextSent
  <2>4. Told'
    BY <1>2, <1>3, ServerTells, OutsideTells
  <2> QED
    BY <1>1, <2>1, <2>2, <2>3, <2>4 DEF Delivery
<1>4. CASE UNCHANGED vars
  <2> USE <1>4 DEF vars, childVars, procVars, msgVars, queueVars
  <2>1. OnePattern' /\ CleanedUp'
    BY <1>2 DEF OnePattern, CleanedUp, NothingOf, CleaningUp
  <2>2. AskedKnown' /\ StartedAlone' /\ RejectedStaysRejected'
    BY <1>2 DEF AskedKnown, Asked, StartedAlone, RejectedStaysRejected
  <2>3. SentBySomeone'
    BY <1>2 DEF SentBySomeone, Listed, Named, Sent
  <2>4. Told'
    BY <1>2 DEF Told, WillKnow, Reporting
  <2> QED
    BY <1>1, <2>1, <2>2, <2>3, <2>4 DEF Delivery
<1> QED
  BY <1>3, <1>4 DEF Next, Outside

LEMMA DeliveryInvariant == Spec => []Delivery
PROOF
  BY InitDelivery, NextDelivery, PTL DEF Spec

(* Between requests no message waits for a process that is gone or on its  *)
(* answer, and none of its patterns is left (deactivate and what it calls, *)
(* also when the channels of several processes break at once).             *)
THEOREM NothingIsLeftBehind == Spec => []NothingLeftBehind
PROOF
<1>1. Delivery => NothingLeftBehind
  <2> SUFFICES ASSUME Delivery, Idle, NEW pr \in Proc, conn[pr] # "active"
               PROVE  /\ undelivered[pr] = <<>> /\ delivered[pr] = <<>>
                      /\ \A op \in Op : ~Registered(pr, op)
    BY DEF NothingLeftBehind
  <2>1. ~CleaningUp(pr)
    BY DEF CleaningUp, Idle
  <2>2. NothingOf(pr)
    BY <2>1 DEF Delivery, CleanedUp
  <2> QED
    BY <2>2 DEF NothingOf, Owns, Registered, HasPattern
<1> QED
  BY <1>1, DeliveryInvariant, PTL

(* A process that rejected a request is never its handler again, unless it *)
(* is forgotten because it is gone: neither the patterns nor a start of a  *)
(* process give it the request (already_tried, proc_started).              *)
THEOREM RejectionsStand == Spec => []RejectedStaysRejected
PROOF
<1>1. Delivery => RejectedStaysRejected
  BY DEF Delivery
<1> QED
  BY <1>1, DeliveryInvariant, PTL

(* Between requests, an active sender has learnt the outcome of its        *)
(* request or has the message that tells it waiting (change_state,         *)
(* report_state_change and next_message), with any dispositions.           *)
THEOREM SendersWillKnow == Spec => []SenderWillKnow
PROOF
<1>1. Delivery => SenderWillKnow
  <2> SUFFICES ASSUME Delivery, Idle, NEW msg \in Msg, state[msg] \in Final,
                      conn[SenderOf[msg]] = "active"
               PROVE  \/ sender_copy[msg] = state[msg]
                      \/ msg \in ToSet(undelivered[SenderOf[msg]])
    BY DEF SenderWillKnow
  <2>1. WillKnow(msg) /\ ~Reporting(msg)
    BY DEF Delivery, Told, Idle, Reporting
  <2> QED
    BY <2>1 DEF WillKnow, In, ToSet
<1> QED
  BY <1>1, DeliveryInvariant, PTL

-----------------------------------------------------------------------------
(* Processes that are on their way.                                        *)

Stacked(fns, pt) == \E i \in DOMAIN calls : calls[i].fn \in fns /\ calls[i].t = pt
Failing(pt) == Stacked({"launch_failed"}, pt)
Redelivering(pt) == Stacked({"redeliver", "redelivered"}, pt)

(* The process forked last for the ptype runs, or its death is not dealt   *)
(* with: nobody waited for it yet, or its pid is recorded.                 *)
Coming(pt) ==
  /\ start_pid[pt] # NoProc
  /\ life[start_pid[pt]] = "running" \/ start_pid[pt] \in zombies \union failed_procs

(* Processes are forked once, each for one ptype, and tools never are.     *)
ForkedOnce ==
  /\ \A pr \in Tools : life[pr] # "unborn"
  /\ \A pt \in Ptype : start_pid[pt] # NoProc =>
       start_pid[pt] \notin Tools /\ life[start_pid[pt]] # "unborn"
  /\ \A pt, other \in Ptype :
       start_pid[pt] # NoProc /\ start_pid[pt] = start_pid[other] => pt = other

(* A ptype is marked as launching only while a process is on its way or    *)
(* the failure of the launch is being dealt with; its queue is not empty   *)
(* only while it is launching or the queue is being delivered.             *)
Launches(pt) ==
  /\ launching[pt] => Coming(pt) \/ Failing(pt)
  /\ ptype_queue[pt] # <<>> => launching[pt] \/ Redelivering(pt)

Starts == ForkedOnce /\ \A pt \in Ptype : Launches(pt)

LEMMA ForkStarts ==
  ASSUME TypeOK, ForkedOnce, NEW pt \in Ptype, Fork(pt)
  PROVE  /\ ForkedOnce' /\ Coming(pt)'
         /\ \A t \in Ptype : t # pt =>
              launching'[t] = launching[t] /\ (Coming(t) => Coming(t)')
PROOF
<1>1. PICK c \in Proc :
        /\ life[c] = "unborn"
        /\ life' = [life EXCEPT ![c] = "running"]
        /\ launching' = [launching EXCEPT ![pt] = TRUE]
        /\ start_pid' = [start_pid EXCEPT ![pt] = c]
        /\ UNCHANGED <<zombies, failed_procs>>
  BY DEF Fork
<1>2. /\ life'[c] = "running" /\ \A p \in Proc : p # c => life'[p] = life[p]
      /\ start_pid'[pt] = c /\ \A t \in Ptype : t # pt => start_pid'[t] = start_pid[t]
      /\ \A t \in Ptype : t # pt => launching'[t] = launching[t]
      /\ c # NoProc /\ c \notin Tools
      /\ \A t \in Ptype : start_pid[t] # c /\ start_pid[t] \in Proc \union {NoProc}
  BY <1>1, ConstantsAssumption DEF TypeOK, ForkedOnce
<1>3. ForkedOnce'
  BY <1>2, ConstantsAssumption DEF ForkedOnce
<1>4. Coming(pt)'
  BY <1>2 DEF Coming
<1>5. ASSUME NEW t \in Ptype, t # pt, Coming(t)
      PROVE  Coming(t)'
  BY <1>1, <1>2, <1>5 DEF Coming
<1> QED
  BY <1>2, <1>3, <1>4, <1>5

(* Only the step of a loop itself takes it off the stack.                  *)
LEMMA StillStacked ==
  ASSUME TypeOK, ServerStep, NEW fns, NEW pt, Stacked(fns, pt),
         Top.fn \notin fns \/ Top.t # pt
  PROVE  Stacked(fns, pt)'
PROOF
<1>1. calls # <<>>
  BY ServerCalls
<1>2. PICK i \in DOMAIN calls : calls[i].fn \in fns /\ calls[i].t = pt
  BY DEF Stacked
<1>3. i # 1
  BY <1>1, <1>2 DEF Top
<1>4. \E j \in DOMAIN calls' : calls'[j] = calls[i]
  BY <1>3, CallsStay
<1> QED
  BY <1>2, <1>4 DEF Stacked

LEMMA NowStacked ==
  ASSUME TypeOK, calls # <<>>, NEW cs \in Seq(Frame), Then(cs),
         NEW i \in DOMAIN cs, NEW fns, cs[i].fn \in fns
  PROVE  Stacked(fns, cs[i].t)'
PROOF
<1>1. i \in DOMAIN calls' /\ calls'[i] = cs[i]
  BY ThenKeeps DEF TypeOK
<1> QED
  BY <1>1 DEF Stacked

(* Pushing one call, or two.                                               *)
LEMMA OneCall ==
  ASSUME NEW f \in Frame
  PROVE  \E cs \in Seq(Frame) : cs = <<f>> /\ 1 \in DOMAIN cs /\ cs[1] = f
PROOF
<1>1. <<f>> \in Seq(Frame) /\ DOMAIN <<f>> = {1} /\ <<f>>[1] = f
  OBVIOUS
<1> QED
  BY <1>1

LEMMA TwoCalls ==
  ASSUME NEW f \in Frame, NEW g \in Frame
  PROVE  /\ \E cs \in Seq(Frame) : cs = <<f, g>> /\ 2 \in DOMAIN cs /\ cs[2] = g
         /\ \E cs \in Seq(Frame) : cs = <<f>> \o <<g>> /\ 2 \in DOMAIN cs /\ cs[2] = g
PROOF
<1>1. <<f, g>> \in Seq(Frame) /\ DOMAIN <<f, g>> = {1, 2} /\ <<f, g>>[2] = g
  OBVIOUS
<1> DEFINE both == <<f>> \o <<g>>
<1>2. both \in Seq(Frame) /\ 2 \in DOMAIN both /\ both[2] = g
  OBVIOUS
<1> HIDE DEF both
<1>3. \E cs \in Seq(Frame) : cs = both /\ 2 \in DOMAIN cs /\ cs[2] = g
  BY <1>2
<1> QED
  BY <1>1, <1>3 DEF both

LEMMA ServerForks ==
  ASSUME ~ForkMayFail, Inductive, Starts, ServerStep
  PROVE  Starts'
PROOF
<1>0. /\ TypeOK /\ OneLoop /\ StartsHavePtype /\ ForkedOnce
      /\ \A pt \in Ptype : Launches(pt)
      /\ calls # <<>> /\ calls \in Seq(Frame)
  BY ServerCalls DEF Inductive, Starts, TypeOK
<1>a. /\ Top \in Frame
      /\ Top.fn \in TypeCalls => Top.t \in Ptype
      /\ 1 \in DOMAIN calls /\ calls[1] = Top
  BY <1>0, TopTypes DEF Top
<1>b. \A fns : \A pt : Stacked(fns, pt) /\ (Top.fn \notin fns \/ Top.t # pt) => Stacked(fns, pt)'
  BY <1>0, StillStacked
<1>c. /\ \A pt : Failing(pt) /\ (Top.fn # "launch_failed" \/ Top.t # pt) => Failing(pt)'
      /\ \A pt : Redelivering(pt) /\ (Top.fn \notin {"redeliver", "redelivered"} \/ Top.t # pt)
           => Redelivering(pt)'
  BY <1>b DEF Failing, Redelivering
<1>d. Top.fn \in Loops =>
        \A pt : /\ Failing(pt) => Top.fn = "launch_failed" /\ Top.t = pt
                /\ Redelivering(pt) => Top.fn \in {"redeliver", "redelivered"} /\ Top.t = pt
  BY <1>0, <1>a DEF Failing, Redelivering, Stacked, OneLoop, Loops, TypeCalls
<1>e. ASSUME NEW cs \in Seq(Frame), Then(cs), NEW i \in DOMAIN cs
      PROVE  /\ cs[i].fn \in {"redeliver", "redelivered"} => Redelivering(cs[i].t)'
             /\ cs[i].fn = "launch_failed" => Failing(cs[i].t)'
  BY <1>0, <1>e, NowStacked DEF Redelivering, Failing
<1>f. ASSUME UNCHANGED <<life, zombies, failed_procs, start_pid>>
      PROVE  ForkedOnce' /\ \A pt : Coming(pt)' <=> Coming(pt)
  BY <1>0, <1>f DEF ForkedOnce, Coming
<1>1. CASE /\ UNCHANGED <<life, zombies, failed_procs, start_pid, launching, ptype_queue>>
           /\ Top.fn \notin {"launch_failed", "redeliver", "redelivered"}
  BY <1>0, <1>1, <1>c, <1>f DEF Starts, Launches
<1>2. CASE NoRecipientsStart
  <2>a. PICK m \in Msg :
          /\ "start" \in reliability[m] /\ Top.fn = "deliver"
          /\ \E pt : /\ pt = SigPtype[OpOf[m]]
                   /\ \/ /\ launching[pt] \/ ptype_queue[pt] # <<>>
                         /\ UNCHANGED <<life, zombies, failed_procs, start_pid, launching>>
                      \/ Fork(pt)
                   /\ ptype_queue' = [ptype_queue EXCEPT ![pt] = Append(@, m)]
    BY <1>2 DEF NoRecipientsStart, NoHandler, Running, StartsAnew, ForkFails, childVars
  <2>1. PICK pt :
          /\ pt = SigPtype[OpOf[m]] /\ "start" \in reliability[m] /\ Top.fn = "deliver"
          /\ \/ /\ launching[pt] \/ ptype_queue[pt] # <<>>
                /\ UNCHANGED <<life, zombies, failed_procs, start_pid, launching>>
             \/ Fork(pt)
          /\ ptype_queue' = [ptype_queue EXCEPT ![pt] = Append(@, m)]
    BY <2>a
  <2>2. pt \in Ptype
    BY <1>0, <2>1 DEF StartsHavePtype
  <2>3. \A t \in Ptype : t # pt => ptype_queue'[t] = ptype_queue[t]
    BY <1>0, <2>1, <2>2 DEF TypeOK
  <2>4. \A t : (Failing(t) => Failing(t)') /\ (Redelivering(t) => Redelivering(t)')
    BY <1>c, <2>1
  <2>5. CASE Fork(pt)
    <3>1. /\ ForkedOnce' /\ Coming(pt)'
          /\ \A t \in Ptype : t # pt =>
               launching'[t] = launching[t] /\ (Coming(t) => Coming(t)')
      BY <1>0, <2>2, <2>5, ForkStarts
    <3>2. launching'[pt] = TRUE
      BY <1>0, <2>2, <2>5 DEF Fork, TypeOK
    <3>3. ASSUME NEW t \in Ptype
          PROVE  Launches(t)'
      BY <1>0, <2>3, <2>4, <3>1, <3>2 DEF Launches
    <3> QED
      BY <3>1, <3>3 DEF Starts
  <2>6. CASE ~Fork(pt)
    <3>1. ASSUME NEW t \in Ptype
          PROVE  Launches(t)'
      <4>1. Launches(t) /\ launching'[t] = launching[t] /\ (Coming(t) => Coming(t)')
        BY <1>0, <1>f, <2>1, <2>6
      <4>2. ptype_queue'[t] = ptype_queue[t] \/ (t = pt /\ (launching[t] \/ Redelivering(t)))
        BY <1>0, <2>1, <2>3, <2>6 DEF Launches
      <4> QED
        BY <2>4, <4>1, <4>2 DEF Launches
    <3> QED
      BY <1>f, <2>1, <2>6, <3>1 DEF Starts
  <2> QED
    BY <2>5, <2>6
<1>3. CASE ProcStarted
  <2>1. PICK pt \in Ptype : pt = Top.t /\ Top.fn = "proc_started"
    BY <1>a, <1>3 DEF ProcStarted, Running, TypeCalls
  <2>2. /\ UNCHANGED <<life, zombies, failed_procs, start_pid, launching>>
        /\ ptype_queue' = [ptype_queue EXCEPT ![pt] = Tail(@)] /\ ptype_queue[pt] # <<>>
    BY <1>3, <2>1 DEF ProcStarted, childVars
  <2>3. \A t \in Ptype : ptype_queue'[t] # <<>> => ptype_queue[t] # <<>>
    BY <1>0, <2>2 DEF TypeOK
  <2>4. ASSUME NEW t \in Ptype
        PROVE  Launches(t)'
    BY <1>0, <1>c, <1>f, <2>1, <2>2, <2>3 DEF Launches
  <2> QED
    BY <1>f, <2>2, <2>4 DEF Starts
<1>4. CASE ProcReplied
  <2>1. PICK pt \in Ptype : pt = Top.t /\ Top.fn = "proc_replied"
    BY <1>a, <1>4 DEF ProcReplied, Running, TypeCalls
  <2>2. /\ UNCHANGED <<life, zombies, failed_procs, start_pid, ptype_queue>>
        /\ launching' = [launching EXCEPT ![pt] = FALSE]
        /\ launching[pt] => Then(<<OnType("redeliver", pt)>>)
    BY <1>4, <2>1 DEF ProcReplied, childVars
  <2>3. /\ launching'[pt] = FALSE
        /\ \A t \in Ptype : t # pt => launching'[t] = launching[t]
    BY <1>0, <2>2 DEF TypeOK
  <2>4. launching[pt] => Redelivering(pt)'
    <3> DEFINE f == OnType("redeliver", pt)
    <3>1. f \in Frame /\ f.fn = "redeliver" /\ f.t = pt
      BY Frames DEF TypeCalls, ProcCalls
    <3>2. launching[pt] => Then(<<f>>)
      BY <2>2
    <3> HIDE DEF f
    <3>3. PICK cs \in Seq(Frame) : cs = <<f>> /\ 1 \in DOMAIN cs /\ cs[1] = f
      BY <3>1, OneCall
    <3> QED
      BY <1>e, <3>1, <3>2, <3>3
  <2>5. \A t : ~Redelivering(t) /\ ~Failing(t)
    BY <1>d, <2>1 DEF Loops, TypeCalls
  <2>6. ASSUME NEW t \in Ptype
        PROVE  Launches(t)'
    BY <1>0, <1>f, <2>2, <2>3, <2>4, <2>5 DEF Launches
  <2> QED
    BY <1>f, <2>2, <2>6 DEF Starts
<1>5. CASE Redeliver
  <2>1. PICK pt \in Ptype : pt = Top.t /\ Top.fn = "redeliver"
    BY <1>a, <1>5 DEF Redeliver, Running, TypeCalls
  <2>2. UNCHANGED <<life, zombies, failed_procs, start_pid, launching, ptype_queue>>
    BY <1>5 DEF Redeliver, queueVars, childVars
  <2>3. ASSUME ptype_queue[pt] # <<>>
        PROVE  Redelivering(pt)'
    <3>1. PICK m \in Msg : m = Head(ptype_queue[pt])
      BY <1>0, <2>3 DEF TypeOK
    <3> DEFINE f == OnMsg("deliver", m)
               g == OnType("redelivered", pt)
    <3>2. Then(<<f, g>>)
      BY <1>5, <2>1, <2>3, <3>1 DEF Redeliver
    <3>3. f \in Frame /\ g \in Frame /\ g.fn = "redelivered" /\ g.t = pt
      BY Frames DEF TypeCalls, ProcCalls
    <3> HIDE DEF f, g
    <3>4. PICK cs \in Seq(Frame) : cs = <<f, g>> /\ 2 \in DOMAIN cs /\ cs[2] = g
      BY <3>3, TwoCalls
    <3> QED
      BY <1>e, <3>2, <3>3, <3>4
  <2>4. ASSUME NEW t \in Ptype
        PROVE  Launches(t)'
    BY <1>0, <1>c, <1>f, <2>1, <2>2, <2>3 DEF Launches
  <2> QED
    BY <1>f, <2>2, <2>4 DEF Starts
<1>6. CASE Redelivered
  <2>1. PICK pt \in Ptype : pt = Top.t /\ Top.fn = "redelivered"
    BY <1>a, <1>6 DEF Redelivered, Running, TypeCalls
  <2>2. \A t : ~Failing(t) /\ (Redelivering(t) => t = pt)
    BY <1>d, <2>1 DEF Loops, TypeCalls
  <2>3. CASE ret
    <3>1. /\ UNCHANGED <<life, zombies, failed_procs, start_pid, launching>>
          /\ \A t \in Ptype : t # pt => ptype_queue'[t] = ptype_queue[t]
      BY <1>0, <1>6, <2>1, <2>3 DEF Redelivered, childVars, TypeOK
    <3>2. Redelivering(pt)'
      <4> DEFINE f == OnType("redeliver", pt)
      <4>1. f \in Frame /\ f.fn = "redeliver" /\ f.t = pt
        BY Frames DEF TypeCalls, ProcCalls
      <4>2. Then(<<f>>)
        BY <1>6, <2>1, <2>3 DEF Redelivered
      <4> HIDE DEF f
      <4>3. PICK cs \in Seq(Frame) : cs = <<f>> /\ 1 \in DOMAIN cs /\ cs[1] = f
        BY <4>1, OneCall
      <4> QED
        BY <1>e, <4>1, <4>2, <4>3
    <3>3. ASSUME NEW t \in Ptype
          PROVE  Launches(t)'
      BY <1>0, <1>f, <2>2, <3>1, <3>2 DEF Launches
    <3> QED
      BY <1>f, <3>1, <3>3 DEF Starts
  <2>4. CASE ~ret
    <3>1. Fork(pt) /\ UNCHANGED ptype_queue
      BY <1>6, <2>1, <2>4 DEF Redelivered, ForkFails
    <3>2. /\ ForkedOnce' /\ Coming(pt)'
          /\ \A t \in Ptype : t # pt =>
               launching'[t] = launching[t] /\ (Coming(t) => Coming(t)')
      BY <1>0, <3>1, ForkStarts
    <3>3. launching'[pt] = TRUE
      BY <1>0, <3>1 DEF Fork, TypeOK
    <3>4. ASSUME NEW t \in Ptype
          PROVE  Launches(t)'
      BY <1>0, <2>2, <3>1, <3>2, <3>3 DEF Launches
    <3> QED
      BY <3>2, <3>4 DEF Starts
  <2> QED
    BY <2>3, <2>4
<1>7. CASE LaunchFailed
  <2>1. PICK pt \in Ptype : pt = Top.t /\ Top.fn = "launch_failed"
    BY <1>a, <1>7 DEF LaunchFailed, Running, TypeCalls
  <2>2. UNCHANGED <<life, zombies, failed_procs, start_pid>>
    BY <1>7 DEF LaunchFailed, childVars
  <2>3. \A t : ~Redelivering(t) /\ (Failing(t) => t = pt)
    BY <1>d, <2>1 DEF Loops, TypeCalls
  <2>4. CASE Top.m = NoMsg /\ ptype_queue[pt] = <<>>
    <3>1. /\ UNCHANGED ptype_queue /\ launching'[pt] = FALSE
          /\ \A t \in Ptype : t # pt => launching'[t] = launching[t]
      BY <1>0, <1>7, <2>1, <2>4 DEF LaunchFailed, TypeOK
    <3>2. ASSUME NEW t \in Ptype
          PROVE  Launches(t)'
      BY <1>0, <1>f, <2>2, <2>3, <2>4, <3>1 DEF Launches
    <3> QED
      BY <1>f, <2>2, <3>2 DEF Starts
  <2>5. CASE Top.m # NoMsg \/ ptype_queue[pt] # <<>>
    <3> DEFINE f == OnType("launch_failed", pt)
    <3>1. f \in Frame /\ f.fn = "launch_failed" /\ f.t = pt
      BY Frames DEF TypeCalls, ProcCalls
    <3>2. \E m \in Msg : Finish(m, "FAILED", <<f>>)
      <4>1. Top.m # NoMsg => Top.m \in Msg
        BY <1>0, TopTypes
      <4>2. ptype_queue[pt] # <<>> => Head(ptype_queue[pt]) \in Msg
        BY <1>0 DEF TypeOK
      <4> QED
        BY <1>7, <2>1, <2>5, <4>1, <4>2 DEF LaunchFailed
    <3>3. UNCHANGED launching /\ (ptype_queue'[pt] # <<>> => ptype_queue[pt] # <<>>)
          /\ \A t \in Ptype : t # pt => ptype_queue'[t] = ptype_queue[t]
      BY <1>0, <1>7, <2>1, <2>5 DEF LaunchFailed, TypeOK
    <3> HIDE DEF f
    <3>4. PICK m \in Msg : Then(<<f>>) \/ Then(<<OnMsg("report", m)>> \o <<f>>)
      BY <3>2 DEF Finish
    <3>5. \E cs \in Seq(Frame) : Then(cs) /\ \E i \in DOMAIN cs : cs[i] = f
      <4> DEFINE r == OnMsg("report", m)
      <4>1. r \in Frame
        BY Frames
      <4>2. Then(<<f>>) \/ Then(<<r>> \o <<f>>)
        BY <3>4
      <4> HIDE DEF r
      <4>3. PICK one \in Seq(Frame) : one = <<f>> /\ 1 \in DOMAIN one /\ one[1] = f
        BY <3>1, OneCall
      <4>4. PICK two \in Seq(Frame) : two = <<r>> \o <<f>> /\ 2 \in DOMAIN two /\ two[2] = f
        BY <3>1, <4>1, TwoCalls
      <4> QED
        BY <4>2, <4>3, <4>4
    <3>6. Failing(pt)'
      BY <1>e, <3>1, <3>5
    <3>7. ASSUME NEW t \in Ptype
          PROVE  Launches(t)'
      BY <1>0, <1>f, <2>2, <2>3, <3>3, <3>6 DEF Launches
    <3> QED
      BY <1>f, <2>2, <3>7 DEF Starts
  <2> QED
    BY <2>4, <2>5
<1>8. CASE ~(NoRecipientsStart \/ ProcStarted \/ ProcReplied \/ Redeliver
              \/ Redelivered \/ LaunchFailed)
  <2>1. /\ UNCHANGED <<life, zombies, failed_procs, start_pid, launching, ptype_queue>>
        /\ Top.fn \notin {"launch_failed", "redeliver", "redelivered"}
    BY <1>8 DEF ServerStep, Running, Report, DeliverToHandler, DeliverToNobody, NoHandler,
       StartFailed, NoRecipientsQueue, Deactivate, OrphanUndelivered, OrphanDelivered,
       OrphansDone, ProcStartedIdly, PatternAdded, PatternDelivered, UpdateFinal,
       UpdateRejected, UpdateUnknown, childVars, queueVars
  <2> QED
    BY <1>1, <2>1
<1> QED
  BY <1>2, <1>3, <1>4, <1>5, <1>6, <1>7, <1>8

LEMMA OutsideForks ==
  ASSUME Inductive, Starts, Outside
  PROVE  Starts'
PROOF
<1>0. TypeOK /\ StartsHavePtype /\ ForkedOnce /\ \A pt \in Ptype : Launches(pt)
  BY DEF Inductive, Starts
<1>1. UNCHANGED <<start_pid, launching, ptype_queue>>
  BY OutsideLeaves
<1>2. \A pt : /\ Failing(pt) => Failing(pt)'
              /\ Redelivering(pt) => Redelivering(pt)'
  BY <1>0, OutsideCalls DEF Failing, Redelivering, Stacked, Idle
<1>3. CASE UNCHANGED <<life, zombies, failed_procs>>
  BY <1>0, <1>1, <1>2, <1>3 DEF Starts, ForkedOnce, Launches, Coming
<1>4. CASE SigChld
  <2>1. UNCHANGED life /\ \A c : c \in zombies \union failed_procs =>
                                   c \in zombies' \union failed_procs'
    BY <1>4 DEF SigChld
  <2> QED
    BY <1>0, <1>1, <1>2, <2>1 DEF Starts, ForkedOnce, Launches, Coming
<1>5. ASSUME NEW pr \in Proc, Crash(pr)
      PROVE  Starts'
  <2>1. /\ life[pr] = "running" /\ life'[pr] = "dead"
        /\ \A p \in Proc : p # pr => life'[p] = life[p]
        /\ pr \notin Tools => pr \in zombies'
        /\ zombies \subseteq zombies' /\ UNCHANGED failed_procs
    BY <1>0, <1>5 DEF Crash, TypeOK
  <2>2. \A pt \in Ptype : start_pid[pt] \in Proc \union {NoProc}
    BY <1>0 DEF TypeOK
  <2>3. ForkedOnce'
    BY <1>0, <1>1, <2>1, <2>2, ConstantsAssumption DEF ForkedOnce
  <2>4. \A pt \in Ptype : Coming(pt) => Coming(pt)'
    BY <1>0, <1>1, <2>1, <2>2 DEF Coming, ForkedOnce
  <2> QED
    BY <1>0, <1>1, <1>2, <2>3, <2>4 DEF Starts, Launches
<1>6. CASE NotifyStartFailure
  <2>1. PICK c \in failed_procs :
          /\ failed_procs' = failed_procs \ {c}
          /\ \/ \E pt \in Ptype : /\ start_pid[pt] = c
                                  /\ calls' = <<OnType("launch_failed", pt)>>
             \/ \A pt \in Ptype : start_pid[pt] # c \/ ~launching[pt]
    BY <1>6 DEF NotifyStartFailure
  <2>2. UNCHANGED <<life, zombies>> /\ c \in Proc
    BY <1>0, <1>6 DEF NotifyStartFailure, TypeOK
  <2>3. ForkedOnce'
    BY <1>0, <1>1, <2>2 DEF ForkedOnce
  <2>4. \A pt \in Ptype : Coming(pt) => Coming(pt)' \/ start_pid[pt] = c
    BY <1>1, <2>1, <2>2 DEF Coming
  <2>5. ASSUME NEW pt \in Ptype, start_pid[pt] = c, launching[pt]
        PROVE  Failing(pt)'
    <3>1. PICK t \in Ptype : start_pid[t] = c /\ calls' = <<OnType("launch_failed", t)>>
      BY <2>1, <2>5
    <3>2. t = pt
      BY <1>0, <2>2, <2>5, <3>1, ConstantsAssumption DEF ForkedOnce
    <3> DEFINE f == OnType("launch_failed", pt)
    <3>3. f.fn = "launch_failed" /\ f.t = pt /\ calls' = <<f>>
      BY <3>1, <3>2 DEF OnType, Call
    <3> HIDE DEF f
    <3>4. 1 \in DOMAIN calls' /\ calls'[1] = f
      BY <3>3
    <3> QED
      BY <3>3, <3>4 DEF Failing, Stacked
  <2>6. ASSUME NEW pt \in Ptype
        PROVE  Launches(pt)'
    BY <1>0, <1>1, <1>2, <2>4, <2>5 DEF Launches
  <2> QED
    BY <2>3, <2>6 DEF Starts
<1>7. ASSUME NEW pr \in Proc, MessageRequest(pr)
      PROVE  UNCHANGED <<life, zombies, failed_procs>>
  <2>1. ASSUME Connect(pr) \/ NextMessage(pr) \/ Close(pr)
        PROVE  UNCHANGED <<life, zombies, failed_procs>>
    BY <2>1 DEF Connect, NextMessage, Close, childVars
  <2>2. ASSUME NEW msg \in Msg, Dispatch(pr, msg) \/ Accept(pr, msg)
        PROVE  UNCHANGED <<life, zombies, failed_procs>>
    BY <2>2 DEF Dispatch, Accept, childVars
  <2>3. ASSUME NEW msg \in Msg, NEW s \in Answer, Update(pr, msg, s)
        PROVE  UNCHANGED <<life, zombies, failed_procs>>
    BY <2>3 DEF Update, childVars
  <2> QED
    BY <1>7, <2>1, <2>2, <2>3 DEF MessageRequest
<1>8. ASSUME NEW pr \in Proc, PatternRequest(pr) \/ ChannelLost(pr)
      PROVE  UNCHANGED <<life, zombies, failed_procs>>
  BY <1>8 DEF PatternRequest, ChannelLost, JoinSession, QuitSession, DeclarePtype,
     UndeclarePtype, AddPattern, DelPattern, OnlyPatterns, childVars
<1>9. Outside => \/ UNCHANGED <<life, zombies, failed_procs>> \/ SigChld \/ NotifyStartFailure
                 \/ \E pr \in Proc : Crash(pr)
  BY <1>7, <1>8 DEF Outside
<1> QED
  BY <1>3, <1>4, <1>5, <1>6, <1>9

LEMMA StartsInvariant == ~ForkMayFail => (Spec => []Starts)
PROOF
<1>1. Init => Starts
  BY ConstantsAssumption DEF Init, Starts, ForkedOnce, Launches
<1>2. ~ForkMayFail /\ Inductive /\ Starts /\ [Next]_vars => Starts'
  <2>1. ASSUME ~ForkMayFail, Inductive, Starts, ServerStep \/ Outside
        PROVE  Starts'
    BY <2>1, ServerForks, OutsideForks
  <2>2. ASSUME Starts, UNCHANGED vars
        PROVE  Starts'
    BY <2>2 DEF vars, childVars, queueVars, Starts, ForkedOnce, Launches, Coming, Failing,
       Redelivering, Stacked
  <2> QED
    BY <2>1, <2>2 DEF Next, Outside
<1>3. ~ForkMayFail => (~ForkMayFail)'
  OBVIOUS
<1> QED
  BY <1>1, <1>2, <1>3, InductiveInvariant, PTL DEF Spec

(* As long as no two children died together there is at most one zombie,   *)
(* and then the signal that makes the server wait for it is pending.       *)
OneSignalled == ~merged => \A a, b \in zombies : a = b /\ sigchld

LEMMA ServerHearsNothing == ServerStep => UNCHANGED <<zombies, sigchld, merged>>
PROOF
<1> SUFFICES ASSUME ServerStep PROVE UNCHANGED <<zombies, sigchld, merged>>
  OBVIOUS
<1>1. ASSUME NEW pt, Fork(pt) \/ ForkFails(pt)
      PROVE  UNCHANGED <<zombies, sigchld, merged>>
  BY <1>1 DEF Fork, ForkFails, childVars
<1>2. CASE NoRecipientsStart
  BY <1>1, <1>2 DEF NoRecipientsStart, childVars
<1>3. CASE Redelivered
  BY <1>1, <1>3 DEF Redelivered, childVars
<1>4. CASE ~(NoRecipientsStart \/ Redelivered)
  BY <1>4 DEF ServerStep, Report, DeliverToHandler, DeliverToNobody, StartFailed,
     NoRecipientsQueue, Deactivate, OrphanUndelivered, OrphanDelivered, OrphansDone,
     ProcStarted, ProcStartedIdly, ProcReplied, Redeliver, LaunchFailed, PatternAdded,
     PatternDelivered, UpdateFinal, UpdateRejected, UpdateUnknown, childVars
<1> QED
  BY <1>2, <1>3, <1>4

LEMMA SignalsStep == OneSignalled /\ [Next]_vars => OneSignalled'
PROOF
<1> SUFFICES ASSUME OneSignalled, [Next]_vars PROVE OneSignalled'
  OBVIOUS
<1> USE DEF OneSignalled
<1>1. CASE UNCHANGED <<zombies, sigchld, merged>>
  BY <1>1
<1>2. CASE SigChld
  BY <1>2 DEF SigChld
<1>3. ASSUME NEW pr \in Proc, Crash(pr) PROVE OneSignalled'
  BY <1>3 DEF Crash
<1>4. ASSUME NEW pr \in Proc, MessageRequest(pr) \/ PatternRequest(pr) \/ ChannelLost(pr)
      PROVE  UNCHANGED <<zombies, sigchld, merged>>
  <2>1. ASSUME Connect(pr) \/ NextMessage(pr) \/ Close(pr) \/ ChannelLost(pr)
        PROVE  UNCHANGED <<zombies, sigchld, merged>>
    BY <2>1 DEF Connect, NextMessage, Close, ChannelLost, childVars
  <2>2. ASSUME NEW msg \in Msg, Dispatch(pr, msg) \/ Accept(pr, msg)
        PROVE  UNCHANGED <<zombies, sigchld, merged>>
    BY <2>2 DEF Dispatch, Accept, childVars
  <2>3. ASSUME NEW msg \in Msg, NEW s \in Answer, Update(pr, msg, s)
        PROVE  UNCHANGED <<zombies, sigchld, merged>>
    BY <2>3 DEF Update, childVars
  <2>4. ASSUME PatternRequest(pr)
        PROVE  UNCHANGED <<zombies, sigchld, merged>>
    BY <2>4 DEF PatternRequest, JoinSession, QuitSession, DeclarePtype, UndeclarePtype,
       AddPattern, DelPattern, OnlyPatterns, childVars
  <2> QED
    BY <1>4, <2>1, <2>2, <2>3, <2>4 DEF MessageRequest
<1>5. NotifyStartFailure \/ UNCHANGED vars => UNCHANGED <<zombies, sigchld, merged>>
  BY DEF NotifyStartFailure, vars, childVars
<1> QED
  BY <1>1, <1>2, <1>3, <1>4, <1>5, ServerHearsNothing DEF Next

(* Between requests, while messages wait for a ptype's process there is a  *)
(* launch that ends their wait: its process runs, or the server will hear  *)
(* of its death, or some children died together and this is one of those   *)
(* nobody waits for.  launch, proc_started, the loop over the queue, its   *)
(* failure and notify_start_failure hand the duty to one another.  The     *)
(* hypothesis is that no fork() fails.                                     *)
THEOREM StartsArePending == ~ForkMayFail => (Spec => []StartIsPending)
PROOF
<1>1. Inductive /\ Starts /\ OneSignalled => StartIsPending
  <2> SUFFICES ASSUME Starts, OneSignalled, Idle, NEW pt \in Ptype, ptype_queue[pt] # <<>>
               PROVE  /\ launching[pt] /\ Coming(pt)
                      /\ start_pid[pt] \in zombies => sigchld \/ merged
    BY DEF StartIsPending, Coming
  <2>1. ~Failing(pt) /\ ~Redelivering(pt)
    BY DEF Failing, Redelivering, Stacked, Idle
  <2> QED
    BY <2>1 DEF Starts, Launches, OneSignalled
<1>2. Init => OneSignalled
  BY DEF Init, OneSignalled
<1> QED
  BY <1>1, <1>2, SignalsStep, InductiveInvariant, StartsInvariant, PTL DEF Spec
=============================================================================
