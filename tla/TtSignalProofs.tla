--------------------------- MODULE TtSignalProofs ---------------------------
(***************************************************************************)
(* Proofs about TtSignal, for any messages and any number of bytes on the  *)
(* channel: a process with messages is woken.                              *)
(***************************************************************************)
EXTENDS TtSignal, SequenceTheorems, TLAPS

Inductive == TypeOK /\ Covered

(* A list without one of its messages, and that message at its end, is a   *)
(* list of messages and not empty.                                         *)
LEMMA MoveToEnd ==
  ASSUME NEW q \in Seq(Msg), NEW i \in DOMAIN q, NEW m \in Msg
  PROVE  /\ Append(RemoveAt(q, i), m) \in Seq(Msg)
         /\ Append(RemoveAt(q, i), m) # <<>>
PROOF
<1>1. SubSeq(q, 1, i - 1) \in Seq(Msg) /\ SubSeq(q, i + 1, Len(q)) \in Seq(Msg)
  OBVIOUS
<1>2. RemoveAt(q, i) \in Seq(Msg)
  BY <1>1, ConcatProperties DEF RemoveAt
<1> QED
  BY <1>2, AppendProperties

(* What is in a list is at one of its places.                              *)
LEMMA InList ==
  ASSUME NEW q \in Seq(Msg), NEW m \in Msg, m \in ToSet(q)
  PROVE  q # <<>>
PROOF
  BY DEF ToSet

(* What the two terms of Covered may be.                                   *)
LEMMA Terms ==
  /\ AboutToRead \in {0, 1} /\ Unread \in {0, 1}
  /\ AboutToRead' \in {0, 1} /\ Unread' \in {0, 1}
PROOF
  BY DEF AboutToRead, Unread

(* A new message comes with a byte unless one counts as not read; moving a *)
(* message changes nothing that Covered depends on.                        *)
LEMMA AddMessageInductive ==
  ASSUME Inductive, NEW m \in Msg, AddMessage(m)
  PROVE  Inductive'
PROOF
<1>0. TypeOK /\ Covered
  BY DEF Inductive
<1>1. arrived' = arrived /\ client' = client /\ reply' = reply
      /\ AboutToRead' = AboutToRead
  BY DEF AddMessage, AboutToRead
<1>2. CASE m \in ToSet(undelivered)
  <2>1. undelivered # <<>> /\ undelivered \in Seq(Msg)
    BY <1>0, <1>2, InList DEF TypeOK
  <2>2. undelivered' \in Seq(Msg) /\ undelivered' # <<>>
    BY <1>2, <2>1, MoveToEnd DEF AddMessage
  <2>3. signalled' = signalled /\ flying' = flying /\ Unread' = Unread
    BY <1>2 DEF AddMessage, Unread
  <2> QED
    BY <1>0, <1>1, <2>1, <2>2, <2>3 DEF Inductive, TypeOK, Covered
<1>3. CASE m \notin ToSet(undelivered)
  <2>1. undelivered' \in Seq(Msg) /\ undelivered' # <<>>
    BY <1>0, <1>3, AppendProperties DEF AddMessage, TypeOK
  <2>2. signalled' = TRUE /\ flying' = flying + IF signalled THEN 0 ELSE 1
    BY <1>3 DEF AddMessage, Signal
  <2>3. Unread' = 1 /\ flying' = flying + 1 - Unread
    BY <1>0, <2>2 DEF Unread, TypeOK
  <2>4. flying' \in Nat /\ flying' + arrived' >= AboutToRead' + Unread'
    BY <1>0, <1>1, <2>3, Terms DEF TypeOK, Covered
  <2> QED
    BY <1>0, <1>1, <2>1, <2>2, <2>4 DEF Inductive, TypeOK, Covered
<1> QED
  BY <1>2, <1>3

(* Handing out the last message turns the byte that counts as not read     *)
(* into one the process is about to read.                                  *)
LEMMA NextMessageInductive ==
  ASSUME Inductive, NextMessage
  PROVE  Inductive'
PROOF
<1>0. TypeOK /\ Covered
  BY DEF Inductive
<1>1. /\ client = "asking" /\ client' = "replied"
      /\ flying' = flying /\ arrived' = arrived /\ AboutToRead = 0
  BY DEF NextMessage, AboutToRead
<1>2. CASE undelivered = <<>>
  <2>1. /\ reply' = [msg |-> NoMsg, clear_signal |-> signalled]
        /\ signalled' = FALSE /\ undelivered' = undelivered
    BY <1>2 DEF NextMessage
  <2>2. AboutToRead' = 0 /\ Unread' = 0 /\ reply' \in Reply
    BY <1>0, <2>1 DEF AboutToRead, Unread, Reply, TypeOK
  <2>3. TypeOK'
    BY <1>0, <1>1, <2>1, <2>2 DEF TypeOK
  <2>4. signalled' <=> undelivered' # <<>>
    BY <1>2, <2>1
  <2>5. flying' + arrived' >= AboutToRead' + Unread'
    BY <1>0, <1>1, <2>2 DEF TypeOK
  <2> QED
    BY <2>3, <2>4, <2>5 DEF Inductive, Covered
<1>3. CASE undelivered # <<>>
  <2>1. signalled /\ Unread = 1
    BY <1>0, <1>3 DEF Covered, Unread
  <2>2. Head(undelivered) \in Msg /\ Tail(undelivered) \in Seq(Msg)
    BY <1>0, <1>3, HeadTailProperties DEF TypeOK
  <2>3. /\ undelivered' = Tail(undelivered)
        /\ reply' = [msg |-> Head(undelivered),
                     clear_signal |-> Tail(undelivered) = <<>>]
        /\ signalled' = (Tail(undelivered) # <<>>)
    BY <1>0, <1>3, <2>1 DEF NextMessage, Drain, TypeOK
  <2>4. reply' \in Reply
    BY <2>2, <2>3 DEF Reply
  <2>5. AboutToRead' + Unread' = 1
    <3>1. CASE Tail(undelivered) = <<>>
      <4>1. reply'.msg = Head(undelivered) /\ reply'.clear_signal = TRUE
        BY <2>3, <3>1
      <4>2. AboutToRead' = 1
        BY <1>1, <2>2, <4>1, NoMsgAssumption DEF AboutToRead
      <4>3. Unread' = 0
        BY <2>3, <3>1 DEF Unread
      <4> QED
        BY <4>2, <4>3
    <3>2. CASE Tail(undelivered) # <<>>
      <4>1. reply'.clear_signal = FALSE
        BY <2>3, <3>2
      <4>2. AboutToRead' = 0
        BY <4>1 DEF AboutToRead
      <4>3. Unread' = 1
        BY <2>3, <3>2 DEF Unread
      <4> QED
        BY <4>2, <4>3
    <3> QED
      BY <3>1, <3>2
  <2>6. TypeOK'
    BY <1>0, <1>1, <2>2, <2>3, <2>4 DEF TypeOK
  <2>7. signalled' <=> undelivered' # <<>>
    BY <2>3
  <2>8. flying' + arrived' >= AboutToRead' + Unread'
    BY <1>0, <1>1, <2>1, <2>5 DEF TypeOK, Covered
  <2> QED
    BY <2>6, <2>7, <2>8 DEF Inductive, Covered
<1> QED
  BY <1>2, <1>3

(* The process reads a byte only when one is its own to read.              *)
LEMMA ReceivedInductive ==
  ASSUME Inductive, Received
  PROVE  Inductive'
PROOF
<1>0. TypeOK /\ Covered
  BY DEF Inductive
<1>1. /\ client' = "idle" /\ AboutToRead' = 0 /\ Unread' = Unread
      /\ undelivered' = undelivered /\ signalled' = signalled
      /\ flying' = flying /\ reply' = reply
  BY DEF Received, AboutToRead, Unread
<1>2. arrived' \in Nat /\ flying' + arrived' >= Unread
  <2>1. CASE AboutToRead = 1
    <3>1. arrived' = IF arrived > 0 THEN arrived - 1 ELSE 0
      BY <2>1 DEF Received, ReadByte, AboutToRead
    <3> QED
      BY <1>0, <1>1, <2>1, <3>1, Terms DEF TypeOK, Covered
  <2>2. CASE AboutToRead = 0
    <3>1. arrived' = arrived
      BY <2>2 DEF Received, AboutToRead
    <3> QED
      BY <1>0, <1>1, <2>2, <3>1, Terms DEF TypeOK, Covered
  <2> QED
    BY <2>1, <2>2, Terms
<1>3. TypeOK'
  BY <1>0, <1>1, <1>2 DEF TypeOK
<1>4. signalled' <=> undelivered' # <<>>
  BY <1>0, <1>1 DEF Covered
<1>5. flying' + arrived' >= AboutToRead' + Unread'
  <2>1. AboutToRead' + Unread' = Unread
    BY <1>1, Terms
  <2> QED
    BY <1>2, <2>1
<1> QED
  BY <1>3, <1>4, <1>5 DEF Inductive, Covered

LEMMA InitInductive == Init => Inductive
PROOF
<1> SUFFICES ASSUME Init
             PROVE  Inductive
  OBVIOUS
<1>1. TypeOK
  <2>1. reply \in Reply
    BY DEF Init, Reply
  <2>2. signalled \in BOOLEAN
    BY DEF Init
  <2> QED
    BY <2>1, <2>2, EmptySeq DEF Init, TypeOK
<1>2. AboutToRead = 0 /\ Unread = 0
  BY DEF Init, AboutToRead, Unread
<1>3. flying + arrived >= AboutToRead + Unread
  BY <1>2 DEF Init
<1>4. signalled <=> undelivered # <<>>
  BY DEF Init
<1> QED
  BY <1>1, <1>3, <1>4 DEF Inductive, Covered

LEMMA NextInductive == Inductive /\ [Next]_vars => Inductive'
PROOF
<1> SUFFICES ASSUME Inductive, [Next]_vars
             PROVE  Inductive'
  OBVIOUS
<1>0. TypeOK /\ Covered
  BY DEF Inductive
<1>1. CASE \E m \in Msg : AddMessage(m)
  BY <1>1, AddMessageInductive
<1>2. CASE NextMessage
  BY <1>2, NextMessageInductive
<1>3. CASE Arrive
  <2>1. AboutToRead' = AboutToRead /\ Unread' = Unread
    BY <1>3 DEF Arrive, AboutToRead, Unread
  <2>2. /\ flying' \in Nat /\ arrived' \in Nat
        /\ flying' + arrived' = flying + arrived
    BY <1>0, <1>3 DEF Arrive, TypeOK
  <2> QED
    BY <1>0, <1>3, <2>1, <2>2 DEF Arrive, Inductive, TypeOK, Covered
<1>4. CASE Receive
  <2>1. AboutToRead' = AboutToRead /\ Unread' = Unread
    BY <1>4 DEF Receive, AboutToRead, Unread
  <2> QED
    BY <1>0, <1>4, <2>1 DEF Receive, Inductive, TypeOK, Covered
<1>5. CASE Received
  BY <1>5, ReceivedInductive
<1>6. CASE UNCHANGED vars
  <2>1. AboutToRead' = AboutToRead /\ Unread' = Unread
    BY <1>6 DEF vars, AboutToRead, Unread
  <2> QED
    BY <1>0, <1>6, <2>1 DEF vars, Inductive, TypeOK, Covered
<1> QED
  BY <1>1, <1>2, <1>3, <1>4, <1>5, <1>6 DEF Next

LEMMA SignalInductive == Spec => []Inductive
PROOF
  BY InitInductive, NextInductive, PTL DEF Spec

(* A byte is on the channel while the server has messages for a process    *)
(* that is not about to receive, however many bytes were left unread and   *)
(* however the two connections delay what they carry (signal_new_message,  *)
(* next_message and clear_signal).                                         *)
THEOREM WokenUp == Spec => []WakeUp
PROOF
<1>1. Inductive => WakeUp
  <2> SUFFICES ASSUME Inductive, client = "idle", undelivered # <<>>
               PROVE  flying + arrived > 0
    BY DEF WakeUp
  <2>1. TypeOK /\ Covered
    BY DEF Inductive
  <2>2. Unread = 1
    BY <2>1 DEF Covered, Unread
  <2> QED
    BY <2>1, <2>2, Terms DEF TypeOK, Covered
<1> QED
  BY <1>1, SignalInductive, PTL

(* What the process is about to read and what the server counts as not     *)
(* read are different bytes (the flag in next_message and clear_signal).   *)
THEOREM BytesCovered == Spec => []Covered
PROOF
<1>1. Inductive => Covered
  BY DEF Inductive
<1> QED
  BY <1>1, SignalInductive, PTL

(* The types, in particular that the process never reads a byte that is    *)
(* not there (clear_signal).                                               *)
THEOREM SignalTypeCorrect == Spec => []TypeOK
PROOF
<1>1. Inductive => TypeOK
  BY DEF Inductive
<1> QED
  BY <1>1, SignalInductive, PTL
=============================================================================
