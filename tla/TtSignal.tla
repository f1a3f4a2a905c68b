------------------------------ MODULE TtSignal ------------------------------
(***************************************************************************)
(* How ttsession wakes a process that has messages.  The server writes a   *)
(* byte to the process's channel when it gives it a message, unless a byte *)
(* it wrote before counts as not read yet; the process, when its tt_fd is  *)
(* readable, asks for one message by RPC and, if the reply says that it    *)
(* was the last, reads a byte.  The byte and the reply travel on different *)
(* connections, and the server may have given the process another message  *)
(* and written another byte before the process reads the first.            *)
(*                                                                         *)
(* TtServer takes flag and byte for one variable, read with the reply;     *)
(* this module is one procid's channel with them apart.                    *)
(***************************************************************************)
EXTENDS Naturals, Sequences, SequencesExt

CONSTANTS Msg, NoMsg

ASSUME NoMsgAssumption == NoMsg \notin Msg

VARIABLES
    undelivered,    \* the server's list of messages for the process
    signalled,      \* _TT_PROC_SIGNALLED on the server
    flying,         \* bytes written that are not in the process's buffer yet
    arrived,        \* bytes in the buffer: tt_fd is readable
    client,         \* where the process is in tt_message_receive
    reply           \* what the RPC returned

vars == <<undelivered, signalled, flying, arrived, client, reply>>

Reply == [msg : Msg \union {NoMsg}, clear_signal : BOOLEAN]

Init ==
  /\ undelivered = <<>> /\ signalled = FALSE
  /\ flying = 0 /\ arrived = 0
  /\ client = "idle"
  /\ reply = [msg |-> NoMsg, clear_signal |-> FALSE]

-----------------------------------------------------------------------------
(* The server.                                                             *)

(* signal_new_message: a byte, unless one it wrote counts as not read yet. *)
Signal ==
  /\ signalled' = TRUE
  /\ flying' = flying + IF signalled THEN 0 ELSE 1

(* add_message: one that waits already only moves to the end.              *)
AddMessage(m) ==
  /\ IF m \in ToSet(undelivered)
     THEN /\ \E i \in DOMAIN undelivered :
               /\ undelivered[i] = m
               /\ undelivered' = Append(RemoveAt(undelivered, i), m)
          /\ UNCHANGED <<signalled, flying>>
     ELSE undelivered' = Append(undelivered, m) /\ Signal
  /\ UNCHANGED <<arrived, client, reply>>

(* Mutant of Drain: the flag stays when the last message is handed out.    *)
DrainUnflagged(rest) ==
  /\ reply' = [msg |-> Head(undelivered), clear_signal |-> rest = <<>>]
  /\ UNCHANGED signalled

(* The last message is handed out together with the duty to read the byte. *)
Drain(rest) ==
  /\ reply' = [msg |-> Head(undelivered),
               clear_signal |-> rest = <<>> /\ signalled]
  /\ signalled' = (rest # <<>> /\ signalled)

(* _Tt_s_procid::next_message.                                             *)
NextMessage ==
  /\ client = "asking"
  /\ client' = "replied"
  /\ IF undelivered = <<>>
     THEN /\ reply' = [msg |-> NoMsg, clear_signal |-> signalled]
          /\ signalled' = FALSE
          /\ UNCHANGED undelivered
     ELSE /\ undelivered' = Tail(undelivered)
          /\ Drain(Tail(undelivered))
  /\ UNCHANGED <<flying, arrived>>

-----------------------------------------------------------------------------
(* The process.                                                            *)

Arrive ==
  /\ flying > 0
  /\ flying' = flying - 1 /\ arrived' = arrived + 1
  /\ UNCHANGED <<undelivered, signalled, client, reply>>

(* tt_message_receive, which the process may call at any time.             *)
Receive ==
  /\ client = "idle" /\ client' = "asking"
  /\ UNCHANGED <<undelivered, signalled, flying, arrived, reply>>

(* A process that waits for its tt_fd calls it when the fd is readable.    *)
Wake == arrived > 0 /\ Receive

(* Mutant of ReadByte: whatever has arrived is read.                       *)
ReadBytes == 0

(* Mutant of ReadByte: the read is not avoided when it would block.        *)
ReadBlindly == arrived - 1

(* clear_signal: one byte is read, if there is one.                        *)
ReadByte == IF arrived > 0 THEN arrived - 1 ELSE 0

(* _Tt_c_procid::next_message, after the RPC: a reply without a message    *)
(* leaves the channel alone, whatever it says of clearing it.              *)
Received ==
  /\ client = "replied" /\ client' = "idle"
  /\ arrived' = IF reply.msg # NoMsg /\ reply.clear_signal THEN ReadByte
                                                           ELSE arrived
  /\ UNCHANGED <<undelivered, signalled, flying, reply>>

-----------------------------------------------------------------------------
Next ==
  \/ \E m \in Msg : AddMessage(m)
  \/ NextMessage \/ Arrive \/ Receive \/ Received

Spec == Init /\ [][Next]_vars

(* What is written arrives, the server answers, and a process waits for    *)
(* its tt_fd to become readable and then receives.  Nothing makes it       *)
(* receive without that.                                                   *)
Fairness ==
  WF_vars(Arrive) /\ WF_vars(NextMessage) /\ WF_vars(Received) /\ WF_vars(Wake)

-----------------------------------------------------------------------------
(* Properties.                                                             *)

TypeOK ==
  /\ undelivered \in Seq(Msg) /\ signalled \in BOOLEAN
  /\ flying \in Nat /\ arrived \in Nat
  /\ client \in {"idle", "asking", "replied"}
  /\ reply \in Reply

(* A process that is not about to receive and has messages is woken: there *)
(* is a byte it has not read, however its reads and the server's writes    *)
(* interleave (signal_new_message and clear_signal).                       *)
WakeUp ==
  client = "idle" /\ undelivered # <<>> => flying + arrived > 0

(* The byte the process is about to read and, if the server counts one as  *)
(* not read, another one are on the channel; the server counts one while   *)
(* it has messages for the process.                                        *)
AboutToRead == IF client = "replied" /\ reply.msg # NoMsg /\ reply.clear_signal
               THEN 1 ELSE 0
Unread == IF signalled THEN 1 ELSE 0

Covered ==
  /\ signalled <=> undelivered # <<>>
  /\ flying + arrived >= AboutToRead + Unread

(* A process that receives only when it is woken gets on: the message at   *)
(* the head of its list does not stay there, it is handed out unless it    *)
(* changes state meanwhile and moves to the end.                           *)
GetsOn ==
  \A m \in Msg :
    undelivered # <<>> /\ Head(undelivered) = m ~>
      undelivered = <<>> \/ Head(undelivered) # m
=============================================================================
