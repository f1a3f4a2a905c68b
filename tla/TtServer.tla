------------------------------ MODULE TtServer ------------------------------
(***************************************************************************)
(* The ToolTalk message server (ttsession, lib/tt/slib) delivering         *)
(* session-scoped, procedure-addressed TT_REQUESTs to handlers.            *)
(*                                                                         *)
(* One RPC is served at a time and its handler calls back into itself:     *)
(* delivering a message may find the handler's channel broken, which       *)
(* deactivates that process, which fails its messages, which are reported  *)
(* to their senders, whose channels may be broken too.  The C++ call stack *)
(* is the variable calls; each step runs the function on its top up to the *)
(* next call it makes.  Processes die between any two such steps.          *)
(*                                                                         *)
(* Not in this module: observers, TT_OFFERs, point-to-point and file-      *)
(* scoped messages, PUSH/ROTATE handlers (all handler patterns for an op   *)
(* match it equally well), reloading of the types, remote sessions.        *)
(***************************************************************************)
EXTENDS Naturals, Sequences, SequencesExt

CONSTANTS
    Proc,       \* processes; each has one procid
    Tools,      \* those the user starts; the others are forked by the server
    Msg,        \* messages, each sent at most once
    Op,         \* operation names
    Ptype,      \* process types with a start string
    SenderOf,   \* the process that creates each message
    OpOf,       \* the operation each message names
    SigPtype,   \* the ptype with a handler signature for the op, or NoPtype
    Disp,       \* the disposition of a ptype's signatures
    ForkMayFail,\* whether fork() may fail
    NoProc, NoMsg, NoPtype

Disposition == {"start", "queue"}

ASSUME ConstantsAssumption ==
    /\ Tools \subseteq Proc
    /\ SenderOf \in [Msg -> Proc]
    /\ OpOf \in [Msg -> Op]
    /\ SigPtype \in [Op -> Ptype \union {NoPtype}]
    /\ Disp \in [Ptype -> SUBSET Disposition]
    /\ ForkMayFail \in BOOLEAN
    /\ NoProc \notin Proc /\ NoMsg \notin Msg /\ NoPtype \notin Ptype

VARIABLES
    life,           \* the OS's view of a process: unborn, running or dead
    start_token,    \* the ptype a forked process was started for
    zombies,        \* dead children the server has not waited for
    sigchld,        \* SIGCHLD is pending
    merged,         \* history: a child died while SIGCHLD was pending
    failed_procs,   \* waited-for children notify_start_failure has not seen
    conn,           \* a procid's channel: none, active or inactive
    signalled,      \* _TT_PROC_SIGNALLED
    undelivered,    \* messages waiting for next_message
    delivered,      \* messages the process owes an update for
    start_copies,   \* messages the process received marked as start message
    patterns,       \* handler patterns registered for an op, newest first
    state,          \* _state of a message on the server
    handler,        \* _handler
    tried,          \* _tried: handlers that rejected the message
    state_reported, \* _state_reported: the states it has been through
    reliability,    \* its disposition
    start_message,  \* _TT_MSG_IS_START_MSG
    sender_copy,    \* the state of the copy of the message its sender holds
    queued,         \* the session's _queued_messages
    ptype_queue,    \* a ptype's _queued_messages
    launching,      \* a ptype's _launching
    start_pid,      \* a ptype's _start_pid
    calls,          \* the server's call stack, innermost call first
    ret             \* what the last deliver() to finish returned

childVars == <<life, start_token, zombies, sigchld, merged, failed_procs>>
procVars  == <<conn, signalled, undelivered, delivered, start_copies>>
msgVars   == <<state, handler, tried, state_reported, reliability,
               start_message, sender_copy>>
queueVars == <<queued, ptype_queue, launching, start_pid>>
vars      == <<childVars, procVars, patterns, msgVars, queueVars, calls, ret>>

Final    == {"HANDLED", "FAILED"}
Open     == {"SENT", "STARTED", "QUEUED"}
MsgState == {"CREATED"} \union Open \union Final
Answer   == Final \union {"REJECTED"}

Pattern == [owner : Proc, session : BOOLEAN, dynamic : BOOLEAN]

(* A call and its arguments; i is the position of a loop over queued.      *)
MsgCalls  == {"deliver", "queue", "report", "start_failed", "update"}
ProcCalls == {"deactivate", "orphans", "proc_started", "update"}
TypeCalls == {"proc_started", "proc_replied", "redeliver", "redelivered",
              "launch_failed"}
ScanCalls == {"pattern_added", "pattern_delivered"}

Frame ==
  {f \in [fn : MsgCalls \union ProcCalls \union TypeCalls \union ScanCalls,
          m : Msg \union {NoMsg}, p : Proc \union {NoProc},
          t : Ptype \union {NoPtype}, s : Answer, i : Nat \ {0}] :
     /\ f.fn \in MsgCalls  => f.m \in Msg
     /\ f.fn \in ProcCalls => f.p \in Proc
     /\ f.fn \in TypeCalls => f.t \in Ptype}

-----------------------------------------------------------------------------
(* The call stack.                                                         *)

Call(fn) == [fn |-> fn, m |-> NoMsg, p |-> NoProc, t |-> NoPtype,
             s |-> "FAILED", i |-> 1]

OnMsg(fn, msg) == [Call(fn) EXCEPT !.m = msg]
OnProc(fn, pr) == [Call(fn) EXCEPT !.p = pr]
OnType(fn, pt) == [Call(fn) EXCEPT !.t = pt]

Top == Head(calls)
Running(fn) == calls # <<>> /\ Top.fn = fn
Idle == calls = <<>>

(* The innermost call makes the calls cs, in this order, and returns.      *)
Then(cs) == calls' = cs \o Tail(calls)

-----------------------------------------------------------------------------
(* Sending a process a message: append it, then write a byte to the        *)
(* process's channel unless one is on its way.  Writing to the channel of  *)
(* a dead process may still succeed.  The caller goes on with the calls ok *)
(* or, if the process can't be signalled, lost.                            *)
AddMessage(pr, msg, ok, lost) ==
  \/ /\ conn[pr] # "active"
     /\ Then(lost)
     /\ UNCHANGED <<undelivered, signalled>>
  \/ /\ conn[pr] = "active"
     /\ \E i \in DOMAIN undelivered[pr] :
          /\ undelivered[pr][i] = msg
          /\ undelivered' = [undelivered EXCEPT ![pr] =
                               Append(RemoveAt(@, i), msg)]
     /\ Then(ok)
     /\ UNCHANGED signalled
  \/ /\ conn[pr] = "active"
     /\ \A i \in DOMAIN undelivered[pr] : undelivered[pr][i] # msg
     /\ undelivered' = [undelivered EXCEPT ![pr] = Append(@, msg)]
     /\ signalled' = [signalled EXCEPT ![pr] = TRUE]
     /\ \/ Then(ok)
        \/ /\ life[pr] = "dead" /\ ~signalled[pr]
           /\ Then(<<OnProc("deactivate", pr)>> \o lost)

(* Mutant of Finish: the sender is not told.                               *)
FinishUnreported(msg, s, rest) ==
  /\ state' = [state EXCEPT ![msg] = s]
  /\ state_reported' = [state_reported EXCEPT ![msg] = @ \union {s}]
  /\ Then(rest)

(* change_state to a final state, then the calls rest.                     *)
Finish(msg, s, rest) ==
  IF s \in state_reported[msg]
  THEN Then(rest) /\ UNCHANGED <<state, state_reported>>
  ELSE /\ state' = [state EXCEPT ![msg] = s]
       /\ state_reported' = [state_reported EXCEPT ![msg] = @ \union {s}]
       /\ Then(<<OnMsg("report", msg)>> \o rest)

(* report_state_change: the sender gets the message back.                  *)
Report ==
  /\ Running("report")
  /\ AddMessage(SenderOf[Top.m], Top.m, <<>>, <<>>)
  /\ UNCHANGED <<childVars, conn, delivered, start_copies, patterns, msgVars,
                 queueVars, ret>>

-----------------------------------------------------------------------------
(* Finding a handler.                                                      *)

(* Mutant of Matches: already_tried is not asked.                          *)
MatchesTried(msg) ==
  LET ps == patterns[OpOf[msg]]
  IN  {i \in DOMAIN ps :
         ps[i].session /\ \A j \in 1..i : conn[ps[j].owner] = "active"}

(* Patterns are scanned newest first and the first match is kept, as all   *)
(* match equally well; the scan stops at a pattern of an inactive process. *)
Matches(msg) ==
  LET ps == patterns[OpOf[msg]]
  IN  {i \in DOMAIN ps :
         /\ ps[i].session /\ ps[i].owner \notin tried[msg]
         /\ \A j \in 1..i : conn[ps[j].owner] = "active"}

DeliverToHandler ==
  /\ Running("deliver")
  /\ LET msg == Top.m
         ps  == patterns[OpOf[msg]]
     IN  /\ state[msg] = "SENT"
         /\ \E i \in Matches(msg) :
              /\ \A j \in Matches(msg) : i <= j
              /\ handler' = [handler EXCEPT ![msg] = ps[i].owner]
              /\ AddMessage(ps[i].owner, msg, <<>>, <<Top>>)
  /\ ret' = TRUE
  /\ UNCHANGED <<childVars, conn, delivered, start_copies, patterns, state,
                 tried, state_reported, reliability, start_message,
                 sender_copy, queueVars>>

NoHandler(msg) ==
  /\ Running("deliver") /\ msg = Top.m
  /\ state[msg] = "SENT" => Matches(msg) = {}

(* Mutant of Awaiting: a request that found no handler at once is dropped. *)
AwaitingStarted(msg) == state[msg] = "STARTED"

Awaiting(msg) == state[msg] \in {"SENT", "STARTED"}

(* Only a request that waits for a handler needs its disposition honoured. *)
DeliverToNobody ==
  /\ \E msg \in Msg : NoHandler(msg) /\ ~Awaiting(msg)
  /\ ret' = TRUE
  /\ Then(<<>>)
  /\ UNCHANGED <<childVars, procVars, patterns, msgVars, queueVars>>

(* Mutant of Fork: the parent does not note the pid.                       *)
ForkUnnoted(pt) ==
  \E c \in Proc :
    /\ life[c] = "unborn"
    /\ life' = [life EXCEPT ![c] = "running"]
    /\ start_token' = [start_token EXCEPT ![c] = pt]
    /\ launching' = [launching EXCEPT ![pt] = TRUE]
    /\ UNCHANGED <<zombies, sigchld, merged, failed_procs, start_pid>>

(* launch(): fork an instance of the ptype.  A failed fork leaves          *)
(* _launching set.                                                         *)
Fork(pt) ==
  \E c \in Proc :
    /\ life[c] = "unborn"
    /\ life' = [life EXCEPT ![c] = "running"]
    /\ start_token' = [start_token EXCEPT ![c] = pt]
    /\ launching' = [launching EXCEPT ![pt] = TRUE]
    /\ start_pid' = [start_pid EXCEPT ![pt] = c]
    /\ UNCHANGED <<zombies, sigchld, merged, failed_procs>>

(* Mutant of ForkFails: what fork() returned is taken for a pid.           *)
ForkFailsNoted(pt) ==
    /\ ForkMayFail
    /\ launching' = [launching EXCEPT ![pt] = TRUE]
    /\ start_pid' = [start_pid EXCEPT ![pt] = "-1"]
    /\ UNCHANGED childVars

ForkFails(pt) ==
    /\ ForkMayFail
    /\ launching' = [launching EXCEPT ![pt] = TRUE]
    /\ UNCHANGED <<childVars, start_pid>>

(* Mutant of StartsAnew: a message is started however often it is offered. *)
StartsAlways(msg) == "start" \in reliability[msg]

(* handle_no_recipients for a message with start disposition.              *)
StartsAnew(msg) ==
  "start" \in reliability[msg] /\ "STARTED" \notin state_reported[msg]

NoRecipientsStart ==
  \E msg \in Msg :
    LET pt == SigPtype[OpOf[msg]]
    IN  /\ NoHandler(msg) /\ Awaiting(msg)
        /\ StartsAnew(msg)
        /\ state' = [state EXCEPT ![msg] = "STARTED"]
        /\ state_reported' = [state_reported EXCEPT ![msg] = @ \union {"STARTED"}]
        /\ ret' = FALSE
        /\ \/ /\ IF launching[pt] \/ ptype_queue[pt] # <<>>
                 THEN UNCHANGED <<childVars, launching, start_pid>>
                 ELSE Fork(pt)
              /\ ptype_queue' = [ptype_queue EXCEPT ![pt] = Append(@, msg)]
              /\ Then(<<OnMsg("report", msg), OnMsg("queue", msg)>>)
           \/ /\ ~launching[pt] /\ ptype_queue[pt] = <<>>
              /\ ForkFails(pt)
              /\ Then(<<OnMsg("start_failed", msg)>>)
              /\ UNCHANGED ptype_queue
        /\ UNCHANGED <<procVars, patterns, handler, tried, reliability,
                       start_message, sender_copy, queued>>

StartFailed ==
  /\ Running("start_failed")
  /\ reliability' = [reliability EXCEPT ![Top.m] = {}]
  /\ Finish(Top.m, "FAILED", <<>>)
  /\ UNCHANGED <<childVars, procVars, patterns, handler, tried,
                 start_message, sender_copy, queueVars, ret>>

(* The rest of handle_no_recipients: queue the message if that was not     *)
(* done before, and fail it if no disposition was attempted.               *)
HonourQueue(msg) ==
  \/ /\ "queue" \in reliability[msg] /\ "QUEUED" \notin state_reported[msg]
     /\ state' = [state EXCEPT ![msg] = "QUEUED"]
     /\ state_reported' = [state_reported EXCEPT ![msg] = @ \union {"QUEUED"}]
     /\ queued' = Append(queued, msg)
     /\ Then(<<OnMsg("report", msg)>>)
  \/ /\ "queue" \notin reliability[msg] \/ "QUEUED" \in state_reported[msg]
     /\ IF "start" \in reliability[msg]
        THEN Then(<<>>) /\ UNCHANGED <<state, state_reported>>
        ELSE Finish(msg, "FAILED", <<>>)
     /\ UNCHANGED queued

NoRecipientsQueue ==
  /\ \/ \E msg \in Msg :
          /\ NoHandler(msg) /\ Awaiting(msg)
          /\ ~StartsAnew(msg)
          /\ HonourQueue(msg)
          /\ ret' = FALSE
     \/ /\ Running("queue")
        /\ HonourQueue(Top.m)
        /\ UNCHANGED ret
  /\ UNCHANGED <<childVars, procVars, patterns, handler, tried, reliability,
                 start_message, sender_copy, ptype_queue, launching, start_pid>>

-----------------------------------------------------------------------------
(* A process is gone.                                                      *)

Deactivate ==
  /\ Running("deactivate")
  /\ IF conn[Top.p] = "active"
     THEN /\ conn' = [conn EXCEPT ![Top.p] = "inactive"]
          /\ Then(<<OnProc("orphans", Top.p)>>)
     ELSE UNCHANGED conn /\ Then(<<>>)
  /\ UNCHANGED <<childVars, signalled, undelivered, delivered, start_copies,
                 patterns, msgVars, queueVars, ret>>

(* Mutant of Processing: also messages that have their outcome.            *)
ProcessingFinal(pr, msg) == handler[msg] = pr

(* A process owes an update for the open messages it is the handler of.    *)
Processing(pr, msg) == handler[msg] = pr /\ state[msg] \notin Final

OrphanUndelivered ==
  /\ Running("orphans") /\ undelivered[Top.p] # <<>>
  /\ LET msg == Head(undelivered[Top.p])
     IN  /\ undelivered' = [undelivered EXCEPT ![Top.p] = Tail(@)]
         /\ tried' = [tried EXCEPT ![msg] = @ \ {Top.p}]
         /\ IF Processing(Top.p, msg)
            THEN Finish(msg, "FAILED", <<Top>>)
            ELSE Then(<<Top>>) /\ UNCHANGED <<state, state_reported>>
  /\ UNCHANGED <<childVars, conn, signalled, delivered, start_copies, patterns,
                 handler, reliability, start_message, sender_copy, queueVars, ret>>

OrphanDelivered ==
  /\ Running("orphans") /\ undelivered[Top.p] = <<>> /\ delivered[Top.p] # <<>>
  /\ LET msg == Head(delivered[Top.p])
     IN  /\ delivered' = [delivered EXCEPT ![Top.p] = Tail(@)]
         /\ tried' = [tried EXCEPT ![msg] = @ \ {Top.p}]
         /\ Finish(msg, "FAILED", <<Top>>)
  /\ UNCHANGED <<childVars, conn, signalled, undelivered, start_copies, patterns,
                 handler, reliability, start_message, sender_copy, queueVars, ret>>

(* Mutant of Without: the patterns stay.                                   *)
WithoutNothing(ps, pr) == ps

(* A process has at most one pattern for an op.                            *)
Without(ps, pr) ==
  IF \E i \in DOMAIN ps : ps[i].owner = pr
  THEN RemoveAt(ps, CHOOSE i \in DOMAIN ps : ps[i].owner = pr)
  ELSE ps

OrphansDone ==
  /\ Running("orphans")
  /\ undelivered[Top.p] = <<>> /\ delivered[Top.p] = <<>>
  /\ patterns' = [op \in Op |-> Without(patterns[op], Top.p)]
  /\ Then(<<>>)
  /\ UNCHANGED <<childVars, procVars, msgVars, queueVars, ret>>

-----------------------------------------------------------------------------
(* Starting processes.                                                     *)

(* The process forked for a ptype is here: it gets the first queued        *)
(* message, without pattern matching.                                      *)
ProcStarted ==
  /\ Running("proc_started") /\ ptype_queue[Top.t] # <<>>
  /\ LET msg == Head(ptype_queue[Top.t])
     IN  /\ handler' = [handler EXCEPT ![msg] = Top.p]
         /\ start_message' = [start_message EXCEPT ![msg] = TRUE]
         /\ AddMessage(Top.p, msg, <<>>,
                       <<[OnType("launch_failed", Top.t) EXCEPT !.m = msg]>>)
  /\ ptype_queue' = [ptype_queue EXCEPT ![Top.t] = Tail(@)]
  /\ UNCHANGED <<childVars, conn, delivered, start_copies, patterns, state,
                 tried, state_reported, reliability, sender_copy,
                 queued, launching, start_pid, ret>>

ProcStartedIdly ==
  /\ Running("proc_started") /\ ptype_queue[Top.t] = <<>>
  /\ Then(<<>>)
  /\ UNCHANGED <<childVars, procVars, patterns, msgVars, queueVars, ret>>

(* The started process accepted or answered its start message: the         *)
(* messages that waited for its patterns are delivered ...                 *)
ProcReplied ==
  /\ Running("proc_replied")
  /\ launching' = [launching EXCEPT ![Top.t] = FALSE]
  /\ Then(IF launching[Top.t] THEN <<OnType("redeliver", Top.t)>> ELSE <<>>)
  /\ UNCHANGED <<childVars, procVars, patterns, msgVars, queued, ptype_queue,
                 start_pid, ret>>

Redeliver ==
  /\ Running("redeliver")
  /\ IF ptype_queue[Top.t] = <<>>
     THEN Then(<<>>) /\ UNCHANGED state
     ELSE /\ state' = [state EXCEPT ![Head(ptype_queue[Top.t])] = "SENT"]
          /\ Then(<<OnMsg("deliver", Head(ptype_queue[Top.t])),
                    OnType("redelivered", Top.t)>>)
  /\ UNCHANGED <<childVars, procVars, patterns, handler, tried, state_reported,
                 reliability, start_message, sender_copy, queueVars, ret>>

(* ... up to the first that finds no handler: that takes another process.  *)
Redelivered ==
  /\ Running("redelivered")
  /\ IF ret
     THEN /\ ptype_queue' = [ptype_queue EXCEPT ![Top.t] = Tail(@)]
          /\ Then(<<OnType("redeliver", Top.t)>>)
          /\ UNCHANGED <<childVars, launching, start_pid>>
     ELSE /\ Fork(Top.t) \/ ForkFails(Top.t)
          /\ Then(<<>>)
          /\ UNCHANGED ptype_queue
  /\ UNCHANGED <<procVars, patterns, msgVars, queued, ret>>

(* The launch failed: fail the start message, if it was taken off the      *)
(* queue already, and everything queued behind it.                         *)
LaunchFailed ==
  /\ Running("launch_failed")
  /\ LET pt   == Top.t
         rest == <<OnType("launch_failed", pt)>>
     IN  IF Top.m # NoMsg
         THEN Finish(Top.m, "FAILED", rest) /\ UNCHANGED <<ptype_queue, launching>>
         ELSE IF ptype_queue[pt] # <<>>
         THEN /\ Finish(Head(ptype_queue[pt]), "FAILED", rest)
              /\ ptype_queue' = [ptype_queue EXCEPT ![pt] = Tail(@)]
              /\ UNCHANGED launching
         ELSE /\ launching' = [launching EXCEPT ![pt] = FALSE]
              /\ Then(<<>>)
              /\ UNCHANGED <<ptype_queue, state, state_reported>>
  /\ UNCHANGED <<childVars, procVars, patterns, handler, tried, reliability,
                 start_message, sender_copy, queued, start_pid, ret>>

-----------------------------------------------------------------------------
(* pattern_added: offer every message the session queues to the patterns   *)
(* there are now.                                                          *)

PatternAdded ==
  /\ Running("pattern_added")
  /\ IF Top.i > Len(queued)
     THEN Then(<<>>) /\ UNCHANGED state
     ELSE /\ state' = [state EXCEPT ![queued[Top.i]] = "SENT"]
          /\ Then(<<OnMsg("deliver", queued[Top.i]),
                    [Top EXCEPT !.fn = "pattern_delivered"]>>)
  /\ UNCHANGED <<childVars, procVars, patterns, handler, tried, state_reported,
                 reliability, start_message, sender_copy, queueVars, ret>>

PatternDelivered ==
  /\ Running("pattern_delivered")
  /\ IF ret
     THEN /\ queued' = RemoveAt(queued, Top.i)
          /\ Then(<<[Top EXCEPT !.fn = "pattern_added"]>>)
          /\ UNCHANGED state
     ELSE /\ state' = [state EXCEPT ![queued[Top.i]] = "QUEUED"]
          /\ Then(<<[Top EXCEPT !.fn = "pattern_added", !.i = @ + 1]>>)
          /\ UNCHANGED queued
  /\ UNCHANGED <<childVars, procVars, patterns, handler, tried, state_reported,
                 reliability, start_message, sender_copy, ptype_queue,
                 launching, start_pid, ret>>

-----------------------------------------------------------------------------
(* update_message: the handler answered.  An update for a message that is  *)
(* no longer in its _delivered list does nothing.                          *)

Owes(pr, msg) == \E i \in DOMAIN delivered[pr] : delivered[pr][i] = msg

(* Mutant of TakeDelivered: the message stays in the list.                 *)
TakeAndKeep(pr, msg) == Owes(pr, msg) /\ UNCHANGED delivered

TakeDelivered(pr, msg) ==
  \E i \in DOMAIN delivered[pr] :
    /\ delivered[pr][i] = msg
    /\ \A j \in 1..(i - 1) : delivered[pr][j] # msg
    /\ delivered' = [delivered EXCEPT ![pr] = RemoveAt(@, i)]

UpdateFinal ==
  /\ Running("update") /\ Top.s \in Final
  /\ TakeDelivered(Top.p, Top.m)
  /\ Finish(Top.m, Top.s, <<>>)
  /\ UNCHANGED <<childVars, conn, signalled, undelivered, start_copies,
                 patterns, handler, tried, reliability, start_message,
                 sender_copy, queueVars, ret>>

(* A rejected message goes to the next handler that has not been tried.    *)
UpdateRejected ==
  /\ Running("update") /\ Top.s = "REJECTED"
  /\ TakeDelivered(Top.p, Top.m)
  /\ LET msg == Top.m
     IN  /\ state' = [state EXCEPT ![msg] = "SENT"]
         /\ Then(<<OnMsg("deliver", msg)>>)
         /\ IF handler[msg] = NoProc
            THEN UNCHANGED <<handler, tried, state_reported>>
            ELSE /\ state_reported' = [state_reported EXCEPT ![msg] = @ \ {"STARTED"}]
                 /\ tried' = [tried EXCEPT ![msg] = @ \union {handler[msg]}]
                 /\ handler' = [handler EXCEPT ![msg] = NoProc]
  /\ UNCHANGED <<childVars, conn, signalled, undelivered, start_copies,
                 patterns, reliability, start_message, sender_copy,
                 queueVars, ret>>

UpdateUnknown ==
  /\ Running("update") /\ ~Owes(Top.p, Top.m)
  /\ Then(<<>>)
  /\ UNCHANGED <<childVars, procVars, patterns, msgVars, queueVars, ret>>

-----------------------------------------------------------------------------
(* Requests from clients: the server serves one when it is idle.           *)

Client(pr) == Idle /\ life[pr] = "running" /\ conn[pr] = "active"

(* set_fd_channel: the server connects to the process's channel, which     *)
(* makes the procid active; a forked process hands in its start token.     *)
Connect(pr) ==
  /\ Idle /\ life[pr] = "running" /\ conn[pr] = "none"
  /\ conn' = [conn EXCEPT ![pr] = "active"]
  /\ start_token' = [start_token EXCEPT ![pr] = NoPtype]
  /\ calls' = IF start_token[pr] = NoPtype THEN <<>>
              ELSE <<[OnProc("proc_started", pr) EXCEPT !.t = start_token[pr]]>>
  /\ UNCHANGED <<life, zombies, sigchld, merged, failed_procs, signalled,
                 undelivered, delivered, start_copies, patterns, msgVars,
                 queueVars, ret>>

(* The signature for the message's op supplies its handler ptype and       *)
(* disposition.                                                            *)
Dispatch(pr, msg) ==
  /\ Client(pr) /\ SenderOf[msg] = pr /\ state[msg] = "CREATED"
  /\ state' = [state EXCEPT ![msg] = "SENT"]
  /\ sender_copy' = [sender_copy EXCEPT ![msg] = "SENT"]
  /\ LET pt == SigPtype[OpOf[msg]]
     IN  reliability' = [reliability EXCEPT ![msg] =
                           IF pt = NoPtype THEN {} ELSE Disp[pt]]
  /\ calls' = <<OnMsg("deliver", msg)>>
  /\ UNCHANGED <<childVars, procVars, patterns, handler, tried, state_reported,
                 start_message, queueVars, ret>>

(* Mutant of LastOne: counted before the message is taken.                 *)
LastOneEarly(pr) == undelivered[pr] = <<>>

LastOne(pr) == Tail(undelivered[pr]) = <<>>

(* The next message of the process: one it is to handle, or one of its own *)
(* on which it learns the current state.  Reading the last one takes the   *)
(* byte off the channel.                                                   *)
NextMessage(pr) ==
  /\ Client(pr) /\ undelivered[pr] # <<>>
  /\ LET msg == Head(undelivered[pr])
     IN  IF Processing(pr, msg)
         THEN /\ delivered' = [delivered EXCEPT ![pr] = <<msg>> \o @]
              /\ start_copies' = [start_copies EXCEPT ![pr] =
                                    IF start_message[msg] THEN @ \union {msg} ELSE @]
              /\ UNCHANGED sender_copy
         ELSE /\ sender_copy' = IF SenderOf[msg] = pr
                                THEN [sender_copy EXCEPT ![msg] = state[msg]]
                                ELSE sender_copy
              /\ UNCHANGED <<delivered, start_copies>>
  /\ undelivered' = [undelivered EXCEPT ![pr] = Tail(@)]
  /\ signalled' = [signalled EXCEPT ![pr] = @ /\ ~LastOne(pr)]
  /\ UNCHANGED <<childVars, conn, patterns, state, handler, tried, state_reported,
                 reliability, start_message, queueVars, calls, ret>>

(* The handler answers.  An answer to a start message first releases the   *)
(* messages queued on the ptype.                                           *)
Update(pr, msg, s) ==
  /\ Client(pr) /\ Owes(pr, msg)
  /\ LET answer == [OnMsg("update", msg) EXCEPT !.p = pr, !.s = s]
     IN  calls' = IF msg \in start_copies[pr]
                  THEN <<OnType("proc_replied", SigPtype[OpOf[msg]]), answer>>
                  ELSE <<answer>>
  /\ start_copies' = [start_copies EXCEPT ![pr] = @ \ {msg}]
  /\ UNCHANGED <<childVars, conn, signalled, undelivered, delivered, patterns,
                 msgVars, queueVars, ret>>

(* tt_message_accept of a start message.                                   *)
Accept(pr, msg) ==
  /\ Client(pr) /\ msg \in start_copies[pr]
  /\ calls' = <<OnType("proc_replied", SigPtype[OpOf[msg]])>>
  /\ UNCHANGED <<childVars, procVars, patterns, msgVars, queueVars, ret>>

(* Patterns.  A process registers at most one for an op.                   *)
HasPattern(pr, op, dyn) ==
  \E i \in DOMAIN patterns[op] : /\ patterns[op][i].owner = pr
                                 /\ patterns[op][i].dynamic = dyn
Registered(pr, op) == \E dyn \in BOOLEAN : HasPattern(pr, op, dyn)

Register(pr, ops, pat) ==
  patterns' = [op \in Op |-> IF op \in ops THEN <<pat>> \o patterns[op]
                                           ELSE patterns[op]]

Unregister(pr, ops, dyn) ==
  patterns' = [op \in Op |->
    IF op \in ops /\ HasPattern(pr, op, dyn) THEN Without(patterns[op], pr)
                                           ELSE patterns[op]]

SetSession(pr, on) ==
  patterns' = [op \in Op |-> [i \in DOMAIN patterns[op] |->
    IF patterns[op][i].owner = pr THEN [patterns[op][i] EXCEPT !.session = on]
                                  ELSE patterns[op][i]]]

OpsOf(pt) == {op \in Op : SigPtype[op] = pt}
OnlyPatterns == UNCHANGED <<childVars, procVars, msgVars, queueVars, ret>>

(* The patterns of a declared ptype match nothing until the process joins  *)
(* the session, yet declaring it has the queued messages offered.          *)
DeclarePtype(pr, pt) ==
  /\ Client(pr) /\ \A op \in OpsOf(pt) : ~Registered(pr, op)
  /\ Register(pr, OpsOf(pt), [owner |-> pr, session |-> FALSE, dynamic |-> FALSE])
  /\ calls' = <<Call("pattern_added")>>
  /\ OnlyPatterns

UndeclarePtype(pr, pt) ==
  /\ Client(pr) /\ \E op \in OpsOf(pt) : HasPattern(pr, op, FALSE)
  /\ Unregister(pr, OpsOf(pt), FALSE)
  /\ OnlyPatterns /\ UNCHANGED calls

JoinSession(pr) ==
  /\ Client(pr)
  /\ SetSession(pr, TRUE)
  /\ calls' = <<Call("pattern_added")>>
  /\ OnlyPatterns

QuitSession(pr) ==
  /\ Client(pr)
  /\ SetSession(pr, FALSE)
  /\ OnlyPatterns /\ UNCHANGED calls

(* A dynamic pattern names the session when it is registered; the messages *)
(* the session queues are not offered to it.                               *)
AddPattern(pr, op) ==
  /\ Client(pr) /\ ~Registered(pr, op)
  /\ Register(pr, {op}, [owner |-> pr, session |-> TRUE, dynamic |-> TRUE])
  /\ OnlyPatterns /\ UNCHANGED calls

DelPattern(pr, op) ==
  /\ Client(pr) /\ HasPattern(pr, op, TRUE)
  /\ Unregister(pr, {op}, TRUE)
  /\ OnlyPatterns /\ UNCHANGED calls

(* tt_close.                                                               *)
Close(pr) ==
  /\ Client(pr)
  /\ calls' = <<OnProc("deactivate", pr)>>
  /\ UNCHANGED <<childVars, procVars, patterns, msgVars, queueVars, ret>>

-----------------------------------------------------------------------------
(* Processes die; the server finds out by the signal and by the channel.   *)

Crash(pr) ==
  /\ life[pr] = "running"
  /\ life' = [life EXCEPT ![pr] = "dead"]
  /\ IF pr \in Tools
     THEN UNCHANGED <<zombies, sigchld, merged>>
     ELSE /\ zombies' = zombies \union {pr} /\ sigchld' = TRUE
          /\ merged' = (merged \/ sigchld)
  /\ UNCHANGED <<start_token, failed_procs, procVars, patterns, msgVars,
                 queueVars, calls, ret>>

(* The signal handler waits for one child, however many have died.         *)
SigChld ==
  /\ sigchld /\ sigchld' = FALSE
  /\ \E c \in zombies : /\ zombies' = zombies \ {c}
                        /\ failed_procs' = failed_procs \union {c}
  /\ UNCHANGED <<life, start_token, merged, procVars, patterns, msgVars,
                 queueVars, calls, ret>>

NotifyStartFailure ==
  /\ Idle
  /\ \E c \in failed_procs :
       /\ failed_procs' = failed_procs \ {c}
       /\ \/ \E pt \in Ptype :
               /\ start_pid[pt] = c /\ launching[pt]
               /\ calls' = <<OnType("launch_failed", pt)>>
          \/ /\ \A pt \in Ptype : start_pid[pt] # c \/ ~launching[pt]
             /\ UNCHANGED calls
  /\ UNCHANGED <<life, start_token, zombies, sigchld, merged, procVars,
                 patterns, msgVars, queueVars, ret>>

ChannelLost(pr) ==
  /\ Idle /\ conn[pr] = "active" /\ life[pr] = "dead"
  /\ calls' = <<OnProc("deactivate", pr)>>
  /\ UNCHANGED <<childVars, procVars, patterns, msgVars, queueVars, ret>>

-----------------------------------------------------------------------------
Init ==
  /\ life = [pr \in Proc |-> IF pr \in Tools THEN "running" ELSE "unborn"]
  /\ start_token = [pr \in Proc |-> NoPtype]
  /\ zombies = {} /\ sigchld = FALSE /\ merged = FALSE /\ failed_procs = {}
  /\ conn = [pr \in Proc |-> "none"]
  /\ signalled = [pr \in Proc |-> FALSE]
  /\ undelivered = [pr \in Proc |-> <<>>]
  /\ delivered = [pr \in Proc |-> <<>>]
  /\ start_copies = [pr \in Proc |-> {}]
  /\ patterns = [op \in Op |-> <<>>]
  /\ state = [msg \in Msg |-> "CREATED"]
  /\ handler = [msg \in Msg |-> NoProc]
  /\ tried = [msg \in Msg |-> {}]
  /\ state_reported = [msg \in Msg |-> {}]
  /\ reliability = [msg \in Msg |-> {}]
  /\ start_message = [msg \in Msg |-> FALSE]
  /\ sender_copy = [msg \in Msg |-> "CREATED"]
  /\ queued = <<>>
  /\ ptype_queue = [pt \in Ptype |-> <<>>]
  /\ launching = [pt \in Ptype |-> FALSE]
  /\ start_pid = [pt \in Ptype |-> NoProc]
  /\ calls = <<>> /\ ret = FALSE

(* The server runs the call on top of its stack.                           *)
ServerStep ==
  \/ Report \/ DeliverToHandler \/ DeliverToNobody \/ NoRecipientsStart
  \/ StartFailed \/ NoRecipientsQueue \/ Deactivate \/ OrphanUndelivered
  \/ OrphanDelivered \/ OrphansDone \/ ProcStarted \/ ProcStartedIdly
  \/ ProcReplied \/ Redeliver \/ Redelivered \/ LaunchFailed \/ PatternAdded
  \/ PatternDelivered \/ UpdateFinal \/ UpdateRejected \/ UpdateUnknown

MessageRequest(pr) ==
  \/ Connect(pr) \/ NextMessage(pr) \/ Close(pr)
  \/ \E msg \in Msg : \/ Dispatch(pr, msg) \/ Accept(pr, msg)
                      \/ \E s \in Answer : Update(pr, msg, s)

PatternRequest(pr) ==
  \/ JoinSession(pr) \/ QuitSession(pr)
  \/ \E pt \in Ptype : DeclarePtype(pr, pt) \/ UndeclarePtype(pr, pt)
  \/ \E op \in Op : AddPattern(pr, op) \/ DelPattern(pr, op)

Next ==
  \/ ServerStep
  \/ SigChld \/ NotifyStartFailure
  \/ \E pr \in Proc : MessageRequest(pr) \/ PatternRequest(pr)
                      \/ Crash(pr) \/ ChannelLost(pr)

Spec == Init /\ [][Next]_vars

(* The server finishes what it does.  Its main loop polls every channel    *)
(* and serves whatever is ready before it polls again, so that no process  *)
(* waits for ever while others are served; a process fetches the messages  *)
(* it is signalled of and answers those it is given.                       *)
Fairness ==
  /\ WF_vars(ServerStep) /\ WF_vars(SigChld) /\ SF_vars(NotifyStartFailure)
  /\ \A pr \in Proc :
       /\ SF_vars(ChannelLost(pr)) /\ SF_vars(NextMessage(pr))
       /\ \A msg \in Msg : SF_vars(\E s \in Answer : Update(pr, msg, s))

FairSpec == Spec /\ Fairness

-----------------------------------------------------------------------------
(* Properties.                                                             *)

TypeOK ==
  /\ life \in [Proc -> {"unborn", "running", "dead"}]
  /\ start_token \in [Proc -> Ptype \union {NoPtype}]
  /\ zombies \subseteq Proc /\ failed_procs \subseteq Proc
  /\ sigchld \in BOOLEAN /\ merged \in BOOLEAN
  /\ conn \in [Proc -> {"none", "active", "inactive"}]
  /\ signalled \in [Proc -> BOOLEAN]
  /\ undelivered \in [Proc -> Seq(Msg)] /\ delivered \in [Proc -> Seq(Msg)]
  /\ start_copies \in [Proc -> SUBSET Msg]
  /\ patterns \in [Op -> Seq(Pattern)]
  /\ state \in [Msg -> MsgState]
  /\ handler \in [Msg -> Proc \union {NoProc}]
  /\ tried \in [Msg -> SUBSET Proc]
  /\ state_reported \in [Msg -> SUBSET MsgState]
  /\ reliability \in [Msg -> SUBSET Disposition]
  /\ start_message \in [Msg -> BOOLEAN]
  /\ sender_copy \in [Msg -> MsgState]
  /\ queued \in Seq(Msg) /\ ptype_queue \in [Ptype -> Seq(Msg)]
  /\ launching \in [Ptype -> BOOLEAN]
  /\ start_pid \in [Ptype -> Proc \union {NoProc}]
  /\ calls \in Seq(Frame) /\ ret \in BOOLEAN

(* A process with messages to fetch has been signalled, and one without    *)
(* has not: a wake-up is neither lost nor left over.                       *)
SignalInv ==
  \A pr \in Proc :
    conn[pr] = "active" => (signalled[pr] <=> undelivered[pr] # <<>>)

(* The loops over a queue do not nest: while one waits for the calls it    *)
(* made, no other empties the queue under it.                              *)
Loops == TypeCalls \union ScanCalls

OneLoop ==
  \A i, j \in DOMAIN calls :
    calls[i].fn \in Loops /\ calls[j].fn \in Loops => i = j

LoopsInBounds ==
  \A i \in DOMAIN calls :
    /\ calls[i].fn = "pattern_delivered" => calls[i].i \in DOMAIN queued
    /\ calls[i].fn = "redelivered" => ptype_queue[calls[i].t] # <<>>

(* What was never active has no messages; what is being cleaned up is not  *)
(* active, so that its messages go without its channel being touched.      *)
Silent ==
  /\ \A pr \in Proc : conn[pr] = "none" => undelivered[pr] = <<>> /\ ~signalled[pr]
  /\ \A i \in DOMAIN calls : calls[i].fn = "orphans" => conn[calls[i].p] = "inactive"

(* Only requests for the operations of a ptype have a disposition, wait    *)
(* for a process of that ptype and become start messages.                  *)
StartsHavePtype ==
  /\ \A msg \in Msg :
       \/ reliability[msg] # {} \/ start_message[msg]
       \/ \E pr \in Proc : msg \in start_copies[pr]
       => SigPtype[OpOf[msg]] \in Ptype
  /\ \A pt \in Ptype : \A i \in DOMAIN ptype_queue[pt] :
       SigPtype[OpOf[ptype_queue[pt][i]]] = pt

(* The inductive invariant behind TypeOK and SignalInv.                    *)
Inductive ==
  TypeOK /\ OneLoop /\ LoopsInBounds /\ StartsHavePtype /\ Silent /\ SignalInv

(* Between requests, nothing is left with a process that is gone: no       *)
(* message waits for it or on its answer, no pattern offers it one.        *)
NothingLeftBehind ==
  Idle => \A pr \in Proc :
    conn[pr] # "active" =>
      /\ undelivered[pr] = <<>> /\ delivered[pr] = <<>>
      /\ \A op \in Op : ~Registered(pr, op)

(* Between requests, every open request is somewhere from where an answer  *)
(* can still come: with its handler, or on a queue.                        *)
Accounted ==
  Idle => \A msg \in Msg : state[msg] \in Open =>
    \/ \E pr \in Proc : /\ handler[msg] = pr
                        /\ msg \in ToSet(undelivered[pr]) \union ToSet(delivered[pr])
    \/ \E pt \in Ptype : msg \in ToSet(ptype_queue[pt])
    \/ msg \in ToSet(queued)

(* Between requests, the sender has learnt the outcome of its request or   *)
(* has the message that tells it waiting.                                  *)
SenderWillKnow ==
  Idle => \A msg \in Msg :
    state[msg] \in Final /\ conn[SenderOf[msg]] = "active" =>
      sender_copy[msg] = state[msg] \/ msg \in ToSet(undelivered[SenderOf[msg]])

(* At most one process works on a request, and it is the message's handler.*)
OneHandlerAtATime ==
  \A msg \in Msg, pr \in Proc : Owes(pr, msg) =>
    handler[msg] = pr /\ \A other \in Proc \ {pr} : ~Owes(other, msg)

(* A handler that rejected a request is not given it again.                *)
RejectedStaysRejected ==
  \A msg \in Msg : handler[msg] # NoProc => handler[msg] \notin tried[msg]

(* While messages wait for a ptype's process, there is a launch to end the *)
(* wait: the process that was forked runs, or it died and its SIGCHLD is   *)
(* pending or its pid recorded.  The one exception is a zombie that nobody *)
(* waits for because children died together (sig_handler).  A process that *)
(* has closed its procid and lives on counts as running, as it does for    *)
(* ttsession.                                                              *)
StartIsPending ==
  Idle => \A pt \in Ptype : ptype_queue[pt] # <<>> =>
    /\ launching[pt]
    /\ start_pid[pt] # NoProc
    /\ \/ life[start_pid[pt]] = "running"
       \/ start_pid[pt] \in failed_procs
       \/ start_pid[pt] \in zombies /\ (sigchld \/ merged)

(* A request that has been handled is not handed out again.                *)
HandledOnce ==
  [][\A msg \in Msg, pr \in Proc :
       "HANDLED" \in state_reported[msg] /\ Owes(pr, msg)' => Owes(pr, msg)]_vars

(* The promise of TtRequest: a request is open until it has its outcome,   *)
(* a process works on it while it owes an answer for it, and its sender    *)
(* knows the outcome that its copy shows.                                  *)
Outcomes == [msg \in Msg |-> CASE state[msg] = "CREATED" -> "none"
                               [] state[msg] \in Open -> "open"
                               [] OTHER -> state[msg]]
Workers == [msg \in Msg |-> {pr \in Proc : Owes(pr, msg)}]
Learnt == [msg \in Msg |-> IF sender_copy[msg] \in Final
                           THEN sender_copy[msg] ELSE "open"]

Request == INSTANCE TtRequest WITH
  outcome <- Outcomes, workers <- Workers, refused <- tried, told <- Learnt

KeepsPromise == Request!Spec

=============================================================================
