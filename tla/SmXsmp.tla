------------------------------- MODULE SmXsmp -------------------------------
(****************************************************************************)
(* The session manager's part in the X Session Management Protocol,         *)
(* src/cde/programs/dtsession: SmXSMP.c, which asks the session's clients   *)
(* to save themselves, lets them interact with the user one after the other *)
(* and tells them to die at a shutdown, and ImmediateExit of SmUI.c, which  *)
(* starts the shutdown at a logout and waits for its outcome.               *)
(*                                                                          *)
(* What dtsession sends takes effect on a client at once; what a client     *)
(* sends is on its way (one message at a time) until dtsession handles it,  *)
(* so the two may cross.  SMlib, which is not part of the repository,       *)
(* refuses what the protocol does not allow a client to send.  Clients that *)
(* give a previous id and clients of the older ICCCM protocol are left out. *)
(****************************************************************************)
EXTENDS Naturals, FiniteSets

CONSTANTS
  Client,       \* the programs that may connect, once each
  NoClient,
  MaxSaves,     \* the bound on the saves that are asked for
  MaxPending    \* the bound on the save timers that run at a time, and on the
                \* requests to the window manager that are not yet answered

ASSUME ConstantsAssumption ==
  IsFiniteSet(Client) /\ NoClient \notin Client /\ {MaxSaves, MaxPending} \subseteq Nat

VARIABLES
  saveState,     \* smXSMP.saveState
  client,        \* [Client -> ClientRec]; "closed": smConn is NULL
  sms,           \* [Client -> what SMlib knows of the connection]
  app,           \* [Client -> what the client is doing]
  msg,           \* [Client -> the message on its way to dtsession]
  wsm,           \* requests for the window manager's list not yet answered
  waiting,       \* ImmediateExit's event loop runs
  ExitComplete, saveTimeout,
  timers,        \* SaveTimeout timers that run
  saves,         \* the saves asked for so far (for the bound)
  ended,         \* "no", "exit" or "crash"
  wish,          \* history: what was last asked of the session
  early,         \* history: the clients that still had an earlier
                 \* SaveYourself to answer when this save began
  disturbed      \* history: clients came or went during this save

logout == <<waiting, ExitComplete, saveTimeout, timers>>
history == <<wish, early, disturbed>>
vars == <<saveState, client, sms, app, msg, wsm, saves, logout, ended, history>>

-----------------------------------------------------------------------------
(* InitializeSaveState, which leaves shutdownCanceled as it is.             *)
InitialSaveState(canceled) ==
  [inProgress |-> FALSE, shutdown |-> FALSE, shutdownCanceled |-> canceled,
   interact |-> TRUE, saveComplete |-> FALSE, wsmAsked |-> FALSE,
   interactClient |-> NoClient]

(* NewClientProc, the client not yet connected.                             *)
NewClientRec == [conn |-> "none", active |-> FALSE, saveYourselfDone |-> FALSE,
                 saveYourselfP2Requested |-> FALSE, interactRequested |-> FALSE]

Idle == [at |-> "idle", again |-> FALSE, interact |-> FALSE]

(* SMlib's side of a connection with no save going on.                      *)
Quiet == [saving |-> FALSE, interact |-> FALSE, cancel |-> FALSE, interacting |-> FALSE]

Init ==
  /\ saveState = InitialSaveState(FALSE)
  /\ client = [c \in Client |-> NewClientRec]
  /\ sms = [c \in Client |-> Quiet]
  /\ app = [c \in Client |-> Idle]
  /\ msg = [c \in Client |-> "none"]
  /\ wsm = 0 /\ saves = 0
  /\ waiting = FALSE /\ ExitComplete = TRUE /\ saveTimeout = FALSE /\ timers = 0
  /\ ended = "no"
  /\ wish = "none" /\ early = {} /\ disturbed = FALSE

Active == {c \in Client : client[c].active}
Connected == {c \in Client : client[c].conn # "none"}

Running == ended = "no"

-----------------------------------------------------------------------------
(* What dtsession's messages do to a client (a) and to SMlib's side of its  *)
(* connection (s).  A client that is told to save itself while it still     *)
(* answers an earlier request answers both in turn.                         *)

ToldToSave(a, interact) ==
  CASE a.at = "dying" -> a
    [] a.at = "idle"  -> [at |-> "saving", again |-> FALSE, interact |-> interact]
    [] OTHER          -> [a EXCEPT !.again = TRUE, !.interact = interact]

SmsToldToSave(s, shutdown, interact) ==
  [s EXCEPT !.saving = TRUE, !.interact = interact, !.cancel = shutdown /\ interact]

Answered(a) == IF a.again THEN [a EXCEPT !.at = "saving", !.again = FALSE] ELSE Idle

(* Any other message m.                                                     *)
Told(m, a) ==
  CASE m = "SaveComplete" /\ a.at = "p2wait"       -> Answered(a)
    [] m = "SaveYourselfPhase2" /\ a.at = "p2wait" -> [a EXCEPT !.at = "phase2"]
    [] m = "Interact" /\ a.at = "iwait"            -> [a EXCEPT !.at = "interacting"]
    [] m = "ShutdownCancelled" /\ a.at \in {"iwait", "interacting"}
                         -> [a EXCEPT !.at = "saving", !.interact = FALSE]
    [] m = "Die"         -> [Idle EXCEPT !.at = "dying"]
    [] OTHER             -> a

Tell(cs, m) == app' = [c \in Client |-> IF c \in cs THEN Told(m, app[c]) ELSE app[c]]

-----------------------------------------------------------------------------
(* The end of a save.  C stands for the clients as the caller leaves them.  *)

Cleared(C) ==
  [c \in Client |->
     IF C[c].active
     THEN [C[c] EXCEPT !.saveYourselfDone = FALSE, !.interactRequested = FALSE,
                       !.saveYourselfP2Requested = FALSE]
     ELSE C[c]]

CancelShutdown(C) ==
  /\ client' = Cleared(C)
  /\ saveState' = InitialSaveState(TRUE)
  /\ UNCHANGED app

CompleteXSMPSave(C) ==
  \/ /\ ~saveState.shutdown
     /\ Tell(Active, "SaveComplete")
     /\ client' = Cleared(C)
     /\ saveState' = InitialSaveState(saveState.shutdownCanceled)
  \/ /\ saveState.shutdown
     /\ Tell(Active, "Die")
     /\ client' = C
     /\ saveState' = [saveState EXCEPT !.saveComplete = TRUE]

(* Mutant: a client that asked for a phase 2 counts as done.                *)
UndoneInPhase1(C) ==
  {c \in Active : ~C[c].saveYourselfDone /\ ~C[c].saveYourselfP2Requested}

(* The active clients that have still to say they are done.                 *)
Undone(C) == {c \in Active : ~C[c].saveYourselfDone}

(* Mutant: a shutdown that was cancelled is completed.                      *)
ResponsesAnyway(C) ==
  IF Undone(C) = {}
  THEN CompleteXSMPSave(C)
  ELSE /\ IF \A c \in Undone(C) : C[c].saveYourselfP2Requested
          THEN Tell(Undone(C), "SaveYourselfPhase2") ELSE UNCHANGED app
       /\ client' = C
       /\ UNCHANGED saveState

ProcessSaveYourselfResponses(C) ==
  IF Undone(C) = {}
  THEN IF saveState.shutdownCanceled THEN CancelShutdown(C) ELSE CompleteXSMPSave(C)
  ELSE /\ IF \A c \in Undone(C) : C[c].saveYourselfP2Requested
          THEN Tell(Undone(C), "SaveYourselfPhase2") ELSE UNCHANGED app
       /\ client' = C
       /\ UNCHANGED saveState

-----------------------------------------------------------------------------
(* ProcessInteract: SmsInteract to a client that wants to interact: one on  *)
(* the current workspace, or the last of them, so that it may be any.  A    *)
(* client that has closed its connection has none to send to.               *)

SmsInteract(c) ==
  IF client[c].conn = "closed"
  THEN ended' = "crash" /\ UNCHANGED <<app, sms>>
  ELSE /\ Tell({c}, "Interact")
       /\ sms' = [sms EXCEPT ![c].interacting = TRUE]
       /\ UNCHANGED ended

ProcessInteract(C, S) ==
  LET wanting == {c \in Connected : C[c].interactRequested}
  IN  /\ client' = C
      /\ \/ /\ wanting = {}
            /\ sms' = S
            /\ UNCHANGED <<app, ended>>
         \/ \E c \in wanting :
              IF C[c].conn = "closed"
              THEN ended' = "crash" /\ sms' = S /\ UNCHANGED app
              ELSE /\ Tell({c}, "Interact")
                   /\ sms' = [S EXCEPT ![c].interacting = TRUE]
                   /\ UNCHANGED ended

-----------------------------------------------------------------------------
(* A client connects (NewConnectionXtProc, NewClientProc): not during a     *)
(* shutdown.                                                                *)
Connect(c) ==
  /\ Running
  /\ client[c].conn = "none" /\ ~saveState.shutdown
  /\ client' = [client EXCEPT ![c].conn = "open"]
  /\ UNCHANGED <<saveState, sms, app, msg, wsm, saves, logout, ended, history>>

(* RegisterClientProc, which tells the client to save itself a first time.  *)
RegisterClient(c) ==
  /\ Running
  /\ client[c].conn = "open" /\ ~client[c].active /\ msg[c] # "close"
  /\ client' = [client EXCEPT ![c].active = TRUE]
  /\ app' = [app EXCEPT ![c] = ToldToSave(@, FALSE)]
  /\ sms' = [sms EXCEPT ![c] = SmsToldToSave(@, FALSE, FALSE)]
  /\ disturbed' = (disturbed \/ saveState.inProgress)
  /\ UNCHANGED <<saveState, msg, wsm, saves, logout, ended, wish, early>>

Wish(shutdown) == IF saveState.inProgress THEN wish
                  ELSE IF shutdown THEN "shutdown" ELSE "none"

(* SaveYourselfReqProc, asked for the whole session.  When every client has *)
(* asked for a phase 2, the last of them is told to enter it.               *)
SaveYourselfReq(shutdown, interact) ==
  IF saveState.inProgress
  THEN UNCHANGED <<saveState, app, sms, early, disturbed>>
  ELSE /\ saveState' = [saveState EXCEPT !.inProgress = TRUE, !.shutdown = shutdown,
                          !.shutdownCanceled = FALSE, !.interact = interact]
       /\ sms' = [c \in Client |->
                    IF c \in Active THEN SmsToldToSave(sms[c], shutdown, interact)
                                    ELSE sms[c]]
       /\ LET told == [c \in Client |-> IF c \in Active THEN ToldToSave(app[c], interact)
                                                      ELSE app[c]]
          IN  IF Active # {} /\ \A c \in Active : client[c].saveYourselfP2Requested
              THEN \E last \in Active : app' = [told EXCEPT ![last] = Told("SaveYourselfPhase2", @)]
              ELSE app' = told
       /\ early' = {c \in Active : app[c].at # "idle" \/ msg[c] \in {"done", "p2req"}}
       /\ disturbed' = (Active = {})

Asked == saves < MaxSaves /\ saves' = saves + 1

-----------------------------------------------------------------------------
(* What a client does: it answers, and it may ask to interact, once a save, *)
(* or leave.                                                                *)

Send(c, m, at) ==
  /\ Running
  /\ client[c].conn = "open" /\ msg[c] = "none"
  /\ msg' = [msg EXCEPT ![c] = m]
  /\ app' = [app EXCEPT ![c] =
               IF at = "idle" THEN Answered(@)
               ELSE [@ EXCEPT !.at = at, !.interact = @ /\ m \notin {"ireq", "p2req"}]]
  /\ UNCHANGED <<saveState, client, sms, wsm, saves, logout, ended, history>>

Answer(c) ==
  \/ app[c].at \in {"saving", "phase2"} /\ Send(c, "done", "idle")
  \/ app[c].at = "saving" /\ Send(c, "p2req", "p2wait")
  \/ app[c].at = "interacting" /\ Send(c, "idone", "saving")
  \/ app[c].at = "interacting" /\ sms[c].cancel /\ Send(c, "cancel", "saving")
  \/ app[c].at = "dying" /\ Send(c, "close", "dying")

AskToInteract(c) ==
  app[c].at = "saving" /\ app[c].interact /\ Send(c, "ireq", "iwait")

Leave(c) == app[c].at # "dying" /\ Send(c, "close", app[c].at)

-----------------------------------------------------------------------------
(* The callbacks of dtsession.                                              *)

Heard(c, m) ==
  /\ Running
  /\ msg[c] = m
  /\ msg' = [msg EXCEPT ![c] = "none"]

(* A message that SMlib refuses.                                            *)
Refused(c) ==
  /\ \/ sms[c].saving = FALSE /\ \E m \in {"done", "p2req", "ireq"} : Heard(c, m)
     \/ sms[c].saving /\ ~sms[c].interact /\ Heard(c, "ireq")
     \/ ~sms[c].interacting /\ \E m \in {"idone", "cancel"} : Heard(c, m)
  /\ UNCHANGED <<saveState, client, sms, app, wsm, saves, logout, ended, history>>

SaveYourselfPhase2Req(c) ==
  /\ sms[c].saving /\ Heard(c, "p2req")
  /\ LET C == [client EXCEPT ![c].saveYourselfP2Requested = TRUE]
     IN  IF saveState.inProgress
         THEN ProcessSaveYourselfResponses(C)
         ELSE /\ Tell({c}, "SaveComplete")
              /\ client' = C
              /\ UNCHANGED saveState
  /\ UNCHANGED <<sms, wsm, saves, logout, ended, history>>

SaveYourselfDone(c) ==
  /\ sms[c].saving /\ Heard(c, "done")
  /\ sms' = [sms EXCEPT ![c] = [Quiet EXCEPT !.interacting = @]]
  /\ IF saveState.inProgress
     THEN ProcessSaveYourselfResponses([client EXCEPT ![c].saveYourselfDone = TRUE])
     ELSE /\ Tell({c}, "SaveComplete")
          /\ UNCHANGED <<saveState, client>>
  /\ UNCHANGED <<wsm, saves, logout, ended, history>>

(* InteractRequestProc: the first request of a save has the window manager  *)
(* asked for the clients of its workspaces (SendGetWsmClientsMessage, which *)
(* may fail); the client that asked is kept for the answer.                 *)
InteractRequest(c) ==
  /\ sms[c].saving /\ sms[c].interact /\ Heard(c, "ireq")
  /\ LET C == [client EXCEPT ![c].interactRequested = TRUE]
     IN  IF saveState.wsmAsked
         THEN ProcessInteract(C, sms) /\ UNCHANGED <<saveState, wsm>>
         ELSE \/ /\ wsm < MaxPending
                 /\ wsm' = wsm + 1
                 /\ saveState' = [saveState EXCEPT !.wsmAsked = TRUE,
                                                   !.interactClient = c]
                 /\ client' = C
                 /\ UNCHANGED <<sms, app, ended>>
              \/ /\ saveState' = [saveState EXCEPT !.wsmAsked = TRUE]
                 /\ client' = C
                 /\ SmsInteract(c)
                 /\ UNCHANGED wsm
  /\ UNCHANGED <<saves, logout, history>>

(* GetWsmClientsHandler.  An answer that is not one goes to the client that *)
(* was kept, if the save it belonged to is still the current one.           *)
GetWsmClients ==
  /\ Running
  /\ wsm > 0
  /\ wsm' = wsm - 1
  /\ \/ ProcessInteract(client, sms)
     \/ /\ client' = client
        /\ IF saveState.interactClient = NoClient
           THEN ended' = "crash" /\ UNCHANGED <<app, sms>>
           ELSE SmsInteract(saveState.interactClient)
  /\ UNCHANGED <<saveState, msg, saves, logout, history>>

(* Mutant: the next client that wants to interact is not told it may.       *)
InteractDoneLast(c, cancelShutdown) ==
  /\ sms[c].interacting /\ Heard(c, IF cancelShutdown THEN "cancel" ELSE "idone")
  /\ client' = [client EXCEPT ![c].interactRequested = FALSE]
  /\ sms' = [sms EXCEPT ![c].interacting = FALSE]
  /\ saveState' = [saveState EXCEPT !.shutdownCanceled = @ \/ cancelShutdown]
  /\ UNCHANGED <<app, ended, wsm, saves, logout, history>>

(* InteractDoneProc.  A client that cancels a shutdown has every client on  *)
(* the list told, a closed one too, which fails (its smConn is NULL).       *)
InteractDone(c, cancelShutdown) ==
  /\ sms[c].interacting /\ Heard(c, IF cancelShutdown THEN "cancel" ELSE "idone")
  /\ LET C == [client EXCEPT ![c].interactRequested = FALSE]
         S == [sms EXCEPT ![c].interacting = FALSE]
     IN  IF cancelShutdown /\ saveState.shutdown /\ saveState.interact
         THEN /\ Tell(Connected, "ShutdownCancelled")
              /\ sms' = [d \in Client |-> [S[d] EXCEPT !.cancel = FALSE]]
              /\ client' = C
              /\ ended' = IF \E d \in Client : client[d].conn = "closed"
                          THEN "crash" ELSE ended
              /\ wish' = "cancelled"
         ELSE ProcessInteract(C, S) /\ UNCHANGED wish
  /\ saveState' = [saveState EXCEPT !.shutdownCanceled = @ \/ cancelShutdown]
  /\ UNCHANGED <<wsm, saves, logout, early, disturbed>>

(* Mutant: a client that leaves stays active.                               *)
CloseDownStillActive(c) ==
  /\ Heard(c, "close")
  /\ client' = [client EXCEPT ![c].conn = "closed"]
  /\ sms' = [sms EXCEPT ![c] = Quiet]
  /\ app' = [app EXCEPT ![c] = Idle]
  /\ UNCHANGED <<saveState, wsm, saves, logout, ended, history>>

(* CloseDownClient: during a shutdown the last to go ends dtsession, if     *)
(* SmExit allows it.                                                        *)
CloseDownClient(c) ==
  /\ Heard(c, "close")
  /\ client' = [client EXCEPT ![c].conn = "closed", ![c].active = FALSE]
  /\ ended' = IF saveState.shutdown /\ Active \subseteq {c} /\ ExitComplete
              THEN "exit" ELSE ended
  /\ disturbed' = (disturbed \/ ~saveState.saveComplete)
  /\ sms' = [sms EXCEPT ![c] = Quiet]
  /\ app' = [app EXCEPT ![c] = Idle]
  /\ UNCHANGED <<saveState, wsm, saves, logout, wish, early>>

(* SaveYourselfReqProc, called for a client: a save that is not global is   *)
(* for that client alone, unless one is in progress.  The request says      *)
(* nothing of the client, so that it may as well be handled at once.        *)
AskToSave(c) ==
  /\ Running
  /\ Asked
  /\ client[c].active /\ msg[c] = "none" /\ app[c].at = "idle"
  /\ \E shutdown \in BOOLEAN :
       \/ /\ ~saveState.inProgress
          /\ app' = [app EXCEPT ![c] = ToldToSave(@, TRUE)]
          /\ sms' = [sms EXCEPT ![c] = SmsToldToSave(@, shutdown, TRUE)]
          /\ UNCHANGED <<saveState, history>>
       \/ SaveYourselfReq(shutdown, TRUE) /\ wish' = Wish(shutdown)
  /\ UNCHANGED <<client, msg, wsm, logout, ended>>

(* SaveState, asked for by the style manager: no interaction.               *)
SaveSession ==
  /\ Running /\ ~waiting
  /\ Asked
  /\ SaveYourselfReq(FALSE, FALSE) /\ wish' = Wish(FALSE)
  /\ UNCHANGED <<client, msg, wsm, logout, ended>>

-----------------------------------------------------------------------------
(* ImmediateExit: the shutdown is asked for, and the event loop runs until  *)
(* its outcome is known.  The loop looks at it after an X event only, so    *)
(* that other callbacks may come in between; an exit they ask for is put    *)
(* off while ExitComplete is FALSE (SmExit).  The timer is never removed;   *)
(* saveTimeout is looked at by the loop alone.                              *)

LogOut ==
  /\ Running /\ ~waiting /\ timers < MaxPending
  /\ Asked
  /\ SaveYourselfReq(TRUE, TRUE) /\ wish' = "shutdown"
  /\ waiting' = TRUE /\ ExitComplete' = FALSE /\ saveTimeout' = FALSE
  /\ timers' = timers + 1
  /\ UNCHANGED <<client, msg, wsm, ended>>

WaitEnds ==
  /\ Running /\ waiting
  /\ saveState.saveComplete \/ saveState.shutdownCanceled \/ saveTimeout
  /\ waiting' = FALSE /\ ExitComplete' = TRUE /\ saveTimeout' = FALSE
  /\ ended' = IF saveState.shutdownCanceled THEN ended ELSE "exit"
  /\ UNCHANGED <<saveState, client, sms, app, msg, wsm, saves, timers, history>>

SaveTimeout ==
  /\ Running
  /\ timers > 0 /\ timers' = timers - 1
  /\ saveTimeout' = waiting
  /\ ended' = IF ~saveState.shutdownCanceled /\ ExitComplete THEN "exit" ELSE ended
  /\ UNCHANGED <<saveState, client, sms, app, msg, wsm, saves, waiting, ExitComplete, history>>

-----------------------------------------------------------------------------
Callback(c) ==
  \/ Refused(c) \/ SaveYourselfPhase2Req(c) \/ SaveYourselfDone(c)
  \/ InteractRequest(c) \/ CloseDownClient(c)
  \/ \E cancelShutdown \in BOOLEAN : InteractDone(c, cancelShutdown)

Next ==
  \/ \E c \in Client :
       \/ Connect(c) \/ RegisterClient(c)
       \/ Answer(c) \/ AskToInteract(c) \/ AskToSave(c) \/ Leave(c)
       \/ Callback(c)
  \/ GetWsmClients \/ SaveSession \/ LogOut \/ WaitEnds \/ SaveTimeout

(* The clients answer, the window manager answers and what has come is      *)
(* handled; nobody has to ask for anything, and no client has to leave      *)
(* unless it is told to die.                                                *)
Fairness ==
  /\ \A c \in Client : WF_vars(Answer(c)) /\ WF_vars(Callback(c))
  /\ WF_vars(GetWsmClients)

Spec == Init /\ [][Next]_vars /\ Fairness

-----------------------------------------------------------------------------
TypeOK ==
  /\ saveState \in [inProgress : BOOLEAN, shutdown : BOOLEAN,
                    shutdownCanceled : BOOLEAN, interact : BOOLEAN,
                    saveComplete : BOOLEAN, wsmAsked : BOOLEAN,
                    interactClient : Client \cup {NoClient}]
  /\ client \in [Client -> [conn : {"none", "open", "closed"}, active : BOOLEAN,
                            saveYourselfDone : BOOLEAN,
                            saveYourselfP2Requested : BOOLEAN,
                            interactRequested : BOOLEAN]]
  /\ sms \in [Client -> [saving : BOOLEAN, interact : BOOLEAN,
                         cancel : BOOLEAN, interacting : BOOLEAN]]
  /\ app \in [Client -> [at : {"idle", "saving", "p2wait", "phase2", "iwait",
                               "interacting", "dying"},
                         again : BOOLEAN, interact : BOOLEAN]]
  /\ msg \in [Client -> {"none", "done", "p2req", "ireq", "idone", "cancel", "close"}]
  /\ saves \in 0 .. MaxSaves
  /\ wsm \in 0 .. MaxPending /\ timers \in 0 .. MaxPending
  /\ waiting \in BOOLEAN /\ ExitComplete = ~waiting /\ saveTimeout \in BOOLEAN
  /\ ended \in {"no", "exit", "crash"}
  /\ wish \in {"none", "shutdown", "cancelled"}
  /\ early \subseteq Client /\ disturbed \in BOOLEAN
  /\ \A c \in Active : client[c].conn = "open"

(* No client is told to die unless a shutdown was asked for and no client   *)
(* has cancelled it since (ProcessSaveYourselfResponses).                   *)
DieWanted ==
  [][\A c \in Client :
       app[c].at # "dying" /\ app'[c].at = "dying" => wish = "shutdown"]_vars

(* A client is told to die only when it has saved its state as this         *)
(* shutdown asked it to, its phase 2 included, unless it still had to       *)
(* answer an earlier request when the shutdown began, which dtsession       *)
(* cannot tell from an answer to this one.                                  *)
SavedBeforeDie ==
  [][\A c \in Client \ early :
       app[c].at # "dying" /\ app'[c].at = "dying"
         => app[c].at = "idle" /\ ~app[c].again]_vars

(* Clients came or went, or the save began before an earlier one was        *)
(* answered: SMlib then takes one answer for both.                          *)
Disturbed == disturbed \/ early # {}

(* A save comes to its end when its clients answer and none comes or goes   *)
(* before it has: no order of their answers, phases and interactions leaves *)
(* dtsession waiting.                                                       *)
SaveEnds ==
  saveState.inProgress
    ~> (~saveState.inProgress \/ saveState.saveComplete \/ Disturbed \/ ~Running)

(* A session whose logout a client has cancelled goes on: dtsession exits   *)
(* only at a shutdown that was asked for and not cancelled.                 *)
ExitWanted == ended = "exit" => wish = "shutdown"
=============================================================================
