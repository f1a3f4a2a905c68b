---------------------------- MODULE SmXsmpProofs ----------------------------
(* Theorems about SmXsmp: types, and who is told to die.                    *)
EXTENDS SmXsmp, TLAPS

AppState == [at : {"idle", "saving", "p2wait", "phase2", "iwait",
                   "interacting", "dying"},
             again : BOOLEAN, interact : BOOLEAN]
SmsState == [saving : BOOLEAN, interact : BOOLEAN,
             cancel : BOOLEAN, interacting : BOOLEAN]
ClientState == [conn : {"none", "open", "closed"}, active : BOOLEAN,
                saveYourselfDone : BOOLEAN, saveYourselfP2Requested : BOOLEAN,
                interactRequested : BOOLEAN]
Save == [inProgress : BOOLEAN, shutdown : BOOLEAN,
         shutdownCanceled : BOOLEAN, interact : BOOLEAN,
         saveComplete : BOOLEAN, wsmAsked : BOOLEAN,
         interactClient : Client \cup {NoClient}]

(* The part of the type invariant about the clients and the save, which is  *)
(* what the functions that the callbacks share change.                      *)
Typed ==
  /\ saveState \in Save
  /\ client \in [Client -> ClientState]
  /\ sms \in [Client -> SmsState]
  /\ app \in [Client -> AppState]
  /\ ended \in {"no", "exit", "crash"}
  /\ \A c \in Client : client[c].active => client[c].conn = "open"

Rest ==
  /\ msg \in [Client -> {"none", "done", "p2req", "ireq", "idone", "cancel", "close"}]
  /\ saves \in 0 .. MaxSaves
  /\ wsm \in 0 .. MaxPending /\ timers \in 0 .. MaxPending
  /\ waiting \in BOOLEAN /\ ExitComplete = ~waiting /\ saveTimeout \in BOOLEAN
  /\ wish \in {"none", "shutdown", "cancelled"}
  /\ early \subseteq Client /\ disturbed \in BOOLEAN

LEMMA TypeParts == TypeOK <=> Typed /\ Rest
BY DEF TypeOK, Typed, Rest, Active, AppState, SmsState, ClientState, Save

(* A table of clients that differs from client in the answers only.         *)
Table(C) ==
  /\ C \in [Client -> ClientState]
  /\ \A c \in Client : C[c].active => C[c].conn = "open"

-----------------------------------------------------------------------------
(* What dtsession's messages make of a client.                              *)

LEMMA AnsweredType == ASSUME NEW a \in AppState PROVE
  /\ Answered(a) \in AppState
  /\ Answered(a).at # "dying"
BY DEF Answered, AppState, Idle

LEMMA ToldType == ASSUME NEW a \in AppState, NEW m PROVE
  /\ Told(m, a) \in AppState
  /\ Told(m, a).at = "dying" => a.at = "dying" \/ m = "Die"
<1>1. CASE m = "SaveComplete" /\ a.at = "p2wait"
  BY <1>1, AnsweredType DEF Told
<1>2. CASE ~(m = "SaveComplete" /\ a.at = "p2wait")
  BY <1>2 DEF Told, AppState, Idle
<1> QED
  BY <1>1, <1>2

LEMMA ToldToSaveType ==
  ASSUME NEW a \in AppState, NEW interact \in BOOLEAN
  PROVE  /\ ToldToSave(a, interact) \in AppState
         /\ ToldToSave(a, interact).at = "dying" => a.at = "dying"
BY DEF ToldToSave, AppState

LEMMA SmsToldToSaveType ==
  ASSUME NEW s \in SmsState, NEW shutdown \in BOOLEAN, NEW interact \in BOOLEAN
  PROVE  SmsToldToSave(s, shutdown, interact) \in SmsState
BY DEF SmsToldToSave, SmsState

LEMMA TellType ==
  ASSUME app \in [Client -> AppState], NEW cs, NEW m, Tell(cs, m)
  PROVE  /\ app' \in [Client -> AppState]
         /\ \A c \in Client : app'[c].at = "dying" => app[c].at = "dying" \/ m = "Die"
<1>1. \A c \in Client : app'[c] = Told(m, app[c]) \/ app'[c] = app[c]
  BY DEF Tell
<1>2. \A c \in Client : Told(m, app[c]) \in AppState
  BY ToldType
<1>3. app' \in [Client -> AppState]
  BY <1>2 DEF Tell
<1>4. ASSUME NEW c \in Client, app'[c].at = "dying" PROVE app[c].at = "dying" \/ m = "Die"
  BY <1>1, <1>4, ToldType
<1> QED
  BY <1>3, <1>4

-----------------------------------------------------------------------------
(* The functions that the callbacks share.                                  *)

LEMMA InitialSaveStateType == ASSUME NEW b \in BOOLEAN PROVE InitialSaveState(b) \in Save
BY DEF InitialSaveState, Save

LEMMA ClearedType == ASSUME NEW C, Table(C) PROVE Table(Cleared(C))
BY DEF Table, Cleared, ClientState

(* What a step may do to the save and the clients: types are kept, and a    *)
(* client is told to die at a shutdown that goes on.                        *)
GoingOn == saveState.inProgress /\ saveState.shutdown /\ ~saveState.shutdownCanceled

NobodyDies == \A c \in Client : app'[c].at = "dying" => app[c].at = "dying"

LEMMA CompleteStep ==
  ASSUME Typed, NEW C, Table(C), CompleteXSMPSave(C), saveState.inProgress,
         ~saveState.shutdownCanceled
  PROVE  /\ saveState' \in Save /\ app' \in [Client -> AppState] /\ Table(client')
         /\ NobodyDies \/ GoingOn
         /\ GoingOn' => GoingOn
<1>1. CASE ~saveState.shutdown
  <2>1. /\ Tell(Active, "SaveComplete") /\ client' = Cleared(C)
        /\ saveState' = InitialSaveState(saveState.shutdownCanceled)
    BY <1>1 DEF CompleteXSMPSave
  <2>2. app' \in [Client -> AppState] /\ NobodyDies
    BY <2>1, TellType DEF Typed, NobodyDies
  <2>3. saveState.shutdownCanceled \in BOOLEAN
    BY DEF Typed, Save
  <2>4. saveState' \in Save /\ ~GoingOn'
    BY <2>1, <2>3, InitialSaveStateType DEF GoingOn, InitialSaveState
  <2> QED
    BY <2>1, <2>2, <2>4, ClearedType
<1>2. CASE saveState.shutdown
  <2>1. /\ Tell(Active, "Die") /\ client' = C
        /\ saveState' = [saveState EXCEPT !.saveComplete = TRUE]
    BY <1>2 DEF CompleteXSMPSave
  <2>2. app' \in [Client -> AppState]
    BY <2>1, TellType DEF Typed
  <2>3. saveState' \in Save
    BY <2>1 DEF Typed, Save
  <2> QED
    BY <1>2, <2>1, <2>2, <2>3 DEF GoingOn
<1> QED
  BY <1>1, <1>2

LEMMA ResponsesStep ==
  ASSUME Typed, NEW C, Table(C), ProcessSaveYourselfResponses(C), saveState.inProgress
  PROVE  /\ saveState' \in Save /\ app' \in [Client -> AppState] /\ Table(client')
         /\ NobodyDies \/ GoingOn
         /\ GoingOn' => GoingOn
<1>1. CASE Undone(C) = {} /\ saveState.shutdownCanceled
  <2>1. client' = Cleared(C) /\ saveState' = InitialSaveState(TRUE) /\ app' = app
    BY <1>1 DEF ProcessSaveYourselfResponses, CancelShutdown
  <2>2. saveState' \in Save /\ ~GoingOn'
    BY <2>1, InitialSaveStateType DEF GoingOn, InitialSaveState
  <2> QED
    BY <2>1, <2>2, ClearedType DEF NobodyDies, Typed
<1>2. CASE Undone(C) = {} /\ ~saveState.shutdownCanceled
  <2>1. CompleteXSMPSave(C)
    BY <1>2 DEF ProcessSaveYourselfResponses
  <2> QED
    BY <1>2, <2>1, CompleteStep
<1>3. CASE Undone(C) # {}
  <2>1. /\ client' = C /\ saveState' = saveState
        /\ Tell(Undone(C), "SaveYourselfPhase2") \/ app' = app
    BY <1>3 DEF ProcessSaveYourselfResponses
  <2>2. app' \in [Client -> AppState] /\ NobodyDies
    BY <2>1, TellType DEF Typed, NobodyDies
  <2> QED
    BY <2>1, <2>2 DEF GoingOn, Typed
<1> QED
  BY <1>1, <1>2, <1>3

LEMMA SmsInteractStep ==
  ASSUME Typed, NEW c \in Client, SmsInteract(c)
  PROVE  /\ app' \in [Client -> AppState] /\ NobodyDies
         /\ sms' \in [Client -> SmsState] /\ ended' \in {"no", "exit", "crash"}
<1>1. CASE client[c].conn = "closed"
  BY <1>1 DEF SmsInteract, Typed, NobodyDies
<1>2. CASE client[c].conn # "closed"
  <2>1. Tell({c}, "Interact") /\ ended' = ended
        /\ sms' = [sms EXCEPT ![c].interacting = TRUE]
    BY <1>2 DEF SmsInteract
  <2>2. app' \in [Client -> AppState] /\ NobodyDies
    BY <2>1, TellType DEF Typed, NobodyDies
  <2> QED
    BY <2>1, <2>2 DEF Typed, SmsState
<1> QED
  BY <1>1, <1>2

LEMMA InteractStep ==
  ASSUME Typed, NEW C, Table(C), NEW S \in [Client -> SmsState], ProcessInteract(C, S)
  PROVE  /\ app' \in [Client -> AppState] /\ NobodyDies
         /\ sms' \in [Client -> SmsState] /\ ended' \in {"no", "exit", "crash"}
         /\ Table(client')
<1>1. client' = C
  BY DEF ProcessInteract
<1>2. CASE sms' = S /\ app' = app /\ ended' \in {ended, "crash"}
  BY <1>1, <1>2 DEF Typed, NobodyDies
<1>3. CASE \E c \in Client : /\ Tell({c}, "Interact") /\ ended' = ended
                             /\ sms' = [S EXCEPT ![c].interacting = TRUE]
  <2>1. PICK c \in Client : /\ Tell({c}, "Interact") /\ ended' = ended
                            /\ sms' = [S EXCEPT ![c].interacting = TRUE]
    BY <1>3
  <2>2. app' \in [Client -> AppState] /\ NobodyDies
    BY <2>1, TellType DEF Typed, NobodyDies
  <2> QED
    BY <1>1, <2>1, <2>2 DEF Typed, SmsState
<1> QED
  BY <1>2, <1>3 DEF ProcessInteract, Connected

-----------------------------------------------------------------------------
(* A shutdown that goes on is one that was asked for and not cancelled.     *)
Wished == GoingOn => wish = "shutdown"

Inv == TypeOK /\ Wished

DieStep ==
  \A c \in Client :
    app[c].at # "dying" /\ app'[c].at = "dying" => wish = "shutdown"

(* What a step has to keep. *)
Kept == Typed' /\ Rest' /\ Wished' /\ DieStep

LEMMA InvParts == Inv <=> Typed /\ Rest /\ Wished
BY TypeParts DEF Inv

LEMMA TypedTable == Typed => Table(client)
BY DEF Typed, Table

LEMMA Bounds == MaxSaves \in Nat /\ MaxPending \in Nat
BY ConstantsAssumption DEF ConstantsAssumption

LEMMA InitInv == Init => Inv
<1> SUFFICES ASSUME Init PROVE Inv
  OBVIOUS
<1>1. Typed
  BY DEF Init, Typed, InitialSaveState, NewClientRec, Quiet, Idle, AppState, SmsState,
     ClientState, Save
<1>2. 0 \in 0 .. MaxSaves /\ 0 \in 0 .. MaxPending
  BY Bounds
<1>3. Rest
  BY <1>2 DEF Init, Rest
<1>4. Wished
  BY DEF Init, Wished, GoingOn, InitialSaveState
<1> QED
  BY <1>1, <1>3, <1>4, InvParts

LEMMA ConnectKept == ASSUME Inv, NEW c \in Client, Connect(c) PROVE Kept
BY InvParts DEF Connect, Kept, Typed, Rest, Wished, GoingOn, DieStep, ClientState,
   logout, history

LEMMA RegisterKept == ASSUME Inv, NEW c \in Client, RegisterClient(c) PROVE Kept
<1> USE InvParts DEF RegisterClient
<1>1. app' = [app EXCEPT ![c] = ToldToSave(@, FALSE)]
  OBVIOUS
<1>2. app' \in [Client -> AppState] /\ NobodyDies
  BY <1>1, ToldToSaveType DEF Typed, NobodyDies
<1>3. sms' \in [Client -> SmsState]
  BY SmsToldToSaveType DEF Typed
<1>4. Typed'
  BY <1>2, <1>3 DEF Typed, ClientState, logout
<1>5. Rest'
  BY DEF Rest, logout, Save, Typed
<1> QED
  BY <1>2, <1>4, <1>5 DEF Kept, Wished, GoingOn, DieStep, NobodyDies

LEMMA SendKept ==
  ASSUME Inv, NEW c \in Client, NEW at,
         at \in {"idle", "saving", "p2wait", "phase2", "iwait", "interacting"}
           \/ at = app[c].at,
         NEW m \in {"done", "p2req", "ireq", "idone", "cancel", "close"},
         Send(c, m, at)
  PROVE  Kept
<1> USE InvParts DEF Send
<1>1. app[c] \in AppState
  BY DEF Typed
<1>2. Answered(app[c]) \in AppState /\ Answered(app[c]).at # "dying"
  BY <1>1, AnsweredType
<1>3. app' \in [Client -> AppState] /\ NobodyDies
  <2>1. CASE at = "idle"
    BY <2>1, <1>2 DEF Typed, NobodyDies
  <2>2. CASE at # "idle"
    BY <2>2, <1>1 DEF Typed, NobodyDies, AppState
  <2> QED
    BY <2>1, <2>2
<1>4. Typed'
  BY <1>3 DEF Typed, logout
<1>5. Rest'
  BY DEF Rest, logout, history
<1> QED
  BY <1>3, <1>4, <1>5 DEF Kept, Wished, GoingOn, DieStep, NobodyDies, history

LEMMA AnswerKept == ASSUME Inv, NEW c \in Client, Answer(c) PROVE Kept
<1>1. \/ Send(c, "done", "idle")
      \/ Send(c, "p2req", "p2wait")
      \/ Send(c, "idone", "saving")
      \/ Send(c, "cancel", "saving")
      \/ app[c].at = "dying" /\ Send(c, "close", "dying")
  BY DEF Answer
<1> QED
  BY <1>1, SendKept

LEMMA AskToInteractKept == ASSUME Inv, NEW c \in Client, AskToInteract(c) PROVE Kept
BY SendKept DEF AskToInteract

LEMMA LeaveKept == ASSUME Inv, NEW c \in Client, Leave(c) PROVE Kept
BY SendKept DEF Leave

-----------------------------------------------------------------------------
(* SaveYourselfReqProc and those who call it.                               *)

LEMMA SaveYourselfReqStep ==
  ASSUME Typed, Rest, Wished, NEW shutdown \in BOOLEAN, NEW interact \in BOOLEAN,
         SaveYourselfReq(shutdown, interact), client' = client, ended' = ended,
         wish' = Wish(shutdown) \/ (shutdown /\ wish' = "shutdown")
  PROVE  /\ Typed' /\ early' \subseteq Client /\ disturbed' \in BOOLEAN
         /\ wish' \in {"none", "shutdown", "cancelled"}
         /\ Wished' /\ NobodyDies
<1>1. CASE saveState.inProgress
  <2>1. UNCHANGED <<saveState, app, sms, early, disturbed>>
    BY <1>1 DEF SaveYourselfReq
  <2>2. Wish(shutdown) = wish
    BY <1>1 DEF Wish
  <2> QED
    BY <2>1, <2>2 DEF Typed, Rest, Wished, GoingOn, NobodyDies
<1>2. CASE ~saveState.inProgress
  <2> DEFINE told == [c \in Client |-> IF c \in Active THEN ToldToSave(app[c], interact)
                                                      ELSE app[c]]
  <2>1. /\ saveState' = [saveState EXCEPT !.inProgress = TRUE, !.shutdown = shutdown,
                           !.shutdownCanceled = FALSE, !.interact = interact]
        /\ sms' = [c \in Client |->
                     IF c \in Active THEN SmsToldToSave(sms[c], shutdown, interact)
                                     ELSE sms[c]]
        /\ early' = {c \in Active : app[c].at # "idle" \/ msg[c] \in {"done", "p2req"}}
        /\ disturbed' = (Active = {})
        /\ \/ app' = told
           \/ \E last \in Active :
                app' = [told EXCEPT ![last] = Told("SaveYourselfPhase2", @)]
    BY <1>2 DEF SaveYourselfReq
  <2>2. told \in [Client -> AppState]
    BY ToldToSaveType DEF Typed
  <2>3. \A c \in Client : told[c].at = "dying" => app[c].at = "dying"
    BY ToldToSaveType DEF Typed
  <2>4. app' \in [Client -> AppState] /\ NobodyDies
    <3>1. CASE app' = told
      BY <3>1, <2>2, <2>3 DEF NobodyDies
    <3>2. CASE \E last \in Active :
                 app' = [told EXCEPT ![last] = Told("SaveYourselfPhase2", @)]
      <4>1. PICK last \in Client :
                 app' = [told EXCEPT ![last] = Told("SaveYourselfPhase2", @)]
        BY <3>2 DEF Active
      <4> HIDE DEF told
      <4>2. /\ Told("SaveYourselfPhase2", told[last]) \in AppState
            /\ Told("SaveYourselfPhase2", told[last]).at = "dying"
                 => told[last].at = "dying"
        BY <2>2, ToldType
      <4> QED
        BY <4>1, <4>2, <2>2, <2>3 DEF NobodyDies
    <3> QED
      BY <2>1, <3>1, <3>2
  <2>5. sms' \in [Client -> SmsState]
    BY <2>1, SmsToldToSaveType DEF Typed
  <2>6. saveState' \in Save /\ saveState'.shutdown = shutdown
    BY <2>1 DEF Typed, Save
  <2>7. wish' \in {"none", "shutdown"} /\ (shutdown => wish' = "shutdown")
    BY <1>2 DEF Wish
  <2> QED
    BY <2>1, <2>4, <2>5, <2>6, <2>7 DEF Typed, Wished, GoingOn, Active
<1> QED
  BY <1>1, <1>2

LEMMA AskToSaveKept == ASSUME Inv, NEW c \in Client, AskToSave(c) PROVE Kept
<1> USE InvParts
<1>2. /\ client' = client /\ ended' = ended /\ saves < MaxSaves /\ saves' = saves + 1
      /\ UNCHANGED <<msg, wsm, logout>>
  BY DEF AskToSave, Asked
<1>3. PICK shutdown \in BOOLEAN :
        \/ /\ app' = [app EXCEPT ![c] = ToldToSave(@, TRUE)]
           /\ sms' = [sms EXCEPT ![c] = SmsToldToSave(@, shutdown, TRUE)]
           /\ UNCHANGED <<saveState, history>>
        \/ SaveYourselfReq(shutdown, TRUE) /\ wish' = Wish(shutdown)
  BY DEF AskToSave
<1>4. /\ Typed' /\ early' \subseteq Client /\ disturbed' \in BOOLEAN
      /\ wish' \in {"none", "shutdown", "cancelled"}
      /\ Wished' /\ NobodyDies
  <2>1. CASE /\ app' = [app EXCEPT ![c] = ToldToSave(@, TRUE)]
             /\ sms' = [sms EXCEPT ![c] = SmsToldToSave(@, shutdown, TRUE)]
             /\ UNCHANGED <<saveState, history>>
    <3>1. app' \in [Client -> AppState] /\ NobodyDies
      BY <2>1, ToldToSaveType DEF Typed, NobodyDies
    <3>2. sms' \in [Client -> SmsState]
      BY <2>1, SmsToldToSaveType DEF Typed
    <3> QED
      BY <1>2, <2>1, <3>1, <3>2 DEF Typed, Rest, Wished, GoingOn, history
  <2>2. CASE SaveYourselfReq(shutdown, TRUE) /\ wish' = Wish(shutdown)
    BY <1>2, <2>2, SaveYourselfReqStep
  <2> QED
    BY <1>3, <2>1, <2>2
<1>5. saves' \in 0 .. MaxSaves
  BY <1>2, Bounds DEF Rest
<1>6. Rest'
  BY <1>2, <1>4, <1>5 DEF Rest, logout
<1> QED
  BY <1>4, <1>6 DEF Kept, DieStep, NobodyDies

LEMMA SaveSessionKept == ASSUME Inv, SaveSession PROVE Kept
<1> USE InvParts
<1>1. /\ client' = client /\ ended' = ended /\ saves < MaxSaves /\ saves' = saves + 1
      /\ UNCHANGED <<msg, wsm, logout>>
      /\ SaveYourselfReq(FALSE, FALSE) /\ wish' = Wish(FALSE)
  BY DEF SaveSession, Asked
<1>2. /\ Typed' /\ early' \subseteq Client /\ disturbed' \in BOOLEAN
      /\ wish' \in {"none", "shutdown", "cancelled"}
      /\ Wished' /\ NobodyDies
  BY <1>1, SaveYourselfReqStep
<1>3. saves' \in 0 .. MaxSaves
  BY <1>1, Bounds DEF Rest
<1>4. Rest'
  BY <1>1, <1>2, <1>3 DEF Rest, logout
<1> QED
  BY <1>2, <1>4 DEF Kept, DieStep, NobodyDies

LEMMA LogOutKept == ASSUME Inv, LogOut PROVE Kept
<1> USE InvParts
<1>1. /\ client' = client /\ ended' = ended /\ saves < MaxSaves /\ saves' = saves + 1
      /\ UNCHANGED <<msg, wsm>>
      /\ SaveYourselfReq(TRUE, TRUE) /\ wish' = "shutdown"
      /\ waiting' = TRUE /\ ExitComplete' = FALSE /\ saveTimeout' = FALSE
      /\ timers < MaxPending /\ timers' = timers + 1
  BY DEF LogOut, Asked
<1>2. /\ Typed' /\ early' \subseteq Client /\ disturbed' \in BOOLEAN
      /\ wish' \in {"none", "shutdown", "cancelled"}
      /\ Wished' /\ NobodyDies
  BY <1>1, SaveYourselfReqStep
<1>3. saves' \in 0 .. MaxSaves /\ timers' \in 0 .. MaxPending
  BY <1>1, Bounds DEF Rest
<1>4. Rest'
  BY <1>1, <1>2, <1>3 DEF Rest
<1> QED
  BY <1>2, <1>4 DEF Kept, DieStep, NobodyDies

-----------------------------------------------------------------------------
(* The callbacks.                                                           *)

LEMMA HeardType ==
  ASSUME Rest, NEW c \in Client, NEW m, Heard(c, m)
  PROVE  msg' \in [Client -> {"none", "done", "p2req", "ireq", "idone", "cancel", "close"}]
BY DEF Heard, Rest

LEMMA RestStep ==
  ASSUME Rest, UNCHANGED <<wsm, saves, logout, early>>,
         msg' \in [Client -> {"none", "done", "p2req", "ireq", "idone", "cancel", "close"}],
         wish' \in {"none", "shutdown", "cancelled"}, disturbed' \in BOOLEAN
  PROVE  Rest'
BY DEF Rest, logout

LEMMA RefusedKept == ASSUME Inv, NEW c \in Client, Refused(c) PROVE Kept
<1> USE InvParts
<1>1. /\ msg' \in [Client -> {"none", "done", "p2req", "ireq", "idone", "cancel", "close"}]
      /\ UNCHANGED <<saveState, client, sms, app, wsm, saves, logout, ended, history>>
  BY HeardType DEF Refused
<1>2. Rest'
  BY <1>1, RestStep DEF history, Rest
<1> QED
  BY <1>1, <1>2 DEF Kept, Typed, Wished, GoingOn, DieStep, history

(* The step of a callback by which the save may end.                        *)
LEMMA EndKept ==
  ASSUME Inv, NEW c \in Client, NEW m, Heard(c, m),
         sms' \in [Client -> SmsState],
         UNCHANGED <<wsm, saves, logout, ended, history>>,
         saveState' \in Save, app' \in [Client -> AppState], Table(client'),
         NobodyDies \/ GoingOn, GoingOn' => GoingOn
  PROVE  Kept
<1> USE InvParts
<1>1. Typed'
  BY DEF Typed, Table
<1>2. Rest'
  BY HeardType, RestStep DEF history, Rest
<1> QED
  BY <1>1, <1>2 DEF Kept, Wished, DieStep, NobodyDies, history

LEMMA Phase2ReqKept == ASSUME Inv, NEW c \in Client, SaveYourselfPhase2Req(c) PROVE Kept
<1> USE InvParts
<1> DEFINE C == [client EXCEPT ![c].saveYourselfP2Requested = TRUE]
<1>1. Table(C)
  BY DEF Typed, Table, ClientState
<1>2. Heard(c, "p2req") /\ UNCHANGED <<sms, wsm, saves, logout, ended, history>>
  BY DEF SaveYourselfPhase2Req
<1>3. CASE saveState.inProgress
  <2>1. ProcessSaveYourselfResponses(C)
    BY <1>3 DEF SaveYourselfPhase2Req
  <2> HIDE DEF C
  <2>2. /\ saveState' \in Save /\ app' \in [Client -> AppState] /\ Table(client')
        /\ NobodyDies \/ GoingOn
        /\ GoingOn' => GoingOn
    BY <1>1, <1>3, <2>1, ResponsesStep
  <2>3. sms' \in [Client -> SmsState]
    BY <1>2 DEF Typed
  <2> QED
    BY <1>2, <2>2, <2>3, EndKept
<1>4. CASE ~saveState.inProgress
  <2>1. Tell({c}, "SaveComplete") /\ client' = C /\ saveState' = saveState
    BY <1>4 DEF SaveYourselfPhase2Req
  <2> HIDE DEF C
  <2>2. app' \in [Client -> AppState] /\ NobodyDies
    BY <2>1, TellType DEF Typed, NobodyDies
  <2>3. /\ saveState' \in Save /\ Table(client') /\ sms' \in [Client -> SmsState]
        /\ GoingOn' => GoingOn
    BY <1>1, <1>2, <2>1 DEF Typed, GoingOn
  <2> QED
    BY <1>2, <2>2, <2>3, EndKept
<1> QED
  BY <1>3, <1>4

LEMMA DoneKept == ASSUME Inv, NEW c \in Client, SaveYourselfDone(c) PROVE Kept
<1> USE InvParts
<1> DEFINE C == [client EXCEPT ![c].saveYourselfDone = TRUE]
<1>1. Table(C)
  BY DEF Typed, Table, ClientState
<1>2. Heard(c, "done") /\ UNCHANGED <<wsm, saves, logout, ended, history>>
  BY DEF SaveYourselfDone
<1>3. sms' \in [Client -> SmsState]
  BY DEF SaveYourselfDone, Typed, SmsState, Quiet
<1>4. CASE saveState.inProgress
  <2>1. ProcessSaveYourselfResponses(C)
    BY <1>4 DEF SaveYourselfDone
  <2> HIDE DEF C
  <2>2. /\ saveState' \in Save /\ app' \in [Client -> AppState] /\ Table(client')
        /\ NobodyDies \/ GoingOn
        /\ GoingOn' => GoingOn
    BY <1>1, <1>4, <2>1, ResponsesStep
  <2> QED
    BY <1>2, <1>3, <2>2, EndKept
<1>5. CASE ~saveState.inProgress
  <2>1. Tell({c}, "SaveComplete") /\ client' = client /\ saveState' = saveState
    BY <1>5 DEF SaveYourselfDone
  <2>2. app' \in [Client -> AppState] /\ NobodyDies
    BY <2>1, TellType DEF Typed, NobodyDies
  <2>3. /\ saveState' \in Save /\ Table(client')
        /\ GoingOn' => GoingOn
    BY <2>1, TypedTable DEF Typed, GoingOn
  <2> QED
    BY <1>2, <1>3, <2>2, <2>3, EndKept
<1> QED
  BY <1>4, <1>5

(* The step of a callback about an interaction, which ends no save.         *)
LEMMA NobodyDiesKept ==
  ASSUME Inv, sms' \in [Client -> SmsState], app' \in [Client -> AppState],
         Table(client'), saveState' \in Save, ended' \in {"no", "exit", "crash"},
         NobodyDies, Rest', wish' = wish \/ saveState'.shutdownCanceled,
         GoingOn' => GoingOn
  PROVE  Kept
<1> USE InvParts
<1>1. Typed'
  BY DEF Typed, Table
<1>2. Wished'
  BY DEF Wished, GoingOn
<1> QED
  BY <1>1, <1>2 DEF Kept, DieStep, NobodyDies

LEMMA InteractRequestKept == ASSUME Inv, NEW c \in Client, InteractRequest(c) PROVE Kept
<1> USE InvParts
<1> DEFINE C == [client EXCEPT ![c].interactRequested = TRUE]
<1>1. Table(C)
  BY DEF Typed, Table, ClientState
<1>2. Heard(c, "ireq") /\ UNCHANGED <<saves, logout, history>>
  BY DEF InteractRequest
<1>3. msg' \in [Client -> {"none", "done", "p2req", "ireq", "idone", "cancel", "close"}]
  BY <1>2, HeardType
<1>4. CASE ProcessInteract(C, sms) /\ UNCHANGED <<saveState, wsm>>
  <2> HIDE DEF C
  <2>1. /\ app' \in [Client -> AppState] /\ NobodyDies
        /\ sms' \in [Client -> SmsState] /\ ended' \in {"no", "exit", "crash"}
        /\ Table(client')
    BY <1>1, <1>4, InteractStep DEF Typed
  <2>2. Rest'
    BY <1>2, <1>3, <1>4, RestStep DEF history, Rest
  <2> QED
    BY <1>2, <1>4, <2>1, <2>2, NobodyDiesKept DEF Typed, GoingOn, history
<1>5. CASE /\ wsm < MaxPending
           /\ wsm' = wsm + 1
           /\ saveState' = [saveState EXCEPT !.wsmAsked = TRUE, !.interactClient = c]
           /\ client' = C
           /\ UNCHANGED <<sms, app, ended>>
  <2>1. wsm' \in 0 .. MaxPending
    BY <1>5, Bounds DEF Rest
  <2>2. Rest'
    BY <1>2, <1>3, <2>1 DEF history, logout, Rest
  <2>3. saveState' \in Save /\ (GoingOn' => GoingOn)
    BY <1>5 DEF Typed, Save, GoingOn
  <2>4. /\ app' \in [Client -> AppState] /\ NobodyDies
        /\ sms' \in [Client -> SmsState] /\ ended' \in {"no", "exit", "crash"}
        /\ Table(client')
    BY <1>1, <1>5 DEF Typed, NobodyDies
  <2> QED
    BY <1>2, <2>2, <2>3, <2>4, NobodyDiesKept DEF history
<1>6. CASE /\ saveState' = [saveState EXCEPT !.wsmAsked = TRUE]
           /\ client' = C
           /\ SmsInteract(c)
           /\ UNCHANGED wsm
  <2>1. saveState' \in Save /\ (GoingOn' => GoingOn)
    BY <1>6 DEF Typed, Save, GoingOn
  <2>2. /\ app' \in [Client -> AppState] /\ NobodyDies
        /\ sms' \in [Client -> SmsState] /\ ended' \in {"no", "exit", "crash"}
    BY <1>6, SmsInteractStep
  <2>3. Rest'
    BY <1>2, <1>3, <1>6, RestStep DEF history, Rest
  <2> QED
    BY <1>1, <1>2, <1>6, <2>1, <2>2, <2>3, NobodyDiesKept DEF history
<1> QED
  BY <1>4, <1>5, <1>6 DEF InteractRequest

LEMMA GetWsmClientsKept == ASSUME Inv, GetWsmClients PROVE Kept
<1> USE InvParts
<1>1. wsm > 0 /\ wsm' = wsm - 1 /\ UNCHANGED <<saveState, msg, saves, logout, history>>
  BY DEF GetWsmClients
<1>2. wsm' \in 0 .. MaxPending
  BY <1>1, Bounds DEF Rest
<1>3. Rest'
  BY <1>1, <1>2 DEF Rest, logout, history
<1>4. /\ app' \in [Client -> AppState] /\ NobodyDies
      /\ sms' \in [Client -> SmsState] /\ ended' \in {"no", "exit", "crash"}
      /\ Table(client')
  <2>1. CASE ProcessInteract(client, sms)
    BY <2>1, TypedTable, InteractStep DEF Typed
  <2>2. CASE /\ client' = client /\ saveState.interactClient = NoClient
             /\ ended' = "crash" /\ UNCHANGED <<app, sms>>
    BY <2>2, TypedTable DEF Typed, NobodyDies
  <2>3. CASE /\ client' = client /\ saveState.interactClient # NoClient
             /\ SmsInteract(saveState.interactClient)
    <3>1. saveState.interactClient \in Client
      BY <2>3 DEF Typed, Save
    <3> QED
      BY <2>3, <3>1, TypedTable, SmsInteractStep
  <2> QED
    BY <2>1, <2>2, <2>3 DEF GetWsmClients
<1>5. saveState' \in Save /\ (GoingOn' => GoingOn) /\ wish' = wish
  BY <1>1 DEF Typed, GoingOn, history
<1> QED
  BY <1>3, <1>4, <1>5, NobodyDiesKept

LEMMA InteractDoneKept ==
  ASSUME Inv, NEW c \in Client, NEW cancelShutdown \in BOOLEAN,
         InteractDone(c, cancelShutdown)
  PROVE  Kept
<1> USE InvParts
<1> DEFINE C == [client EXCEPT ![c].interactRequested = FALSE]
           S == [sms EXCEPT ![c].interacting = FALSE]
<1>1. Table(C) /\ S \in [Client -> SmsState]
  <2>1. Table(client) /\ client[c] \in ClientState /\ sms \in [Client -> SmsState]
    BY DEF Typed, Table
  <2>2. /\ [client[c] EXCEPT !.interactRequested = FALSE] \in ClientState
        /\ [client[c] EXCEPT !.interactRequested = FALSE].active = client[c].active
        /\ [client[c] EXCEPT !.interactRequested = FALSE].conn = client[c].conn
    BY <2>1 DEF ClientState
  <2>3. [sms[c] EXCEPT !.interacting = FALSE] \in SmsState
    BY <2>1 DEF SmsState
  <2>4. /\ C \in [Client -> ClientState]
        /\ \A d \in Client : C[d].active = client[d].active /\ C[d].conn = client[d].conn
    BY <2>1, <2>2 DEF Table
  <2> QED
    BY <2>1, <2>3, <2>4 DEF Table
<1>2. /\ \E m : Heard(c, m)
      /\ saveState' = [saveState EXCEPT !.shutdownCanceled = @ \/ cancelShutdown]
      /\ UNCHANGED <<wsm, saves, logout, early, disturbed>>
  BY DEF InteractDone
<1>3. msg' \in [Client -> {"none", "done", "p2req", "ireq", "idone", "cancel", "close"}]
  BY <1>2, HeardType
<1>4. saveState' \in Save /\ (GoingOn' => GoingOn)
      /\ (cancelShutdown => saveState'.shutdownCanceled)
  BY <1>2 DEF Typed, Save, GoingOn
<1>5. CASE cancelShutdown /\ saveState.shutdown /\ saveState.interact
  <2>1. /\ Tell(Connected, "ShutdownCancelled")
        /\ sms' = [d \in Client |-> [S[d] EXCEPT !.cancel = FALSE]]
        /\ client' = C /\ ended' \in {ended, "crash"} /\ wish' = "cancelled"
    BY <1>5 DEF InteractDone
  <2> HIDE DEF C, S
  <2>2. app' \in [Client -> AppState] /\ NobodyDies
    BY <2>1, TellType DEF Typed, NobodyDies
  <2>3. sms' \in [Client -> SmsState]
    BY <1>1, <2>1 DEF SmsState
  <2>4. Rest'
    BY <1>2, <1>3, <2>1, RestStep DEF Rest
  <2> QED
    BY <1>1, <1>4, <1>5, <2>1, <2>2, <2>3, <2>4, NobodyDiesKept DEF Typed
<1>6. CASE ~(cancelShutdown /\ saveState.shutdown /\ saveState.interact)
  <2>1. ProcessInteract(C, S) /\ wish' = wish
    BY <1>6 DEF InteractDone
  <2> HIDE DEF C, S
  <2>2. /\ app' \in [Client -> AppState] /\ NobodyDies
        /\ sms' \in [Client -> SmsState] /\ ended' \in {"no", "exit", "crash"}
        /\ Table(client')
    BY <1>1, <2>1, InteractStep
  <2>3. Rest'
    BY <1>2, <1>3, <2>1, RestStep DEF Rest
  <2> QED
    BY <1>4, <2>1, <2>2, <2>3, NobodyDiesKept
<1> QED
  BY <1>5, <1>6

LEMMA CloseDownKept == ASSUME Inv, NEW c \in Client, CloseDownClient(c) PROVE Kept
<1> USE InvParts
<1>1. Heard(c, "close") /\ UNCHANGED <<saveState, wsm, saves, logout, wish, early>>
  BY DEF CloseDownClient
<1>2. msg' \in [Client -> {"none", "done", "p2req", "ireq", "idone", "cancel", "close"}]
  BY <1>1, HeardType
<1>3. Table(client')
  <2>1. PICK e \in ClientState :
          client' = [client EXCEPT ![c] = e] /\ ~e.active
    <3>1. client[c] \in ClientState
      BY DEF Typed
    <3>2. /\ [client[c] EXCEPT !.conn = "closed", !.active = FALSE] \in ClientState
          /\ ~[client[c] EXCEPT !.conn = "closed", !.active = FALSE].active
      BY <3>1 DEF ClientState
    <3> QED
      BY <3>2 DEF CloseDownClient
  <2> QED
    BY <2>1 DEF Typed, Table
<1>4. /\ app' \in [Client -> AppState] /\ NobodyDies
      /\ sms' \in [Client -> SmsState] /\ ended' \in {"no", "exit", "crash"}
  BY DEF CloseDownClient, Typed, AppState, SmsState, Idle, Quiet, NobodyDies
<1>5. disturbed' \in BOOLEAN
  BY DEF CloseDownClient, Rest, Typed, Save
<1>6. Rest'
  BY <1>1, <1>2, <1>5, RestStep DEF Rest
<1> QED
  BY <1>1, <1>3, <1>4, <1>6, NobodyDiesKept DEF Typed, GoingOn

LEMMA WaitEndsKept == ASSUME Inv, WaitEnds PROVE Kept
<1> USE InvParts
<1>1. Typed'
  BY DEF WaitEnds, Typed
<1>2. Rest'
  BY DEF WaitEnds, Rest, history
<1> QED
  BY <1>1, <1>2 DEF WaitEnds, Kept, Wished, GoingOn, DieStep, history

LEMMA SaveTimeoutKept == ASSUME Inv, SaveTimeout PROVE Kept
<1> USE InvParts
<1>1. Typed'
  BY DEF SaveTimeout, Typed
<1>2. timers' \in 0 .. MaxPending
  BY Bounds DEF SaveTimeout, Rest
<1>3. Rest'
  BY <1>2 DEF SaveTimeout, Rest, history
<1> QED
  BY <1>1, <1>3 DEF SaveTimeout, Kept, Wished, GoingOn, DieStep, history

LEMMA StutterKept == ASSUME Inv, UNCHANGED vars PROVE Kept
BY InvParts DEF vars, logout, history, Kept, Typed, Rest, Wished, GoingOn, DieStep

LEMMA NextKept == ASSUME Inv, [Next]_vars PROVE Kept
<1>1. ASSUME NEW c \in Client, Callback(c) PROVE Kept
  BY <1>1, RefusedKept, Phase2ReqKept, DoneKept, InteractRequestKept, CloseDownKept,
     InteractDoneKept DEF Callback
<1>2. ASSUME NEW c \in Client,
             \/ Connect(c) \/ RegisterClient(c)
             \/ Answer(c) \/ AskToInteract(c) \/ AskToSave(c) \/ Leave(c)
      PROVE  Kept
  BY <1>2, ConnectKept, RegisterKept, AnswerKept, AskToInteractKept, AskToSaveKept,
     LeaveKept
<1>3. CASE GetWsmClients \/ SaveSession \/ LogOut \/ WaitEnds \/ SaveTimeout
  BY <1>3, GetWsmClientsKept, SaveSessionKept, LogOutKept, WaitEndsKept,
     SaveTimeoutKept
<1>4. CASE UNCHANGED vars
  BY <1>4, StutterKept
<1> QED
  BY <1>1, <1>2, <1>3, <1>4 DEF Next

-----------------------------------------------------------------------------
LEMMA KeptInv == Kept => Inv' /\ DieStep
<1>1. TypeOK' <=> Typed' /\ Rest'
  BY TypeParts, PTL
<1> QED
  BY <1>1 DEF Kept, Inv

LEMMA Invariant == Spec => []Inv
<1>1. Inv /\ [Next]_vars => Inv'
  BY NextKept, KeptInv
<1> QED
  BY <1>1, InitInv, PTL DEF Spec

(* Every variable keeps its type, for any number of clients and saves.      *)
THEOREM TypeCorrect == Spec => []TypeOK
<1>1. Inv => TypeOK
  BY DEF Inv
<1> QED
  BY <1>1, Invariant, PTL

(* No client is told to die unless the shutdown it belongs to was asked for *)
(* and not cancelled: a save in progress whose flags say so is one.         *)
THEOREM NobodyDiesUnwanted == Spec => DieWanted
<1>1. Inv /\ [Next]_vars =>
        [\A c \in Client :
           app[c].at # "dying" /\ app'[c].at = "dying" => wish = "shutdown"]_vars
  BY NextKept DEF Kept, DieStep
<1> QED
  BY <1>1, Invariant, PTL DEF Spec, DieWanted

-----------------------------------------------------------------------------
(* SavedBeforeDie.  When a shutdown completes, each active client has       *)
(* saveYourselfDone; what has to be known is that the client has indeed     *)
(* nothing left to answer then, although the flag was set by a message that *)
(* does not say what it answers.                                            *)

(* A client that has not registered owes nothing; one that has left is not  *)
(* listened to; the flag is down when no save is in progress; and in a save *)
(* that began when the client had nothing to answer, there is one answer to *)
(* wait for, after which the client is idle.                                *)
Owes(c) ==
  /\ ~client[c].active =>
       /\ ~sms[c].saving
       /\ client[c].conn # "closed" =>
            /\ app[c].at = "idle" /\ msg[c] \in {"none", "close"}
            /\ ~client[c].saveYourselfDone
  /\ app[c].at = "idle" => ~app[c].again
  /\ client[c].active /\ ~saveState.inProgress => ~client[c].saveYourselfDone
  /\ client[c].active /\ saveState.inProgress /\ c \notin early =>
       /\ ~app[c].again
       /\ client[c].saveYourselfDone \/ msg[c] = "done" => app[c].at \in {"idle", "dying"}

SavedStep(c) ==
  app[c].at # "dying" /\ app'[c].at = "dying" /\ c \notin early
    => app[c].at = "idle" /\ ~app[c].again

Known == \A c \in Client : Owes(c)
KnownKept == \A c \in Client : Owes(c)' /\ SavedStep(c)

LEMMA InitKnown == Init => Known
BY DEF Init, Known, Owes, NewClientRec, Quiet, Idle, InitialSaveState

(* A message other than Die makes an idle client do nothing, and gives no   *)
(* client more to answer.                                                   *)
LEMMA ToldOwes ==
  ASSUME NEW a \in AppState, NEW m, m # "Die"
  PROVE  /\ a.at \in {"idle", "dying"} => Told(m, a) = a
         /\ ~a.again => ~Told(m, a).again
         /\ Told(m, a).at = "idle" => ~Told(m, a).again \/ Told(m, a) = a
         /\ Told(m, a).at = "dying" => a.at = "dying"
<1>1. CASE m = "SaveComplete" /\ a.at = "p2wait"
  BY <1>1 DEF Told, Answered, AppState, Idle
<1>2. CASE ~(m = "SaveComplete" /\ a.at = "p2wait")
  BY <1>2 DEF Told, AppState, Idle
<1> QED
  BY <1>1, <1>2

(* What such a message, or none, makes of a client.                         *)
ToldSomething(c) ==
  app'[c] = app[c] \/ \E m : m # "Die" /\ app'[c] = Told(m, app[c])

LEMMA TellSomething ==
  ASSUME NEW cs, NEW m, m # "Die", Tell(cs, m) PROVE \A c \in Client : ToldSomething(c)
BY DEF Tell, ToldSomething

LEMMA SomethingOwes ==
  ASSUME Inv, NEW c \in Client, ToldSomething(c)
  PROVE  /\ app[c].at \in {"idle", "dying"} => app'[c] = app[c]
         /\ ~app[c].again => ~app'[c].again
         /\ app'[c].at = "idle" => ~app'[c].again \/ app'[c] = app[c]
         /\ app'[c].at = "dying" => app[c].at = "dying"
<1>1. app[c] \in AppState
  BY InvParts DEF Typed
<1>2. CASE app'[c] = app[c]
  BY <1>2
<1>3. CASE \E m : m # "Die" /\ app'[c] = Told(m, app[c])
  BY <1>1, <1>3, ToldOwes
<1> QED
  BY <1>2, <1>3 DEF ToldSomething

(* A step that changes nothing of what Owes speaks of but what the client   *)
(* was told.                                                                *)
LEMMA PlainStep ==
  ASSUME Inv, NEW c \in Client, Owes(c), ToldSomething(c),
         saveState'.inProgress = saveState.inProgress, early' = early,
         client'[c].active = client[c].active, client'[c].conn = client[c].conn,
         client'[c].saveYourselfDone = client[c].saveYourselfDone,
         sms'[c].saving = sms[c].saving,
         msg'[c] \in {msg[c], "none"}
  PROVE  Owes(c)' /\ SavedStep(c)
BY SomethingOwes DEF Owes, SavedStep

LEMMA HeardMsg ==
  ASSUME Inv, NEW c \in Client, NEW m, Heard(c, m), NEW d \in Client
  PROVE  msg'[d] \in {msg[d], "none"}
BY InvParts DEF Heard, Rest

(* The end of a save, or the next phase, after client c was heard.  C is    *)
(* the table with its answer in it.                                         *)
LEMMA ResponsesKnown ==
  ASSUME Inv, Known, saveState.inProgress, early' = early,
         NEW c \in Client, NEW m, Heard(c, m), NEW C,
         ProcessSaveYourselfResponses(C),
         \A d \in Client :
           /\ C[d].active = client[d].active /\ C[d].conn = client[d].conn
           /\ C[d].saveYourselfDone =>
                client[d].saveYourselfDone \/ (d = c /\ m = "done" /\ client[d].active)
           /\ sms'[d].saving => sms[d].saving,
         C \in [Client -> ClientState]
  PROVE  KnownKept
<1>1. \A d \in Client : msg'[d] \in {msg[d], "none"}
  BY HeardMsg
<1>2. \A d \in Client :
        client[d].active /\ d \notin early =>
          ~app[d].again /\ (C[d].saveYourselfDone => app[d].at \in {"idle", "dying"})
  BY DEF Known, Owes, Heard
<1>3. ASSUME client' = Cleared(C), ~saveState'.inProgress,
             \A d \in Client : ToldSomething(d), NEW d \in Client
      PROVE  Owes(d)' /\ SavedStep(d)
  <2>1. /\ client'[d].active = client[d].active /\ client'[d].conn = client[d].conn
        /\ client[d].active => ~client'[d].saveYourselfDone
        /\ ~client[d].active => client'[d] = C[d]
    BY <1>3 DEF Cleared, ClientState
  <2> QED
    BY <1>1, <1>3, <2>1, SomethingOwes DEF Known, Owes, SavedStep
<1>4. ASSUME client' = C, saveState'.inProgress,
             \A d \in Client : ToldSomething(d), NEW d \in Client
      PROVE  Owes(d)' /\ SavedStep(d)
  BY <1>1, <1>2, <1>4, SomethingOwes DEF Known, Owes, SavedStep, Heard
<1>5. CASE Undone(C) = {} /\ saveState.shutdownCanceled
  <2>1. client' = Cleared(C) /\ saveState' = InitialSaveState(TRUE) /\ app' = app
    BY <1>5 DEF ProcessSaveYourselfResponses, CancelShutdown
  <2> QED
    BY <1>3, <2>1 DEF KnownKept, InitialSaveState, ToldSomething
<1>6. CASE Undone(C) = {} /\ ~saveState.shutdownCanceled /\ ~saveState.shutdown
  <2>1. /\ Tell(Active, "SaveComplete") /\ client' = Cleared(C)
        /\ saveState' = InitialSaveState(saveState.shutdownCanceled)
    BY <1>6 DEF ProcessSaveYourselfResponses, CompleteXSMPSave
  <2> QED
    BY <1>3, <2>1, TellSomething DEF KnownKept, InitialSaveState
<1>7. CASE Undone(C) = {} /\ ~saveState.shutdownCanceled /\ saveState.shutdown
  <2>1. /\ Tell(Active, "Die") /\ client' = C
        /\ saveState' = [saveState EXCEPT !.saveComplete = TRUE]
    BY <1>7 DEF ProcessSaveYourselfResponses, CompleteXSMPSave
  <2>2. saveState'.inProgress
    BY <2>1, InvParts DEF Typed, Save
  <2>3. \A d \in Client : app'[d] = IF client[d].active THEN [Idle EXCEPT !.at = "dying"]
                                                       ELSE app[d]
    BY <2>1 DEF Tell, Told, Active
  <2>4. \A d \in Client : client[d].active => C[d].saveYourselfDone
    BY <1>7 DEF Undone, Active
  <2>5. [Idle EXCEPT !.at = "dying"].at = "dying" /\ ~[Idle EXCEPT !.at = "dying"].again
    BY DEF Idle
  <2>6. ASSUME NEW d \in Client PROVE Owes(d)' /\ SavedStep(d)
    <3>1. CASE client[d].active
      <4>1. client'[d].active /\ app'[d].at = "dying" /\ ~app'[d].again
        BY <2>1, <2>3, <2>5, <3>1
      <4>2. Owes(d)'
        BY <2>2, <4>1 DEF Owes
      <4>3. d \notin early => app[d].at \in {"idle", "dying"} /\ ~app[d].again
        BY <1>2, <2>4, <3>1
      <4> QED
        BY <4>2, <4>3 DEF SavedStep
    <3>2. CASE ~client[d].active
      <4>1. app'[d] = app[d]
        BY <2>3, <3>2
      <4> QED
        BY <1>1, <2>1, <3>2, <4>1 DEF Known, Owes, SavedStep
    <3> QED
      BY <3>1, <3>2
  <2> QED
    BY <2>6 DEF KnownKept
<1>8. CASE Undone(C) # {}
  <2>1. /\ client' = C /\ saveState' = saveState
        /\ Tell(Undone(C), "SaveYourselfPhase2") \/ app' = app
    BY <1>8 DEF ProcessSaveYourselfResponses
  <2> QED
    BY <1>4, <2>1, TellSomething DEF KnownKept, ToldSomething
<1> QED
  BY <1>5, <1>6, <1>7, <1>8

LEMMA ConnectKnown == ASSUME Inv, Known, NEW c \in Client, Connect(c) PROVE KnownKept
<1>1. ASSUME NEW d \in Client PROVE Owes(d)' /\ SavedStep(d)
  BY InvParts DEF Connect, Typed, ClientState, Known, Owes, SavedStep, history
<1> QED
  BY <1>1 DEF KnownKept

LEMMA RegisterKnown ==
  ASSUME Inv, Known, NEW c \in Client, RegisterClient(c) PROVE KnownKept
<1>1. /\ client[c].conn = "open" /\ ~client[c].active /\ msg[c] # "close"
      /\ client' = [client EXCEPT ![c].active = TRUE]
      /\ app' = [app EXCEPT ![c] = ToldToSave(@, FALSE)]
      /\ sms' = [sms EXCEPT ![c] = SmsToldToSave(@, FALSE, FALSE)]
      /\ UNCHANGED <<saveState, msg, early>>
  BY DEF RegisterClient
<1>2. app[c].at = "idle" /\ msg[c] = "none" /\ ~client[c].saveYourselfDone
  BY <1>1 DEF Known, Owes
<1>3. app'[c].at = "saving" /\ ~app'[c].again
  BY <1>1, <1>2, InvParts DEF Typed, ToldToSave
<1>4. client'[c].active /\ ~client'[c].saveYourselfDone
  BY <1>1, <1>2, InvParts DEF Typed, ClientState
<1>5. Owes(c)' /\ SavedStep(c)
  BY <1>1, <1>2, <1>3, <1>4 DEF Owes, SavedStep
<1>6. ASSUME NEW d \in Client, d # c PROVE Owes(d)' /\ SavedStep(d)
  BY <1>1, <1>6, InvParts DEF Typed, Known, Owes, SavedStep
<1> QED
  BY <1>5, <1>6 DEF KnownKept

(* A client sends an answer when it has one to give, which it has not while *)
(* it is idle or has not registered.                                        *)
LEMMA SendKnown ==
  ASSUME Inv, Known, NEW c \in Client, NEW m, NEW at, Send(c, m, at),
         \/ /\ m = "close" /\ at = app[c].at
         \/ /\ app[c].at \in {"saving", "phase2", "interacting"}
            /\ at \in {"idle", "saving", "p2wait", "iwait"}
            /\ m = "done" => at = "idle"
  PROVE  KnownKept
<1>1. /\ client[c].conn = "open" /\ msg[c] = "none"
      /\ msg' = [msg EXCEPT ![c] = m]
      /\ app' = [app EXCEPT ![c] =
                   IF at = "idle" THEN Answered(@)
                   ELSE [@ EXCEPT !.at = at, !.interact = @ /\ m \notin {"ireq", "p2req"}]]
      /\ UNCHANGED <<saveState, client, sms, early>>
  BY DEF Send, history
<1>2. app[c] \in AppState /\ app \in [Client -> AppState]
      /\ msg \in [Client -> {"none", "done", "p2req", "ireq", "idone", "cancel", "close"}]
  BY InvParts DEF Typed, Rest
<1>3. msg'[c] = m
  BY <1>1, <1>2
<1>4. CASE at = "idle"
  <2>1. app'[c] = Answered(app[c])
    BY <1>1, <1>2, <1>4
  <2>2. /\ ~app'[c].again /\ app'[c].at \in {"idle", "saving"}
        /\ ~app[c].again => app'[c].at = "idle"
    BY <1>2, <2>1 DEF Answered, Idle, AppState
  <2> QED
    BY <1>1, <1>3, <1>4, <2>2 DEF Known, Owes, SavedStep, KnownKept
<1>5. CASE at # "idle"
  <2>1. app'[c].at = at /\ app'[c].again = app[c].again
    BY <1>1, <1>2, <1>5 DEF AppState
  <2>2. Owes(c)' /\ SavedStep(c)
    BY <1>1, <1>3, <1>5, <2>1 DEF Known, Owes, SavedStep
  <2>3. ASSUME NEW d \in Client, d # c PROVE Owes(d)' /\ SavedStep(d)
    BY <1>1, <1>2, <2>3 DEF Known, Owes, SavedStep
  <2> QED
    BY <2>2, <2>3 DEF KnownKept
<1> QED
  BY <1>4, <1>5

LEMMA ClientKnown ==
  ASSUME Inv, Known, NEW c \in Client, Answer(c) \/ AskToInteract(c) \/ Leave(c)
  PROVE  KnownKept
<1>1. \/ app[c].at \in {"saving", "phase2"} /\ Send(c, "done", "idle")
      \/ app[c].at = "saving" /\ Send(c, "p2req", "p2wait")
      \/ app[c].at = "interacting" /\ Send(c, "idone", "saving")
      \/ app[c].at = "interacting" /\ Send(c, "cancel", "saving")
      \/ app[c].at = "dying" /\ Send(c, "close", "dying")
      \/ app[c].at = "saving" /\ Send(c, "ireq", "iwait")
      \/ Send(c, "close", app[c].at)
  BY DEF Answer, AskToInteract, Leave
<1>2. CASE app[c].at \in {"saving", "phase2"} /\ Send(c, "done", "idle")
  BY <1>2, SendKnown
<1>3. CASE app[c].at = "saving" /\ (Send(c, "p2req", "p2wait") \/ Send(c, "ireq", "iwait"))
  BY <1>3, SendKnown
<1>4. CASE app[c].at = "interacting" /\ (Send(c, "idone", "saving") \/ Send(c, "cancel", "saving"))
  BY <1>4, SendKnown
<1>5. CASE Send(c, "close", app[c].at)
  BY <1>5, SendKnown
<1> QED
  BY <1>1, <1>2, <1>3, <1>4, <1>5

LEMMA SaveYourselfReqKnown ==
  ASSUME Inv, Known, NEW shutdown \in BOOLEAN, NEW interact \in BOOLEAN,
         SaveYourselfReq(shutdown, interact), client' = client, msg' = msg
  PROVE  KnownKept
<1>1. CASE saveState.inProgress
  <2>1. UNCHANGED <<saveState, app, sms, early>>
    BY <1>1 DEF SaveYourselfReq
  <2> QED
    BY <2>1 DEF Known, KnownKept, Owes, SavedStep
<1>2. CASE ~saveState.inProgress
  <2> DEFINE told == [d \in Client |-> IF d \in Active THEN ToldToSave(app[d], interact)
                                                      ELSE app[d]]
  <2>1. /\ saveState' = [saveState EXCEPT !.inProgress = TRUE, !.shutdown = shutdown,
                           !.shutdownCanceled = FALSE, !.interact = interact]
        /\ sms' = [d \in Client |->
                     IF d \in Active THEN SmsToldToSave(sms[d], shutdown, interact)
                                     ELSE sms[d]]
        /\ early' = {d \in Active : app[d].at # "idle" \/ msg[d] \in {"done", "p2req"}}
        /\ \/ app' = told
           \/ \E last \in Active :
                app' = [told EXCEPT ![last] = Told("SaveYourselfPhase2", @)]
    BY <1>2 DEF SaveYourselfReq
  <2>2. saveState'.inProgress
    BY <2>1, InvParts DEF Typed, Save
  <2>3. told \in [Client -> AppState]
    BY InvParts, ToldToSaveType DEF Typed
  <2>4. ASSUME NEW d \in Client
        PROVE  app'[d] = told[d] \/ (d \in Active /\ app'[d] = Told("SaveYourselfPhase2", told[d]))
    <3> HIDE DEF told
    <3> QED
      BY <2>1, <2>3
  <2>5. ASSUME NEW d \in Client, d \notin Active PROVE Owes(d)' /\ SavedStep(d)
    <3>1. app'[d] = app[d] /\ sms'[d] = sms[d] /\ ~client[d].active
      BY <2>1, <2>4, <2>5 DEF Active
    <3> QED
      BY <3>1 DEF Known, Owes, SavedStep
  <2>6. ASSUME NEW d \in Client, d \in Active PROVE Owes(d)' /\ SavedStep(d)
    <3>1. client[d].active /\ ~client[d].saveYourselfDone
      BY <1>2, <2>6 DEF Known, Owes, Active
    <3>2. app[d] \in AppState /\ told[d] \in AppState
      BY <2>3, InvParts DEF Typed
    <3>3. /\ app[d].at = "idle" => told[d].at = "saving" /\ ~told[d].again
          /\ told[d].at # "idle"
          /\ told[d].at = "dying" => app[d].at = "dying"
      BY <2>6, <3>2 DEF ToldToSave, AppState
    <3>4. /\ app[d].at = "idle" => app'[d].at = "saving" /\ ~app'[d].again
          /\ app'[d].at # "idle"
          /\ app'[d].at = "dying" => app[d].at = "dying"
      <4> HIDE DEF told
      <4>1. CASE app'[d] = told[d]
        BY <4>1, <3>3
      <4>2. CASE app'[d] = Told("SaveYourselfPhase2", told[d])
        <5>1. \/ told[d].at = "p2wait" /\ app'[d] = [told[d] EXCEPT !.at = "phase2"]
              \/ told[d].at # "p2wait" /\ app'[d] = told[d]
          BY <4>2 DEF Told
        <5> QED
          BY <5>1, <3>2, <3>3 DEF AppState
      <4> QED
        BY <2>4, <4>1, <4>2
    <3>5. d \notin early' => app[d].at = "idle" /\ msg[d] # "done"
      BY <2>1, <2>6
    <3> QED
      BY <2>2, <3>1, <3>4, <3>5 DEF Owes, SavedStep
  <2> QED
    BY <2>5, <2>6 DEF KnownKept
<1> QED
  BY <1>1, <1>2

LEMMA AskToSaveKnown ==
  ASSUME Inv, Known, NEW c \in Client, AskToSave(c) PROVE KnownKept
<1>1. client[c].active /\ app[c].at = "idle" /\ client' = client /\ msg' = msg
  BY DEF AskToSave
<1>2. PICK shutdown \in BOOLEAN :
        \/ /\ ~saveState.inProgress
           /\ app' = [app EXCEPT ![c] = ToldToSave(@, TRUE)]
           /\ sms' = [sms EXCEPT ![c] = SmsToldToSave(@, shutdown, TRUE)]
           /\ UNCHANGED <<saveState, history>>
        \/ SaveYourselfReq(shutdown, TRUE)
  BY DEF AskToSave
<1>3. CASE /\ ~saveState.inProgress
           /\ app' = [app EXCEPT ![c] = ToldToSave(@, TRUE)]
           /\ sms' = [sms EXCEPT ![c] = SmsToldToSave(@, shutdown, TRUE)]
           /\ UNCHANGED <<saveState, history>>
  <2>1. app'[c].at = "saving"
    BY <1>1, <1>3, InvParts DEF Typed, ToldToSave
  <2>2. Owes(c)' /\ SavedStep(c)
    BY <1>1, <1>3, <2>1 DEF Known, Owes, SavedStep
  <2>3. ASSUME NEW d \in Client, d # c PROVE Owes(d)' /\ SavedStep(d)
    BY <1>1, <1>3, <2>3, InvParts DEF Typed, Known, Owes, SavedStep, history
  <2> QED
    BY <2>2, <2>3 DEF KnownKept
<1>4. CASE SaveYourselfReq(shutdown, TRUE)
  BY <1>1, <1>4, SaveYourselfReqKnown
<1> QED
  BY <1>2, <1>3, <1>4

LEMMA SessionKnown == ASSUME Inv, Known, SaveSession \/ LogOut PROVE KnownKept
BY SaveYourselfReqKnown DEF SaveSession, LogOut

(* The callbacks that end no save.                                          *)
LEMMA PlainKnown ==
  ASSUME Inv, Known, saveState'.inProgress = saveState.inProgress, early' = early,
         \A d \in Client :
           /\ ToldSomething(d)
           /\ client'[d].active = client[d].active /\ client'[d].conn = client[d].conn
           /\ client'[d].saveYourselfDone = client[d].saveYourselfDone
           /\ sms'[d].saving = sms[d].saving
           /\ msg'[d] \in {msg[d], "none"}
  PROVE  KnownKept
BY PlainStep DEF Known, KnownKept

LEMMA QuietKnown ==
  ASSUME Inv, Known, UNCHANGED <<saveState, client, sms, app, early>>,
         \A d \in Client : msg'[d] \in {msg[d], "none"}
  PROVE  KnownKept
BY PlainKnown DEF ToldSomething

LEMMA RefusedKnown == ASSUME Inv, Known, NEW c \in Client, Refused(c) PROVE KnownKept
<1>1. \E m : Heard(c, m)
  BY DEF Refused
<1>2. \A d \in Client : msg'[d] \in {msg[d], "none"}
  BY <1>1, HeardMsg
<1> QED
  BY <1>2, QuietKnown DEF Refused, history

LEMMA Phase2ReqKnown ==
  ASSUME Inv, Known, NEW c \in Client, SaveYourselfPhase2Req(c) PROVE KnownKept
<1> DEFINE C == [client EXCEPT ![c].saveYourselfP2Requested = TRUE]
<1>1. Heard(c, "p2req") /\ UNCHANGED <<sms, early>>
  BY DEF SaveYourselfPhase2Req, history
<1>2. /\ C \in [Client -> ClientState]
      /\ \A d \in Client :
           /\ C[d].active = client[d].active /\ C[d].conn = client[d].conn
           /\ C[d].saveYourselfDone = client[d].saveYourselfDone
  BY InvParts DEF Typed, ClientState
<1>3. CASE saveState.inProgress
  <2>1. ProcessSaveYourselfResponses(C)
    BY <1>3 DEF SaveYourselfPhase2Req
  <2> HIDE DEF C
  <2> QED
    BY <1>1, <1>2, <1>3, <2>1, ResponsesKnown
<1>4. CASE ~saveState.inProgress
  <2>1. Tell({c}, "SaveComplete") /\ client' = C /\ saveState' = saveState
    BY <1>4 DEF SaveYourselfPhase2Req
  <2>2. \A d \in Client : ToldSomething(d) /\ msg'[d] \in {msg[d], "none"}
    BY <1>1, <2>1, TellSomething, HeardMsg
  <2> HIDE DEF C
  <2> QED
    BY <1>1, <1>2, <2>1, <2>2, PlainKnown
<1> QED
  BY <1>3, <1>4

LEMMA DoneKnown ==
  ASSUME Inv, Known, NEW c \in Client, SaveYourselfDone(c) PROVE KnownKept
<1> DEFINE C == [client EXCEPT ![c].saveYourselfDone = TRUE]
<1>1. /\ Heard(c, "done") /\ sms[c].saving /\ early' = early
      /\ sms' = [sms EXCEPT ![c] = [Quiet EXCEPT !.interacting = @]]
  BY DEF SaveYourselfDone, history
<1>2. client[c].active
  BY <1>1 DEF Known, Owes
<1>3. /\ C \in [Client -> ClientState]
      /\ \A d \in Client :
           /\ C[d].active = client[d].active /\ C[d].conn = client[d].conn
           /\ C[d].saveYourselfDone => client[d].saveYourselfDone \/ d = c
  BY InvParts DEF Typed, ClientState
<1>4. \A d \in Client : sms'[d].saving => sms[d].saving
  BY <1>1, InvParts DEF Typed, Quiet
<1>5. CASE saveState.inProgress
  <2>1. ProcessSaveYourselfResponses(C)
    BY <1>5 DEF SaveYourselfDone
  <2> HIDE DEF C
  <2> QED
    BY <1>1, <1>2, <1>3, <1>4, <1>5, <2>1, ResponsesKnown
<1>6. CASE ~saveState.inProgress
  <2>1. Tell({c}, "SaveComplete") /\ client' = client /\ saveState' = saveState
    BY <1>6 DEF SaveYourselfDone
  <2>2. \A d \in Client : ToldSomething(d) /\ msg'[d] \in {msg[d], "none"}
    BY <1>1, <2>1, TellSomething, HeardMsg
  <2> QED
    BY <1>1, <1>4, <1>6, <2>1, <2>2, SomethingOwes DEF Known, KnownKept, Owes, SavedStep
<1> QED
  BY <1>5, <1>6

(* Interactions: nobody's answer changes.                                   *)
LEMMA InteractSomething ==
  ASSUME Inv, NEW C, NEW S \in [Client -> SmsState], ProcessInteract(C, S)
  PROVE  /\ client' = C
         /\ \A d \in Client : ToldSomething(d) /\ sms'[d].saving = S[d].saving
<1>1. client' = C
  BY DEF ProcessInteract
<1>2. CASE sms' = S /\ app' = app
  BY <1>1, <1>2 DEF ToldSomething
<1>3. CASE \E c \in Client : Tell({c}, "Interact") /\ sms' = [S EXCEPT ![c].interacting = TRUE]
  <2>1. PICK c \in Client : Tell({c}, "Interact") /\ sms' = [S EXCEPT ![c].interacting = TRUE]
    BY <1>3
  <2>2. \A d \in Client : ToldSomething(d)
    BY <2>1, TellSomething
  <2>3. \A d \in Client : sms'[d].saving = S[d].saving
    BY <2>1 DEF SmsState
  <2> QED
    BY <1>1, <2>2, <2>3
<1> QED
  BY <1>2, <1>3 DEF ProcessInteract, Connected

LEMMA SmsInteractSomething ==
  ASSUME Inv, NEW c \in Client, SmsInteract(c)
  PROVE  \A d \in Client : ToldSomething(d) /\ sms'[d].saving = sms[d].saving
<1>1. CASE sms' = sms /\ app' = app
  BY <1>1 DEF ToldSomething
<1>2. CASE Tell({c}, "Interact") /\ sms' = [sms EXCEPT ![c].interacting = TRUE]
  <2>1. \A d \in Client : ToldSomething(d)
    BY <1>2, TellSomething
  <2>2. \A d \in Client : sms'[d].saving = sms[d].saving
    BY <1>2, InvParts DEF Typed, SmsState
  <2> QED
    BY <2>1, <2>2
<1> QED
  BY <1>1, <1>2 DEF SmsInteract

LEMMA InteractRequestKnown ==
  ASSUME Inv, Known, NEW c \in Client, InteractRequest(c) PROVE KnownKept
<1> DEFINE C == [client EXCEPT ![c].interactRequested = TRUE]
<1>1. Heard(c, "ireq") /\ early' = early
  BY DEF InteractRequest, history
<1>2. /\ client' = C
      /\ \A d \in Client : ToldSomething(d) /\ sms'[d].saving = sms[d].saving
      /\ saveState'.inProgress = saveState.inProgress
  <2>1. CASE ProcessInteract(C, sms) /\ UNCHANGED saveState
    <3> HIDE DEF C
    <3> QED
      BY <2>1, InteractSomething, InvParts DEF Typed
  <2>2. CASE /\ saveState' = [saveState EXCEPT !.wsmAsked = TRUE, !.interactClient = c]
             /\ client' = C /\ UNCHANGED <<sms, app>>
    BY <2>2, InvParts DEF Typed, Save, ToldSomething
  <2>3. CASE /\ saveState' = [saveState EXCEPT !.wsmAsked = TRUE]
             /\ client' = C /\ SmsInteract(c)
    <3> HIDE DEF C
    <3> QED
      BY <2>3, SmsInteractSomething, InvParts DEF Typed, Save
  <2> QED
    BY <2>1, <2>2, <2>3 DEF InteractRequest
<1>3. \A d \in Client :
        /\ C[d].active = client[d].active /\ C[d].conn = client[d].conn
        /\ C[d].saveYourselfDone = client[d].saveYourselfDone
  BY InvParts DEF Typed, ClientState
<1>4. \A d \in Client : msg'[d] \in {msg[d], "none"}
  BY <1>1, HeardMsg
<1> HIDE DEF C
<1> QED
  BY <1>1, <1>2, <1>3, <1>4, PlainKnown

LEMMA GetWsmClientsKnown == ASSUME Inv, Known, GetWsmClients PROVE KnownKept
<1>1. UNCHANGED <<saveState, msg, early>>
  BY DEF GetWsmClients, history
<1>2. /\ client' = client
      /\ \A d \in Client : ToldSomething(d) /\ sms'[d].saving = sms[d].saving
  <2>1. CASE ProcessInteract(client, sms)
    BY <2>1, InteractSomething, InvParts DEF Typed
  <2>2. CASE client' = client /\ UNCHANGED <<app, sms>>
    BY <2>2 DEF ToldSomething
  <2>3. CASE /\ client' = client /\ saveState.interactClient # NoClient
             /\ SmsInteract(saveState.interactClient)
    <3>1. saveState.interactClient \in Client
      BY <2>3, InvParts DEF Typed, Save
    <3> QED
      BY <2>3, <3>1, SmsInteractSomething
  <2> QED
    BY <2>1, <2>2, <2>3 DEF GetWsmClients
<1> QED
  BY <1>1, <1>2, PlainKnown

LEMMA InteractDoneKnown ==
  ASSUME Inv, Known, NEW c \in Client, NEW cancelShutdown \in BOOLEAN,
         InteractDone(c, cancelShutdown)
  PROVE  KnownKept
<1> DEFINE C == [client EXCEPT ![c].interactRequested = FALSE]
           S == [sms EXCEPT ![c].interacting = FALSE]
<1>1. /\ \E m : Heard(c, m)
      /\ saveState' = [saveState EXCEPT !.shutdownCanceled = @ \/ cancelShutdown]
      /\ early' = early
  BY DEF InteractDone
<1>2. saveState'.inProgress = saveState.inProgress
  BY <1>1, InvParts DEF Typed, Save
<1>3. \A d \in Client :
        /\ C[d].active = client[d].active /\ C[d].conn = client[d].conn
        /\ C[d].saveYourselfDone = client[d].saveYourselfDone
        /\ S[d].saving = sms[d].saving
  BY InvParts DEF Typed, ClientState, SmsState
<1>4. S \in [Client -> SmsState]
  BY InvParts DEF Typed, SmsState
<1>5. /\ client' = C
      /\ \A d \in Client : ToldSomething(d) /\ sms'[d].saving = S[d].saving
  <2>1. CASE cancelShutdown /\ saveState.shutdown /\ saveState.interact
    <3>1. /\ Tell(Connected, "ShutdownCancelled") /\ client' = C
          /\ sms' = [d \in Client |-> [S[d] EXCEPT !.cancel = FALSE]]
      BY <2>1 DEF InteractDone
    <3> HIDE DEF C, S
    <3>2. \A d \in Client : ToldSomething(d)
      BY <3>1, TellSomething
    <3> QED
      BY <1>4, <3>1, <3>2 DEF SmsState
  <2>2. CASE ~(cancelShutdown /\ saveState.shutdown /\ saveState.interact)
    <3>1. ProcessInteract(C, S)
      BY <2>2 DEF InteractDone
    <3> HIDE DEF C, S
    <3> QED
      BY <1>4, <3>1, InteractSomething
  <2> QED
    BY <2>1, <2>2
<1>6. \A d \in Client : msg'[d] \in {msg[d], "none"}
  BY <1>1, HeardMsg
<1> HIDE DEF C, S
<1> QED
  BY <1>1, <1>2, <1>3, <1>5, <1>6, PlainKnown

LEMMA CloseDownKnown ==
  ASSUME Inv, Known, NEW c \in Client, CloseDownClient(c) PROVE KnownKept
<1>1. /\ client' = [client EXCEPT ![c].conn = "closed", ![c].active = FALSE]
      /\ sms' = [sms EXCEPT ![c] = Quiet] /\ app' = [app EXCEPT ![c] = Idle]
      /\ UNCHANGED <<saveState, early>>
  BY DEF CloseDownClient
<1>2. \A d \in Client : msg'[d] \in {msg[d], "none"}
  BY HeardMsg DEF CloseDownClient
<1>3. /\ client'[c].conn = "closed" /\ ~client'[c].active
      /\ ~sms'[c].saving /\ app'[c].at = "idle" /\ ~app'[c].again
  BY <1>1, InvParts DEF Typed, ClientState, Quiet, Idle
<1>4. Owes(c)' /\ SavedStep(c)
  BY <1>3 DEF Owes, SavedStep
<1>5. ASSUME NEW d \in Client, d # c PROVE Owes(d)' /\ SavedStep(d)
  BY <1>1, <1>2, <1>5, InvParts DEF Typed, Known, Owes, SavedStep
<1> QED
  BY <1>4, <1>5 DEF KnownKept

LEMMA NextKnown == ASSUME Inv, Known, [Next]_vars PROVE KnownKept
<1>1. ASSUME NEW c \in Client, Callback(c) PROVE KnownKept
  BY <1>1, RefusedKnown, Phase2ReqKnown, DoneKnown, InteractRequestKnown,
     CloseDownKnown, InteractDoneKnown DEF Callback
<1>2. ASSUME NEW c \in Client,
             \/ Connect(c) \/ RegisterClient(c)
             \/ Answer(c) \/ AskToInteract(c) \/ AskToSave(c) \/ Leave(c)
      PROVE  KnownKept
  BY <1>2, ConnectKnown, RegisterKnown, ClientKnown, AskToSaveKnown
<1>3. CASE GetWsmClients \/ SaveSession \/ LogOut
  BY <1>3, GetWsmClientsKnown, SessionKnown
<1>4. CASE WaitEnds \/ SaveTimeout \/ UNCHANGED vars
  BY <1>4, QuietKnown DEF WaitEnds, SaveTimeout, vars, history
<1> QED
  BY <1>1, <1>2, <1>3, <1>4 DEF Next

(* A client that is told to die has saved its state and has nothing left to *)
(* answer, whatever came between, if it had nothing to answer when the      *)
(* shutdown began.                                                          *)
THEOREM NobodyDiesUnsaved == Spec => SavedBeforeDie
<1>1. Init => Inv /\ Known
  BY InitInv, InitKnown
<1>2. Inv /\ Known /\ [Next]_vars => (Inv /\ Known)'
  BY NextKept, KeptInv, NextKnown DEF Known, KnownKept
<1>3. Inv /\ Known /\ [Next]_vars =>
        [\A c \in Client \ early :
           app[c].at # "dying" /\ app'[c].at = "dying"
             => app[c].at = "idle" /\ ~app[c].again]_vars
  BY NextKnown DEF KnownKept, SavedStep
<1> QED
  BY <1>1, <1>2, <1>3, PTL DEF Spec, SavedBeforeDie
=============================================================================
