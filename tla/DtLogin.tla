------------------------------ MODULE DtLogin ------------------------------
(****************************************************************************)
(* The login manager's daemon, src/cde/programs/dtlogin: one process that   *)
(* keeps a table of the displays named in the Xservers file, runs an X      *)
(* server for each Local one and a session process for every one, reaps     *)
(* them when they die and starts them again.  SIGHUP makes it read the file *)
(* again, SIGTERM makes it stop everything and exit.                        *)
(*                                                                          *)
(* The daemon is one thread of control that blocks at a few points (the     *)
(* values of "at"); its children die, and its signal handlers run, between  *)
(* its steps.  SIGHUP and SIGTERM are taken where it blocks: in select(),   *)
(* wait() and sleep().  Displays that ask for management by XDMCP, gettys   *)
(* and the autoRescan of a changed file are left out.                       *)
(****************************************************************************)
EXTENDS Integers, FiniteSets

CONSTANTS
  Display,        \* the displays the Xservers file may name
  Local,          \* those whose server dtlogin runs itself
  Removable,      \* those whose entry may be deleted from the file
  Children,       \* the bound on the children of one kind a display may have
  startAttempts   \* resource startAttempts

ASSUME ConstantsAssumption ==
  /\ Local \subseteq Display /\ Removable \subseteq Display
  /\ Children \in Nat \ {0} /\ startAttempts \in Nat

(* A child's number tells whose it is and what for; it is not used again    *)
(* while the table still holds it.                                          *)
Pid == (Display \X {"session"} \X (1 .. Children))
         \cup (Local \X {"server"} \X (1 .. Children))

NoPid == <<>>     \* d->pid and d->serverPid, -1, of a display that has none

VARIABLES
  displays,     \* the table: the displays dtlogin manages
  display,      \* [Display -> struct display]
  proc,         \* [Pid -> the child process with that number]
  at,           \* where the daemon is
  todo,         \* the displays ForEachDisplay(CheckDisplayStatus) has yet to visit
  opening,      \* the display whose server serverPause waits for
  after,        \* where StartDisplays returns to
  Rescan,       \* a SIGHUP is to be acted on
  ChildReady,   \* a SIGCHLD is to be acted on
  dt_shutdown,
  sockets,      \* AnyWellKnownSockets(): TRUE until SIGTERM
  missed        \* history: a child's death went unnoticed, or a fork failed

daemon == <<at, todo, opening, after, Rescan, ChildReady, dt_shutdown, sockets>>
vars == <<displays, display, proc, daemon, missed>>

-----------------------------------------------------------------------------
(* Displays and children.                                                   *)

(* "ABORTED" is the UNMANAGE with which the greeter answers SIGTERM: the    *)
(* daemon does not tell them apart.                                         *)
Code == {"OBEYSESS", "REMANAGE", "UNMANAGE", "RESERVER", "OPENFAILED",
         "SUSPEND", "ABORTED", "dead"}

(* A session process first waits for the server, then shows the greeter,    *)
(* then runs the user's client.  "leaving": a signal is about to end it;    *)
(* "dead": it has ended and is not yet waited for.                          *)
Free     == [phase |-> "none", code |-> "none"]
NewChild == [phase |-> "early", code |-> "none"]

NewDisplay == [status |-> "notRunning", pid |-> NoPid, serverPid |-> NoPid,
               state |-> "NewEntry", startTries |-> 0]

Working(c) == c.phase \in {"early", "greeter", "user"}
Alive(p) == Working(proc[p]) \/ proc[p].phase = "leaving"
Zombie(p) == proc[p].phase = "dead"

(* What ends a child by itself: a session ends with its client, with an     *)
(* X error (IOErrorHandler), or when the server does not answer a ping.     *)
ExitCodes(p) ==
  IF p[2] = "server" THEN {"dead"}
  ELSE CASE proc[p].phase = "early"   -> {"OPENFAILED", "RESERVER"}
         [] proc[p].phase = "greeter" -> {"OPENFAILED", "RESERVER", "UNMANAGE",
                                          "SUSPEND", "REMANAGE"}
         [] proc[p].phase = "user"    -> {"OBEYSESS", "RESERVER"}

(* What SIGTERM makes of it: it kills a server and a session that has set   *)
(* no handler yet; the greeter's handler abandons the display and the       *)
(* session's ends the user's client.  waitVal is WEXITSTATUS, so that a     *)
(* session killed by a signal counts as one that exited with 0, OBEYSESS:   *)
(* the cases of ProcessChildDeath for SIGTERM are never taken.              *)
TermCode(p, c) ==
  IF p[2] = "server" THEN "dead"
  ELSE CASE c.phase = "early"   -> "OBEYSESS"
         [] c.phase = "greeter" -> "ABORTED"
         [] c.phase = "user"    -> "OBEYSESS"

(* SIGHUP resets a server; a session ignores it once the client runs.       *)
HupCode(p, c) ==
  IF p[2] = "server" THEN "none"
  ELSE CASE c.phase = "early"   -> "OBEYSESS"
         [] c.phase = "greeter" -> "REMANAGE"
         [] c.phase = "user"    -> "none"

(* The signal to every process: the user's client gets it too, and its end  *)
(* ends the session.                                                        *)
HupAllCode(p, c) ==
  IF p[2] = "session" /\ c.phase = "user" THEN "OBEYSESS" ELSE HupCode(p, c)

(* How a signal ends child p, "none" if it does not.                        *)
CodeOf(signal, p, c) ==
  CASE signal = "SIGTERM"        -> TermCode(p, c)
    [] signal = "SIGHUP"         -> HupCode(p, c)
    [] signal = "SIGHUP to all"  -> HupAllCode(p, c)

(* The children after a signal is sent to those numbered ps.                *)
Signalled(procs, ps, signal) ==
  [p \in Pid |->
     IF p \in ps /\ Working(procs[p]) /\ CodeOf(signal, p, procs[p]) # "none"
     THEN [phase |-> "leaving", code |-> CodeOf(signal, p, procs[p])]
     ELSE procs[p]]

Pids(e) == {e.pid, e.serverPid} \ {NoPid}

(* fork: a number no child has and no display remembers, if there is one.   *)
Unused(d, kind) == {p \in Pid : /\ p[1] = d /\ p[2] = kind
                                /\ proc[p] = Free
                                /\ p \notin Pids(display[d])}
NewPid(d, kind) == CHOOSE p \in Unused(d, kind) : TRUE

-----------------------------------------------------------------------------
(* StopDisplay(d) for a display that stands as e, while dt_shutdown is sd.  *)
StopStatus(d, e, sd) ==
  IF e.serverPid = NoPid THEN e.status
  ELSE IF d \in Local /\ ~sd THEN "suspended" ELSE "zombie"

(* Mutant: the table does not wait for the server to end.                   *)
StopRemovesAtOnce(d, e, sd) == d \in Local \/ ~sd

StopRemoves(d, e, sd) == e.serverPid = NoPid /\ (d \in Local \/ ~sd)

(* Stop the displays ds, which stand as E[d], with the children procs.      *)
StopDisplays(ds, E, procs, sd) ==
  LET gone == {d \in ds : StopRemoves(d, E[d], sd)}
  IN  /\ displays' = displays \ gone
      /\ display' = [d \in Display |->
                       CASE d \in gone      -> NewDisplay
                         [] d \in ds \ gone -> [E[d] EXCEPT
                                                 !.status = StopStatus(d, E[d], sd)]
                         [] OTHER           -> display[d]]
      /\ proc' = Signalled(procs, UNION {Pids(E[d]) : d \in ds}, "SIGTERM")

RemoveDisplay(d) ==
  /\ displays' = displays \ {d}
  /\ display' = [display EXCEPT ![d] = NewDisplay]

(* Mutant: the display does not wait for the server told to end.            *)
RestartNow(d, e, force, procs) ==
  /\ display' = [display EXCEPT ![d] = [e EXCEPT !.status = "notRunning"]]
  /\ proc' = Signalled(procs, IF force THEN {e.serverPid} ELSE {}, "SIGTERM")
  /\ UNCHANGED displays

(* RestartDisplay(d, forceReserver), terminateServer being false.           *)
RestartDisplay(d, e, force, procs) ==
  LET phoenix == force /\ e.serverPid # NoPid
  IN  /\ display' = [display EXCEPT ![d] =
                       [e EXCEPT !.status = IF phoenix THEN "phoenix"
                                                       ELSE "notRunning"]]
      /\ proc' = Signalled(procs, IF phoenix THEN {e.serverPid} ELSE {}, "SIGTERM")
      /\ UNCHANGED displays

-----------------------------------------------------------------------------
(* ProcessChildDeath.                                                       *)

StartTries(d, e, code) ==
  CASE code \in {"OBEYSESS", "RESERVER"} -> 0
    [] code = "OPENFAILED" -> IF d \in Local THEN e.startTries ELSE e.startTries + 1
    [] OTHER               -> IF d \in Local THEN e.startTries ELSE 0

(* The exit codes after which the display is stopped, not restarted.        *)
Stops(d, e, code) ==
  \/ code \in {"UNMANAGE", "ABORTED"}
  \/ code \in {"OBEYSESS", "OPENFAILED", "RESERVER", "REMANAGE"}
     /\ e.status = "zombie"
  \/ code = "OPENFAILED" /\ e.startTries >= startAttempts
  \/ code = "SUSPEND" /\ d \in Local

SessionDied(d, code, procs) ==
  LET E == [display EXCEPT ![d].pid = NoPid,
                           ![d].startTries = StartTries(d, display[d], code)]
  IN  IF Stops(d, E[d], code)
      THEN StopDisplays({d}, E, procs, dt_shutdown)
      ELSE RestartDisplay(d, E[d], code \in {"OPENFAILED", "RESERVER"}, procs)

(* Mutant: a suspended display stays so.                                    *)
ServerDiedSuspended(d, procs) ==
  /\ IF display[d].status = "zombie" THEN RemoveDisplay(d)
     ELSE /\ display' = [display EXCEPT
               ![d].serverPid = NoPid,
               ![d].status = IF @ = "phoenix" THEN "notRunning" ELSE @]
          /\ UNCHANGED displays
  /\ proc' = Signalled(procs, IF display[d].status = "running"
                              THEN {display[d].pid} ELSE {}, "SIGTERM")

ServerDied(d, procs) ==
  /\ IF display[d].status = "zombie" THEN RemoveDisplay(d)
     ELSE /\ display' = [display EXCEPT
               ![d].serverPid = NoPid,
               ![d].status = IF @ \in {"phoenix", "suspended"} THEN "notRunning"
                                                               ELSE @]
          /\ UNCHANGED displays
  /\ proc' = Signalled(procs, IF display[d].status = "running"
                              THEN {display[d].pid} ELSE {}, "SIGTERM")

ProcessChildDeath(p) ==
  LET procs == [proc EXCEPT ![p] = Free]
  IN  \/ \E d \in displays : /\ display[d].pid = p
                             /\ SessionDied(d, proc[p].code, procs)
      \/ \E d \in displays : /\ display[d].serverPid = p
                             /\ ServerDied(d, procs)
      \/ /\ \A d \in displays : p \notin Pids(display[d])
         /\ proc' = procs
         /\ UNCHANGED <<displays, display>>
-----------------------------------------------------------------------------
(* main: the loop, and StartDisplays, which visits one display at a time.   *)

StartDisplays(table, return) ==
  /\ at' = "start" /\ todo' = table /\ after' = return

(* What the Xservers file may say when it is read.                          *)
Files == {f \in SUBSET Display : Display \ Removable \subseteq f}

Init ==
  /\ displays \in Files
  /\ display = [d \in Display |-> NewDisplay]
  /\ proc = [p \in Pid |-> Free]
  /\ at = "start" /\ todo = displays /\ after = "install"
  /\ opening = "none"
  /\ Rescan = FALSE /\ ChildReady = FALSE
  /\ dt_shutdown = FALSE /\ sockets = TRUE
  /\ missed = FALSE

(* The session process of d, whose entry stands as e, is forked.  When the  *)
(* fork fails the display stays notRunning.                                 *)
ForkSession(d, e) ==
  IF Unused(d, "session") = {}
  THEN /\ display' = [display EXCEPT ![d] = e]
       /\ missed' = TRUE
       /\ UNCHANGED proc
  ELSE /\ display' = [display EXCEPT ![d] =
            [e EXCEPT !.pid = NewPid(d, "session"), !.status = "running"]]
       /\ proc' = [proc EXCEPT ![NewPid(d, "session")] = NewChild]
       /\ UNCHANGED missed

(* A server may be opened for d: it has attempts left and fork() succeeds.  *)
(* (Mutants: CanOpenOnceMore takes one too many; StartDisplayAnyway below   *)
(* forgets the shutdown.)                                                   *)
CanOpenOnceMore(d, e) == e.startTries <= startAttempts /\ Unused(d, "server") # {}
CanOpen(d, e) == e.startTries < startAttempts /\ Unused(d, "server") # {}

(* StartDisplay(d): a display that needs a server gets one, and the daemon  *)
(* goes to serverPause, or it is removed; one that does not gets a session. *)
OpenServer(d, e) ==
  \/ /\ CanOpen(d, e)
     /\ display' = [display EXCEPT ![d] =
          [e EXCEPT !.startTries = @ + 1, !.serverPid = NewPid(d, "server")]]
     /\ proc' = [proc EXCEPT ![NewPid(d, "server")] = NewChild]
     /\ opening' = d /\ at' = "pause"
     /\ UNCHANGED <<displays, missed>>
  \/ /\ ~CanOpen(d, e)
     /\ RemoveDisplay(d)
     /\ UNCHANGED <<proc, opening, at, missed>>

StartDisplayAnyway(d, e) ==
  IF d \in Local /\ e.serverPid = NoPid THEN OpenServer(d, e)
  ELSE ForkSession(d, e) /\ UNCHANGED <<displays, opening, at>>

StartDisplay(d, e) ==
  IF dt_shutdown
  THEN RemoveDisplay(d) /\ UNCHANGED <<proc, opening, at, missed>>
  ELSE IF d \in Local /\ e.serverPid = NoPid THEN OpenServer(d, e)
  ELSE ForkSession(d, e) /\ UNCHANGED <<displays, opening, at>>

(* CheckDisplayStatus(d): an entry the file no longer has is stopped with   *)
(* dt_shutdown set, and dt_shutdown is 0 afterwards.                        *)
CheckDisplayStatus ==
  /\ at = "start"
  /\ \E d \in todo :
       /\ todo' = todo \ {d}
       /\ IF display[d].state = "MissingEntry"
          THEN /\ StopDisplays({d}, display, proc, TRUE)
               /\ dt_shutdown' = FALSE
               /\ UNCHANGED <<at, opening, missed>>
          ELSE /\ IF display[d].status = "notRunning"
                  THEN StartDisplay(d, [display[d] EXCEPT !.state = "OldEntry"])
                  ELSE /\ display' = [display EXCEPT ![d].state = "OldEntry"]
                       /\ UNCHANGED <<displays, proc, at, opening, missed>>
               /\ UNCHANGED dt_shutdown
  /\ UNCHANGED <<after, Rescan, ChildReady, sockets>>

(* serverPause ends well: the server says it is ready, or openDelay passes. *)
ServerStarted ==
  /\ at = "pause"
  /\ ForkSession(opening, display[opening])
  /\ at' = "start" /\ opening' = "none"
  /\ UNCHANGED <<displays, todo, after, Rescan, ChildReady, dt_shutdown, sockets>>

(* Its wait() returns the server: it cannot be started (serverAttempts = 1  *)
(* and no getty), and the display is removed.                               *)
ServerFailed ==
  /\ at = "pause"
  /\ Zombie(display[opening].serverPid)
  /\ proc' = [proc EXCEPT ![display[opening].serverPid] = Free]
  /\ RemoveDisplay(opening)
  /\ at' = "start" /\ opening' = "none"
  /\ UNCHANGED <<todo, after, Rescan, ChildReady, dt_shutdown, sockets,
                 missed>>

(* Its wait() returns any other child, whose death is so forgotten.         *)
OtherReaped ==
  /\ at = "pause"
  /\ \E p \in Pid \ {display[opening].serverPid} :
       Zombie(p) /\ proc' = [proc EXCEPT ![p] = Free]
  /\ missed' = TRUE
  /\ UNCHANGED <<displays, display, daemon>>

(* StartDisplays returns: SIGHUP's and SIGCHLD's handlers are installed     *)
(* after the first one, Rescan is cleared after a rescan.                   *)
StartDisplaysDone ==
  /\ at = "start" /\ todo = {}
  /\ at' = "top" /\ after' = "top"
  /\ Rescan' = (Rescan /\ after # "rescan")
  /\ UNCHANGED <<displays, display, proc, todo, opening, ChildReady,
                 dt_shutdown, sockets, missed>>

(* RescanServers: every entry is marked, every session process is sent      *)
(* SIGHUP -- kill(-1), every process there is, when a display has none --   *)
(* and the file is read.                                                    *)
RescanServers ==
  /\ at = "top" /\ Rescan /\ (sockets \/ displays # {})
  /\ LET pids == {display[d].pid : d \in displays}
     IN  proc' = IF NoPid \in pids THEN Signalled(proc, Pid, "SIGHUP to all")
                                   ELSE Signalled(proc, pids, "SIGHUP")
  /\ \E file \in Files :
       /\ displays' = displays \cup file
       /\ display' = [d \in Display |->
             IF d \notin displays THEN display[d]
             ELSE [display[d] EXCEPT !.state = IF d \in file THEN "OldEntry"
                                                         ELSE "MissingEntry"]]
       /\ StartDisplays(displays \cup file, "rescan")
  /\ UNCHANGED <<opening, Rescan, ChildReady, dt_shutdown, sockets, missed>>

(* WaitForSomething: select() while there is a socket and no child is       *)
(* known to have died; the choice is made before select() is entered.       *)
WaitForSomething ==
  /\ at = "top" /\ ~Rescan /\ (sockets \/ displays # {})
  /\ at' = IF ~sockets THEN "wait" ELSE IF ChildReady THEN "reap" ELSE "enter"
  /\ UNCHANGED <<displays, display, proc, todo, opening, after, Rescan,
                 ChildReady, dt_shutdown, sockets, missed>>

Select ==
  /\ at = "enter" /\ at' = "select"
  /\ UNCHANGED <<displays, display, proc, todo, opening, after, Rescan,
                 ChildReady, dt_shutdown, sockets, missed>>

(* main's loop ends when there is no socket and no display.                 *)
Exit ==
  /\ at = "top" /\ ~sockets /\ displays = {} /\ at' = "end"
  /\ UNCHANGED <<displays, display, proc, todo, opening, after, Rescan,
                 ChildReady, dt_shutdown, sockets, missed>>

(* select() is interrupted by a handler.                                    *)
SelectReturns ==
  /\ at = "select" /\ (ChildReady \/ Rescan \/ ~sockets)
  /\ IF ~ChildReady THEN StartDisplays(displays, "top")
     ELSE /\ at' = IF sockets THEN "reap" ELSE "wait"
          /\ UNCHANGED <<todo, after>>
  /\ UNCHANGED <<displays, display, proc, opening, Rescan, ChildReady,
                 dt_shutdown, sockets, missed>>

(* WaitForChild with a socket: waitpid(WNOHANG) until it finds no child.    *)
WaitForChildReap ==
  /\ at = "reap"
  /\ IF \E p \in Pid : Zombie(p)
     THEN /\ \E p \in Pid : Zombie(p) /\ ProcessChildDeath(p)
          /\ UNCHANGED at
     ELSE at' = "reaped" /\ UNCHANGED <<displays, display, proc>>
  /\ UNCHANGED <<todo, opening, after, Rescan, ChildReady, dt_shutdown,
                 sockets, missed>>

(* ChildReady = 0, the handler is set again, sleep(1).                      *)
WaitForChildClear ==
  /\ at = "reaped" /\ ChildReady' = FALSE /\ at' = "sleep"
  /\ UNCHANGED <<displays, display, proc, todo, opening, after, Rescan,
                 dt_shutdown, sockets, missed>>

WaitForChildDone ==
  /\ at = "sleep"
  /\ IF ChildReady THEN at' = "reap" /\ UNCHANGED <<todo, after>>
                   ELSE StartDisplays(displays, "top")
  /\ UNCHANGED <<displays, display, proc, opening, Rescan, ChildReady,
                 dt_shutdown, sockets, missed>>

(* WaitForChild without one: wait() for one child, which fails at once when *)
(* there is none.                                                           *)
WaitForChildBlock ==
  /\ at = "wait"
  /\ \/ \E p \in Pid : Zombie(p) /\ ProcessChildDeath(p)
     \/ /\ \A p \in Pid : proc[p] = Free
        /\ UNCHANGED <<displays, display, proc>>
  /\ StartDisplays(displays', "top")
  /\ UNCHANGED <<opening, Rescan, ChildReady, dt_shutdown, sockets, missed>>

-----------------------------------------------------------------------------
(* Signals to the daemon, and its surroundings.                             *)

Blocked == at \in {"select", "wait", "sleep"}

RescanNotify ==
  /\ Blocked /\ ~Rescan
  /\ Rescan' = TRUE
  /\ UNCHANGED <<displays, display, proc, at, todo, opening, after,
                 ChildReady, dt_shutdown, sockets, missed>>

StopAll ==
  /\ Blocked
  /\ sockets' = FALSE /\ dt_shutdown' = TRUE
  /\ StopDisplays(displays, display, proc, TRUE)
  /\ UNCHANGED <<at, todo, opening, after, Rescan, ChildReady, missed>>

(* A child dies, and ChildNotify runs once it is installed.  The daemon may *)
(* be about to overwrite ChildReady, or have just read it.  (No step of     *)
(* StartDisplays looks at the children: a death during it is taken at its   *)
(* end or in the pause for a server.)                                       *)
ChildDies(p) ==
  /\ Alive(p) /\ (at = "start" => todo = {})
  /\ \E code \in IF Working(proc[p]) THEN ExitCodes(p) ELSE {proc[p].code} :
       proc' = [proc EXCEPT ![p] = [phase |-> "dead", code |-> code]]
  /\ ChildReady' = (ChildReady \/ after # "install")
  /\ missed' = (missed \/ after = "install" \/ at \in {"reaped", "enter"})
  /\ UNCHANGED <<displays, display, at, todo, opening, after, Rescan,
                 dt_shutdown, sockets>>

(* A session process goes on to the greeter, then to the user's client.     *)
(* (The daemon passes the top of its loop before it looks at a new child.)  *)
SessionAdvances ==
  /\ at = "top"
  /\ \E p \in Pid : /\ p[2] = "session"
                   /\ \/ /\ proc[p].phase = "early"
                         /\ proc' = [proc EXCEPT ![p].phase = "greeter"]
                      \/ /\ proc[p].phase = "greeter"
                         /\ proc' = [proc EXCEPT ![p].phase = "user"]
  /\ UNCHANGED <<displays, display, daemon, missed>>

Daemon ==
  \/ CheckDisplayStatus \/ ServerStarted \/ ServerFailed \/ OtherReaped
  \/ StartDisplaysDone \/ RescanServers \/ WaitForSomething \/ Select \/ Exit
  \/ SelectReturns \/ WaitForChildReap \/ WaitForChildClear
  \/ WaitForChildDone \/ WaitForChildBlock

Next ==
  \/ Daemon \/ RescanNotify \/ StopAll \/ SessionAdvances
  \/ \E p \in Pid : ChildDies(p)

(* The daemon runs; a child that a signal is to end does end.               *)
Fairness ==
  /\ WF_vars(Daemon)
  /\ \A p \in Pid : SF_vars(~Working(proc[p]) /\ ChildDies(p))

Spec == Init /\ [][Next]_vars /\ Fairness
-----------------------------------------------------------------------------
(* What is to hold.                                                         *)

(* A Foreign display is tried once even if startAttempts is 0.              *)
MaxTries == IF startAttempts = 0 THEN 1 ELSE startAttempts

TypeOK ==
  /\ displays \subseteq Display
  /\ display \in [Display ->
       [status : {"notRunning", "running", "zombie", "phoenix", "suspended"},
        pid : Pid \cup {NoPid}, serverPid : Pid \cup {NoPid},
        state : {"NewEntry", "OldEntry", "MissingEntry"},
        startTries : 0 .. MaxTries]]
  /\ proc \in [Pid ->
       [phase : {"none", "early", "greeter", "user", "leaving", "dead"},
        code : Code \cup {"none"}]]
  /\ at \in {"start", "pause", "top", "enter", "select", "reap", "reaped",
             "sleep", "wait", "end"}
  /\ todo \subseteq displays
  /\ opening \in displays \cup {"none"}
  /\ after \in {"install", "rescan", "top"}
  /\ {Rescan, ChildReady, dt_shutdown, sockets, missed} \subseteq BOOLEAN

(* No server is forgotten: as long as one runs, its display is in the table *)
(* with its number, whatever becomes of the entry.  A display dropped from  *)
(* the table with its server alive would hold the screen with nobody to     *)
(* stop it, and the next server for it could not start.                     *)
NoOrphanServer ==
  \A p \in Pid : p[2] = "server" /\ Alive(p) =>
    p[1] \in displays /\ display[p[1]].serverPid = p

(* A session process nobody has told to end is the one its display has on   *)
(* record, so that there are never two on one display, and the server it    *)
(* works on has not been told to end either.                                *)
OneSession ==
  \A p \in Pid : p[2] = "session" /\ Working(proc[p]) =>
    LET e == display[p[1]]
    IN  /\ p[1] \in displays /\ e.pid = p
        /\ e.serverPid # NoPid => proc[e.serverPid].phase # "leaving"

Served(d) == display[d].pid # NoPid /\ Alive(display[d].pid)

(* "Keep a sub-daemon running for each entry": a display that stays in the  *)
(* table, its entry in the file, has a session process again and again,     *)
(* whatever its server and its sessions die of, as long as no death comes   *)
(* in the moments when it goes unnoticed.                                   *)
KeptRunning ==
  []~missed =>
    \A d \in Display :
      []<>(\/ d \notin displays \/ display[d].state = "MissingEntry"
          \/ ~sockets \/ Served(d))

(* SIGTERM "terminates all sessions in progress": after it every server and *)
(* session ends, and none is started again, if no entry is missing from the *)
(* file by then.                                                            *)
StopsAll ==
  ( /\ []~missed
    /\ [](~sockets => \A d \in displays : display[d].state # "MissingEntry") )
  => (~sockets ~> [](\A p \in Pid : ~Alive(p)))

(* "Each entry indicates a display that should constantly be managed": one  *)
(* is dropped only when its entry is gone, at shutdown, when it could not   *)
(* be started often enough, or when its server or its session has just been *)
(* found to have ended, and no signal of the daemon's had ended it.         *)
Managed ==
  [][\A d \in displays \ displays' :
       \/ display[d].state = "MissingEntry" \/ ~sockets'
       \/ display[d].startTries >= startAttempts
       \/ \E p \in Pid : /\ p[1] = d /\ Zombie(p) /\ proc'[p] = Free
                        /\ proc[p].code # "ABORTED"]_vars
=============================================================================
