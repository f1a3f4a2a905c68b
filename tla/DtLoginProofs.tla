--------------------------- MODULE DtLoginProofs ---------------------------
(****************************************************************************)
(* Theorems about DtLogin, for any displays, children and startAttempts: no *)
(* server runs that the table does not know, and no two sessions on one     *)
(* display.                                                                 *)
(*                                                                          *)
(* The functions that stop, restart and start displays work on a table in   *)
(* which a child has just been buried or a session's number forgotten, so   *)
(* that what they preserve is stated of a table E of entries, the displays  *)
(* D in it and the children P, whatever the variables hold.                 *)
(****************************************************************************)
EXTENDS DtLogin, TLAPS

Child ==
  [phase : {"none", "early", "greeter", "user", "leaving", "dead"},
   code : Code \cup {"none"}]

Entry ==
  [status : {"notRunning", "running", "zombie", "phoenix", "suspended"},
   pid : Pid \cup {NoPid}, serverPid : Pid \cup {NoPid},
   state : {"NewEntry", "OldEntry", "MissingEntry"},
   startTries : 0 .. MaxTries]

Signals == {"SIGTERM", "SIGHUP", "SIGHUP to all"}

Lives(c) == Working(c) \/ c.phase = "leaving"

(* The session on record is the display's own, and at work only while the   *)
(* display is running.                                                      *)
SessionKnown(d, e, P) ==
  e.pid # NoPid =>
    /\ e.pid[1] = d /\ e.pid[2] = "session"
    /\ e.status \in {"running", "zombie"}
    /\ Working(P[e.pid]) => e.status = "running"

(* The server on record is the display's own; one that was told to end, or  *)
(* the server of a display that a shutdown stopped, is waited for.          *)
ServerKnown(d, e, P, shutdown) ==
  e.serverPid # NoPid =>
    /\ d \in Local /\ e.serverPid[1] = d /\ e.serverPid[2] = "server"
    /\ P[e.serverPid].phase = "leaving" =>
         e.status \in {"zombie", "suspended", "phoenix"}
    /\ shutdown => e.status = "zombie"

(* A Foreign display that can have a session again has an attempt left.     *)
TriesLeft(d, e) ==
  d \notin Local /\ (e.pid # NoPid \/ e.status = "notRunning") =>
    e.startTries < MaxTries

EntryOK(d, D, e, P, shutdown) ==
  /\ d \notin D => e = NewDisplay
  /\ SessionKnown(d, e, P) /\ ServerKnown(d, e, P, shutdown) /\ TriesLeft(d, e)

ChildOK(p, D, E, P) ==
  /\ p[2] = "server" /\ Lives(P[p]) => p[1] \in D /\ E[p[1]].serverPid = p
  /\ p[2] = "session" =>
       /\ Working(P[p]) => p[1] \in D /\ E[p[1]].pid = p
       /\ P[p].phase \in {"leaving", "dead"} => P[p].code \in Code \ {"dead"}

Table(D, E, P, shutdown) ==
  /\ D \subseteq Display /\ E \in [Display -> Entry] /\ P \in [Pid -> Child]
  /\ \A d \in Display : EntryOK(d, D, E[d], P, shutdown)
  /\ \A p \in Pid : ChildOK(p, D, E, P)

(* The rest of the state; the display whose server serverPause waits for is *)
(* in the table and has not been visited.                                   *)
Position ==
  /\ at \in {"start", "pause", "top", "enter", "select", "reap", "reaped",
             "sleep", "wait", "end"}
  /\ todo \subseteq displays
  /\ at \notin {"start", "pause"} => todo = {}
  /\ opening \in displays \cup {"none"}
  /\ at = "pause" => /\ opening \in displays \ todo
                     /\ display[opening].status = "notRunning"
                     /\ display[opening].serverPid # NoPid
  /\ at # "pause" => opening = "none"
  /\ after \in {"install", "rescan", "top"}

Flags == {Rescan, ChildReady, dt_shutdown, sockets, missed} \subseteq BOOLEAN

Inductive == Table(displays, display, proc, dt_shutdown) /\ Position /\ Flags

-----------------------------------------------------------------------------
(* Numbers of children.                                                     *)

LEMMA PidParts ==
  ASSUME NEW p \in Pid
  PROVE  /\ p # NoPid /\ p[1] \in Display /\ p[2] \in {"session", "server"}
         /\ p[2] = "server" => p[1] \in Local
BY ConstantsAssumption DEF Pid, NoPid

(* fork gives a number no display of the table remembers.                   *)
LEMMA NewPidUnused ==
  ASSUME NEW d, NEW kind, Unused(d, kind) # {}
  PROVE  NewPid(d, kind) \in Unused(d, kind)
BY DEF NewPid

LEMMA TriesType == MaxTries \in Nat \ {0} /\ startAttempts \in Nat
                   /\ (startAttempts # 0 => MaxTries = startAttempts)
BY ConstantsAssumption DEF MaxTries

LEMMA NewDisplayType == NewDisplay \in Entry
BY TriesType DEF NewDisplay, Entry

LEMMA NewDisplayOK ==
  ASSUME NEW d, NEW D, NEW P, NEW sd
  PROVE  EntryOK(d, D, NewDisplay, P, sd)
BY TriesType DEF EntryOK, SessionKnown, ServerKnown, TriesLeft, NewDisplay

-----------------------------------------------------------------------------
(* Signals.                                                                 *)

(* How a signal ends a child: not a server, unless it is SIGTERM; and not   *)
(* by the death of a server, if it is a session.                            *)
LEMMA CodeOfType ==
  ASSUME NEW p \in Pid, NEW c \in Child, Working(c),
         NEW signal \in Signals
  PROVE  /\ CodeOf(signal, p, c) \in Code \cup {"none"}
         /\ p[2] = "session" => CodeOf(signal, p, c) # "dead"
         /\ signal = "SIGTERM" => CodeOf(signal, p, c) # "none"
         /\ signal # "SIGTERM" /\ p[2] = "server" => CodeOf(signal, p, c) = "none"
<1>1. p[2] \in {"session", "server"} /\ c.phase \in {"early", "greeter", "user"}
  BY PidParts DEF Working
<1>2. /\ TermCode(p, c) \in Code
      /\ p[2] = "session" => TermCode(p, c) # "dead"
      /\ TermCode(p, c) # "none"
  BY <1>1 DEF TermCode, Code
<1>3. /\ HupCode(p, c) \in Code \cup {"none"}
      /\ p[2] = "session" => HupCode(p, c) # "dead"
      /\ p[2] = "server" => HupCode(p, c) = "none"
  BY <1>1 DEF HupCode, Code
<1>4. /\ HupAllCode(p, c) \in Code \cup {"none"}
      /\ p[2] = "session" => HupAllCode(p, c) # "dead"
      /\ p[2] = "server" => HupAllCode(p, c) = "none"
  BY <1>1, <1>3 DEF HupAllCode, Code
<1>5. CASE signal = "SIGTERM"
  <2>1. CodeOf(signal, p, c) = TermCode(p, c)
    BY <1>5 DEF CodeOf
  <2> QED
    BY <1>2, <1>5, <2>1
<1>6. CASE signal = "SIGHUP"
  BY <1>3, <1>6 DEF CodeOf
<1>7. CASE signal = "SIGHUP to all"
  BY <1>4, <1>7 DEF CodeOf
<1> QED
  BY <1>5, <1>6, <1>7 DEF Signals

(* A signal makes nothing work or die that did not, and what it ends is     *)
(* leaving; SIGTERM ends whoever it is sent to.                             *)
LEMMA SignalledChild ==
  ASSUME NEW P \in [Pid -> Child], NEW ps,
         NEW signal \in Signals,
         NEW Q, Q = Signalled(P, ps, signal)
  PROVE  /\ Q \in [Pid -> Child]
         /\ \A p \in Pid :
              /\ \/ Q[p] = P[p]
                 \/ /\ p \in ps /\ Working(P[p]) /\ Q[p].phase = "leaving"
                    /\ p[2] = "session" => Q[p].code \in Code \ {"dead"}
                    /\ p[2] = "server" => signal = "SIGTERM"
              /\ signal = "SIGTERM" /\ p \in ps => ~Working(Q[p])
<1> DEFINE ended(p) == p \in ps /\ Working(P[p]) /\ CodeOf(signal, p, P[p]) # "none"
           gone(p) == [phase |-> "leaving", code |-> CodeOf(signal, p, P[p])]
<1>1. Q = [p \in Pid |-> IF ended(p) THEN gone(p) ELSE P[p]]
  BY DEF Signalled
<1>2. ASSUME NEW p \in Pid, ended(p)
      PROVE  /\ Q[p] = gone(p) /\ gone(p) \in Child
             /\ gone(p).phase = "leaving"
             /\ p[2] = "session" => gone(p).code \in Code \ {"dead"}
             /\ p[2] = "server" => signal = "SIGTERM"
             /\ ~Working(Q[p])
  <2>1. P[p] \in Child /\ Working(P[p])
    BY <1>2
  <2>2. /\ CodeOf(signal, p, P[p]) \in Code
        /\ p[2] = "session" => CodeOf(signal, p, P[p]) # "dead"
        /\ p[2] = "server" => signal = "SIGTERM"
    BY <1>2, <2>1, CodeOfType
  <2>3. Q[p] = gone(p)
    BY <1>1, <1>2
  <2>4. gone(p).phase = "leaving" /\ gone(p).code = CodeOf(signal, p, P[p])
    OBVIOUS
  <2>5. gone(p) \in Child
    BY <2>2 DEF Child
  <2>6. ~Working(Q[p])
    BY <2>3, <2>4 DEF Working
  <2> HIDE DEF ended, gone
  <2> QED
    BY <2>2, <2>3, <2>4, <2>5, <2>6
<1>3. ASSUME NEW p \in Pid, ~ended(p)
      PROVE  /\ Q[p] = P[p] /\ P[p] \in Child
             /\ signal = "SIGTERM" /\ p \in ps => ~Working(P[p])
  <2>1. signal = "SIGTERM" /\ p \in ps => ~Working(P[p])
    BY <1>3, CodeOfType
  <2> QED
    BY <1>1, <1>3, <2>1
<1>4. \A p \in Pid : Q[p] \in Child
  BY <1>2, <1>3
<1>5. Q \in [Pid -> Child]
  <2> HIDE DEF ended, gone
  <2> QED
    BY <1>1, <1>4
<1> HIDE DEF gone
<1>6. ASSUME NEW p \in Pid
      PROVE  /\ \/ Q[p] = P[p]
                \/ /\ p \in ps /\ Working(P[p]) /\ Q[p].phase = "leaving"
                   /\ p[2] = "session" => Q[p].code \in Code \ {"dead"}
                   /\ p[2] = "server" => signal = "SIGTERM"
             /\ signal = "SIGTERM" /\ p \in ps => ~Working(Q[p])
  <2>1. CASE ended(p)
    <3>1. p \in ps /\ Working(P[p])
      BY <2>1
    <3> HIDE DEF ended
    <3> QED
      BY <1>2, <2>1, <3>1
  <2>2. CASE ~ended(p)
    <3> HIDE DEF ended
    <3> QED
      BY <1>3, <2>2
  <2> QED
    BY <2>1, <2>2
<1> QED
  BY <1>5, <1>6
-----------------------------------------------------------------------------
(* What the daemon's functions do to the table.                             *)

(* A number on record is one of the display it is recorded with.            *)
LEMMA OwnNumbers ==
  ASSUME NEW D, NEW E, NEW P, NEW sd, Table(D, E, P, sd),
         NEW d \in Display, NEW p \in Pid, p \in Pids(E[d])
  PROVE  /\ p[1] = d
         /\ \/ p = E[d].pid /\ p[2] = "session"
            \/ p = E[d].serverPid /\ p[2] = "server"
<1>1. p # NoPid
  BY PidParts
<1>2. SessionKnown(d, E[d], P) /\ ServerKnown(d, E[d], P, sd)
  BY DEF Table, EntryOK
<1> QED
  BY <1>1, <1>2 DEF Pids, SessionKnown, ServerKnown

(* A child that has been waited for is no longer there.                     *)
LEMMA BuriedTable ==
  ASSUME NEW D, NEW E, NEW P, NEW sd, Table(D, E, P, sd),
         NEW p \in Pid, NEW Q, Q = [P EXCEPT ![p] = Free]
  PROVE  Table(D, E, Q, sd) /\ Q[p] = Free
<1>1. P \in [Pid -> Child] /\ Free \in Child
  BY DEF Table, Free, Child
<1>2. Q \in [Pid -> Child] /\ Q[p] = Free
      /\ \A q \in Pid : q # p => Q[q] = P[q]
  BY <1>1
<1>3. ~Working(Free) /\ ~Lives(Free) /\ Free.phase \notin {"leaving", "dead"}
  BY DEF Free, Working, Lives
<1>4. ASSUME NEW d \in Display PROVE EntryOK(d, D, E[d], Q, sd)
  <2>1. EntryOK(d, D, E[d], P, sd) /\ E[d] \in Entry
    BY DEF Table
  <2>2. E[d].pid # NoPid => E[d].pid \in Pid
    BY <2>1 DEF Entry
  <2>3. E[d].serverPid # NoPid => E[d].serverPid \in Pid
    BY <2>1 DEF Entry
  <2>4. SessionKnown(d, E[d], Q)
    BY <1>2, <1>3, <2>1, <2>2 DEF EntryOK, SessionKnown
  <2>5. ServerKnown(d, E[d], Q, sd)
    BY <1>2, <1>3, <2>1, <2>3 DEF EntryOK, ServerKnown
  <2> QED
    BY <2>1, <2>4, <2>5 DEF EntryOK
<1>5. ASSUME NEW q \in Pid PROVE ChildOK(q, D, E, Q)
  BY <1>2, <1>3 DEF Table, ChildOK
<1> QED
  BY <1>2, <1>4, <1>5 DEF Table

(* An entry without a living server and a working session may be dropped.   *)
LEMMA RemovedTable ==
  ASSUME NEW P, NEW sd, Table(displays, display, P, sd), NEW d \in Display,
         display[d].pid # NoPid => ~Working(P[display[d].pid]),
         display[d].serverPid # NoPid => ~Lives(P[display[d].serverPid]),
         RemoveDisplay(d)
  PROVE  Table(displays', display', P, sd)
<1>1. /\ displays' = displays \ {d} /\ display' \in [Display -> Entry]
      /\ display'[d] = NewDisplay
      /\ \A c \in Display \ {d} : display'[c] = display[c]
  BY NewDisplayType DEF RemoveDisplay, Table
<1>2. ASSUME NEW c \in Display PROVE EntryOK(c, displays', display'[c], P, sd)
  <2>1. CASE c = d
    BY <1>1, <2>1, NewDisplayOK
  <2>2. CASE c # d
    BY <1>1, <2>2 DEF Table, EntryOK
  <2> QED
    BY <2>1, <2>2
<1>3. ASSUME NEW p \in Pid PROVE ChildOK(p, displays', display', P)
  <2>1. ChildOK(p, displays, display, P) /\ p[1] \in Display /\ p # NoPid
    BY PidParts DEF Table
  <2>2. CASE p[1] = d
    BY <2>1, <2>2 DEF ChildOK
  <2>3. CASE p[1] # d
    BY <1>1, <2>1, <2>3 DEF ChildOK
  <2> QED
    BY <2>2, <2>3
<1> QED
  BY <1>1, <1>2, <1>3 DEF Table

(* Entries may be marked, and new ones made.                                *)
LEMMA MarkedTable ==
  ASSUME NEW D, NEW E, NEW P, NEW sd, Table(D, E, P, sd),
         NEW D2, D \subseteq D2, D2 \subseteq Display,
         NEW E2 \in [Display -> Entry],
         \A d \in Display :
           /\ d \notin D => E2[d] = E[d]
           /\ /\ E2[d].pid = E[d].pid /\ E2[d].serverPid = E[d].serverPid
              /\ E2[d].status = E[d].status /\ E2[d].startTries = E[d].startTries
  PROVE  Table(D2, E2, P, sd)
<1>1. ASSUME NEW d \in Display PROVE EntryOK(d, D2, E2[d], P, sd)
  <2>1. EntryOK(d, D, E[d], P, sd)
    BY DEF Table
  <2>2. d \notin D2 => E2[d] = NewDisplay
    BY <2>1 DEF EntryOK
  <2> QED
    BY <2>1, <2>2 DEF EntryOK, SessionKnown, ServerKnown, TriesLeft
<1>2. ASSUME NEW p \in Pid PROVE ChildOK(p, D2, E2, P)
  BY PidParts DEF Table, ChildOK
<1> QED
  BY <1>1, <1>2 DEF Table

(* Signals but SIGTERM leave servers alone; SIGTERM may be sent to the      *)
(* servers that are waited for.                                             *)
LEMMA SignalledTable ==
  ASSUME NEW D, NEW E, NEW P, NEW sd, Table(D, E, P, sd), NEW ps,
         NEW signal \in Signals,
         \A d \in Display :
           E[d].serverPid \in ps /\ signal = "SIGTERM" =>
             E[d].serverPid = NoPid \/ E[d].status \in {"zombie", "suspended", "phoenix"}
  PROVE  Table(D, E, Signalled(P, ps, signal), sd)
<1> SUFFICES ASSUME NEW Q, Q = Signalled(P, ps, signal)
             PROVE  Table(D, E, Q, sd)
  OBVIOUS
<1>1. P \in [Pid -> Child]
  BY DEF Table
<1>2. /\ Q \in [Pid -> Child]
      /\ \A p \in Pid :
           \/ Q[p] = P[p]
           \/ /\ p \in ps /\ Working(P[p]) /\ Q[p].phase = "leaving"
              /\ p[2] = "session" => Q[p].code \in Code \ {"dead"}
              /\ p[2] = "server" => signal = "SIGTERM"
  <2>1. /\ Q \in [Pid -> Child]
        /\ \A p \in Pid :
              /\ \/ Q[p] = P[p]
                 \/ /\ p \in ps /\ Working(P[p]) /\ Q[p].phase = "leaving"
                    /\ p[2] = "session" => Q[p].code \in Code \ {"dead"}
                    /\ p[2] = "server" => signal = "SIGTERM"
              /\ signal = "SIGTERM" /\ p \in ps => ~Working(Q[p])
    BY <1>1, SignalledChild
  <2> QED
    BY <2>1
<1>3. ASSUME NEW p \in Pid
      PROVE  (Working(Q[p]) => Q[p] = P[p]) /\ (Lives(Q[p]) => Lives(P[p]))
  BY <1>2 DEF Working, Lives
<1>4. ASSUME NEW d \in Display PROVE EntryOK(d, D, E[d], Q, sd)
  <2>1. EntryOK(d, D, E[d], P, sd) /\ E[d] \in Entry
    BY DEF Table
  <2>2. SessionKnown(d, E[d], Q)
    <3>1. E[d].pid # NoPid => E[d].pid \in Pid
      BY <2>1 DEF Entry
    <3> QED
      BY <1>3, <2>1, <3>1 DEF EntryOK, SessionKnown
  <2>3. ServerKnown(d, E[d], Q, sd)
    <3>1. E[d].serverPid # NoPid => E[d].serverPid \in Pid
      BY <2>1 DEF Entry
    <3> QED
      BY <1>2, <2>1, <3>1 DEF EntryOK, ServerKnown
  <2> QED
    BY <2>1, <2>2, <2>3 DEF EntryOK
<1>5. ASSUME NEW p \in Pid PROVE ChildOK(p, D, E, Q)
  BY <1>2, <1>3 DEF Table, ChildOK
<1> QED
  BY <1>2, <1>4, <1>5 DEF Table

(* StopDisplay: the sessions of the displays that are stopped are ended, a  *)
(* display with a server waits for it to end, and only one without is       *)
(* dropped.  A display that is suspended has no session on record.          *)
LEMMA StoppedTable ==
  ASSUME NEW E, NEW P, NEW sd, NEW shutdown,
         Table(displays, E, P, sd),
         NEW ds, ds \subseteq displays,
         ~shutdown => \A d \in ds : E[d].pid = NoPid,
         display \in [Display -> Entry],
         \A d \in Display \ ds : display[d] = E[d],
         StopDisplays(ds, E, P, shutdown),
         NEW later, later => shutdown,
         \A d \in Display \ ds : ServerKnown(d, E[d], P, later)
  PROVE  Table(displays', display', proc', later)
<1> DEFINE gone == {d \in ds : StopRemoves(d, E[d], shutdown)}
           ps == UNION {Pids(E[d]) : d \in ds}
<1>1. /\ displays' = displays \ gone
      /\ display' = [d \in Display |->
                       CASE d \in gone      -> NewDisplay
                         [] d \in ds \ gone -> [E[d] EXCEPT
                                                 !.status = StopStatus(d, E[d], shutdown)]
                         [] OTHER           -> display[d]]
      /\ proc' = Signalled(P, ps, "SIGTERM")
  BY DEF StopDisplays
<1>2. /\ displays \subseteq Display /\ ds \subseteq Display /\ gone \subseteq ds
      /\ E \in [Display -> Entry] /\ P \in [Pid -> Child]
  BY DEF Table
<1>3. \A d \in gone : E[d].serverPid = NoPid
  BY DEF StopRemoves
<1>4. \A d \in ds : E[d].pid # NoPid => E[d].pid \in ps
  BY DEF Pids
<1>5. \A d \in ds : E[d].serverPid # NoPid => E[d].serverPid \in ps
  BY DEF Pids
<1>6. ASSUME NEW p \in Pid, p \in ps
      PROVE  p[1] \in ds
  <2>1. PICK d \in ds : p \in Pids(E[d])
    BY <1>6
  <2> QED
    BY <1>2, <2>1, OwnNumbers
<1>7. /\ \A d \in gone : display'[d] = NewDisplay
      /\ \A d \in ds \ gone :
           display'[d] = [E[d] EXCEPT !.status = StopStatus(d, E[d], shutdown)]
      /\ \A d \in Display \ ds : display'[d] = E[d]
  <2>1. ASSUME NEW d \in gone PROVE display'[d] = NewDisplay
    BY <1>1, <1>2
  <2>2. ASSUME NEW d \in ds \ gone
        PROVE  display'[d] = [E[d] EXCEPT !.status = StopStatus(d, E[d], shutdown)]
    BY <1>1, <1>2
  <2>3. ASSUME NEW d \in Display \ ds PROVE display'[d] = E[d]
    BY <1>1, <1>2
  <2> QED
    BY <2>1, <2>2, <2>3
<1> HIDE DEF gone, ps
<1>8. /\ proc' \in [Pid -> Child]
      /\ \A p \in Pid :
           /\ \/ proc'[p] = P[p]
              \/ /\ p \in ps /\ Working(P[p]) /\ proc'[p].phase = "leaving"
                 /\ p[2] = "session" => proc'[p].code \in Code \ {"dead"}
           /\ p \in ps => ~Working(proc'[p])
  <2>1. "SIGTERM" \in Signals /\ P \in [Pid -> Child] /\ proc' = Signalled(P, ps, "SIGTERM")
    BY <1>1, <1>2 DEF Signals
  <2> QED
    BY <2>1, SignalledChild
<1>9. \A p \in Pid : /\ Working(proc'[p]) => proc'[p] = P[p] /\ p \notin ps
                     /\ Lives(proc'[p]) => Lives(P[p])
  BY <1>8 DEF Working, Lives
<1>10. ASSUME NEW d \in ds \ gone
       PROVE  /\ display'[d] \in Entry
              /\ display'[d].pid = E[d].pid /\ display'[d].serverPid = E[d].serverPid
              /\ display'[d].startTries = E[d].startTries
              /\ display'[d].status = StopStatus(d, E[d], shutdown)
  <2>1. E[d] \in Entry /\ StopStatus(d, E[d], shutdown) \in
          {"notRunning", "running", "zombie", "phoenix", "suspended"}
    BY <1>2 DEF StopStatus, Entry
  <2>2. display'[d] = [E[d] EXCEPT !.status = StopStatus(d, E[d], shutdown)]
    BY <1>7
  <2> QED
    BY <2>1, <2>2 DEF Entry
<1>11. display' \in [Display -> Entry]
  <2>1. ASSUME NEW d \in Display PROVE display'[d] \in Entry
    BY <1>2, <1>7, <1>10, NewDisplayType
  <2>2. display' = [d \in Display |-> display'[d]]
    BY <1>1
  <2> QED
    BY <2>1, <2>2
<1>12. ASSUME NEW d \in Display
       PROVE  EntryOK(d, displays', display'[d], proc', later)
  <2>1. EntryOK(d, displays, E[d], P, sd) /\ E[d] \in Entry
    BY DEF Table
  <2>2. /\ E[d].pid # NoPid => E[d].pid \in Pid
        /\ E[d].serverPid # NoPid => E[d].serverPid \in Pid
    BY <2>1 DEF Entry
  <2>3. CASE d \in gone
    BY <1>7, <2>3, NewDisplayOK
  <2>4. CASE d \in ds \ gone
    <3>1. d \in displays'
      BY <1>1, <2>4
    <3>2. E[d].serverPid # NoPid =>
            display'[d].status = IF shutdown THEN "zombie" ELSE "suspended"
      BY <1>10, <2>1, <2>4 DEF StopStatus, EntryOK, ServerKnown
    <3>3. E[d].serverPid = NoPid => display'[d].status = E[d].status
      BY <1>10, <2>4 DEF StopStatus
    <3>4. SessionKnown(d, display'[d], proc')
      <4>1. E[d].pid # NoPid => ~Working(proc'[E[d].pid]) /\ shutdown
        BY <1>4, <1>9, <2>2, <2>4
      <4> QED
        BY <1>10, <2>1, <2>4, <3>2, <3>3, <4>1 DEF EntryOK, SessionKnown
    <3>5. ServerKnown(d, display'[d], proc', later)
      BY <1>10, <2>1, <2>4, <3>2 DEF EntryOK, ServerKnown
    <3>6. TriesLeft(d, display'[d])
      BY <1>10, <2>1, <2>4, <3>2, <3>3 DEF EntryOK, TriesLeft
    <3> QED
      BY <3>1, <3>4, <3>5, <3>6 DEF EntryOK
  <2>5. CASE d \notin ds
    <3>1. display'[d] = E[d] /\ d \notin gone
      BY <1>2, <1>7, <2>5
    <3>2. d \notin displays' => display'[d] = NewDisplay
      BY <1>1, <2>1, <3>1 DEF EntryOK
    <3>3. SessionKnown(d, display'[d], proc')
      BY <1>9, <2>1, <2>2, <3>1 DEF EntryOK, SessionKnown
    <3>4. E[d].serverPid # NoPid => proc'[E[d].serverPid] = P[E[d].serverPid]
      BY <1>6, <1>8, <2>1, <2>2, <2>5 DEF EntryOK, ServerKnown
    <3>5. ServerKnown(d, display'[d], proc', later)
      BY <2>5, <3>1, <3>4 DEF ServerKnown
    <3> QED
      BY <2>1, <3>1, <3>2, <3>3, <3>5 DEF EntryOK
  <2> QED
    BY <2>3, <2>4, <2>5
<1>13. ASSUME NEW p \in Pid
       PROVE  ChildOK(p, displays', display', proc')
  <2>1. ChildOK(p, displays, E, P) /\ p # NoPid /\ p[1] \in Display
    BY PidParts DEF Table
  <2>2. ASSUME p[2] = "server", Lives(proc'[p])
        PROVE  p[1] \in displays' /\ display'[p[1]].serverPid = p
    <3>1. p[1] \in displays /\ E[p[1]].serverPid = p
      BY <1>9, <2>1, <2>2 DEF ChildOK
    <3>2. p[1] \notin gone
      BY <1>3, <2>1, <3>1
    <3> QED
      BY <1>1, <1>7, <1>10, <2>1, <3>1, <3>2
  <2>3. ASSUME p[2] = "session", Working(proc'[p])
        PROVE  p[1] \in displays' /\ display'[p[1]].pid = p
    <3>1. p \notin ps /\ p[1] \in displays /\ E[p[1]].pid = p
      BY <1>9, <2>1, <2>3 DEF ChildOK
    <3>2. p[1] \notin ds
      BY <1>4, <2>1, <3>1
    <3> QED
      BY <1>1, <1>2, <1>7, <2>1, <3>1, <3>2
  <2>4. ASSUME p[2] = "session", proc'[p].phase \in {"leaving", "dead"}
        PROVE  proc'[p].code \in Code \ {"dead"}
    BY <1>8, <2>1, <2>4 DEF ChildOK
  <2> QED
    BY <2>2, <2>3, <2>4 DEF ChildOK
<1> QED
  BY <1>1, <1>2, <1>8, <1>11, <1>12, <1>13 DEF Table

(* The death of a session: a display that is stopped waits for its server,  *)
(* one that is restarted does not have a server that was told to end        *)
(* already.                                                                 *)
LEMMA SessionDiedTable ==
  ASSUME Table(displays, display, proc, dt_shutdown), dt_shutdown \in BOOLEAN,
         NEW d \in displays, NEW p \in Pid, display[d].pid = p, Zombie(p),
         SessionDied(d, proc[p].code, [proc EXCEPT ![p] = Free])
  PROVE  Table(displays', display', proc', dt_shutdown)
<1> DEFINE procs == [proc EXCEPT ![p] = Free]
           code == proc[p].code
           E == [display EXCEPT ![d].pid = NoPid,
                                ![d].startTries = StartTries(d, display[d], code)]
<1>1. /\ d \in Display /\ display[d] \in Entry /\ display \in [Display -> Entry]
      /\ EntryOK(d, displays, display[d], proc, dt_shutdown)
      /\ p # NoPid /\ ChildOK(p, displays, display, proc)
  BY PidParts DEF Table
<1>2. display[d].status \in {"running", "zombie"} /\ p[2] = "session"
  BY <1>1 DEF EntryOK, SessionKnown
<1>3. code \in Code \ {"dead"}
  BY <1>1, <1>2 DEF ChildOK, Zombie
<1>4. Table(displays, display, procs, dt_shutdown)
  BY BuriedTable
<1>5. StartTries(d, display[d], code) \in 0 .. MaxTries
  <2>1. display[d].startTries \in 0 .. MaxTries
    BY <1>1 DEF Entry
  <2>2. d \notin Local => display[d].startTries < MaxTries
    BY <1>1 DEF EntryOK, TriesLeft
  <2>3. CASE code \in {"OBEYSESS", "RESERVER"}
    BY <2>3, TriesType DEF StartTries
  <2>4. CASE code = "OPENFAILED"
    BY <2>1, <2>2, <2>4, TriesType DEF StartTries
  <2>5. CASE code \notin {"OBEYSESS", "RESERVER", "OPENFAILED"}
    BY <2>1, <2>5, TriesType DEF StartTries
  <2> QED
    BY <2>3, <2>4, <2>5
<1>6. /\ E[d] = [display[d] EXCEPT !.pid = NoPid,
                                   !.startTries = StartTries(d, display[d], code)]
      /\ \A c \in Display \ {d} : E[c] = display[c]
      /\ DOMAIN E = Display /\ E = [c \in Display |-> E[c]]
  BY <1>1
<1> HIDE DEF E, procs, code
<1>7. /\ E[d] \in Entry
      /\ E[d].pid = NoPid /\ E[d].serverPid = display[d].serverPid
      /\ E[d].status = display[d].status
      /\ E[d].startTries = StartTries(d, display[d], code)
  BY <1>1, <1>5, <1>6 DEF Entry
<1>8. E \in [Display -> Entry]
  <2>1. \A c \in Display : E[c] \in Entry
    BY <1>1, <1>6, <1>7
  <2> QED
    BY <1>6, <2>1
<1>9. procs \in [Pid -> Child] /\ procs[p] = Free
      /\ \A q \in Pid \ {p} : procs[q] = proc[q]
  BY DEF procs, Table, Free, Child
<1>10. Table(displays, E, procs, dt_shutdown)
  <2>1. ASSUME NEW c \in Display PROVE EntryOK(c, displays, E[c], procs, dt_shutdown)
    <3>1. EntryOK(c, displays, display[c], procs, dt_shutdown)
      BY <1>4 DEF Table
    <3>2. CASE c = d
      BY <1>2, <1>7, <3>1, <3>2 DEF EntryOK, SessionKnown, ServerKnown, TriesLeft
    <3>3. CASE c # d
      BY <1>6, <3>1, <3>3
    <3> QED
      BY <3>2, <3>3
  <2>2. ASSUME NEW q \in Pid PROVE ChildOK(q, displays, E, procs)
    <3>1. ChildOK(q, displays, display, procs) /\ q[1] \in Display
      BY <1>4, PidParts DEF Table
    <3>2. ~Working(Free)
      BY DEF Working, Free
    <3>3. CASE q[1] = d
      <4>1. q[2] = "session" /\ Working(procs[q]) => q = p
        BY <3>1, <3>3 DEF ChildOK
      <4> QED
        BY <1>7, <1>9, <3>1, <3>2, <3>3, <4>1 DEF ChildOK
    <3>4. CASE q[1] # d
      BY <1>6, <3>1, <3>4 DEF ChildOK
    <3> QED
      BY <3>3, <3>4
  <2> QED
    BY <1>4, <1>8, <2>1, <2>2 DEF Table
<1>11. IF Stops(d, E[d], code)
       THEN StopDisplays({d}, E, procs, dt_shutdown)
       ELSE RestartDisplay(d, E[d], code \in {"OPENFAILED", "RESERVER"}, procs)
  BY DEF SessionDied, E, procs, code
<1>12. CASE Stops(d, E[d], code)
  <2>1. \A c \in Display \ {d} : /\ display[c] = E[c]
                                 /\ ServerKnown(c, E[c], procs, dt_shutdown)
    BY <1>6, <1>10 DEF Table, EntryOK
  <2>2. \A c \in {d} : E[c].pid = NoPid
    BY <1>7
  <2>3. StopDisplays({d}, E, procs, dt_shutdown) /\ {d} \subseteq displays
    BY <1>11, <1>12
  <2> QED
    BY <1>1, <1>10, <2>1, <2>2, <2>3, StoppedTable
<1>13. CASE ~Stops(d, E[d], code)
  <2> DEFINE force == code \in {"OPENFAILED", "RESERVER"}
             phoenix == force /\ E[d].serverPid # NoPid
             ps == IF phoenix THEN {E[d].serverPid} ELSE {}
  <2>1. /\ display' = [display EXCEPT ![d] =
             [E[d] EXCEPT !.status = IF phoenix THEN "phoenix" ELSE "notRunning"]]
        /\ proc' = Signalled(procs, ps, "SIGTERM")
        /\ displays' = displays
    BY <1>11, <1>13 DEF RestartDisplay
  <2>2. /\ display'[d] = [E[d] EXCEPT !.status = IF phoenix THEN "phoenix" ELSE "notRunning"]
        /\ \A c \in Display \ {d} : display'[c] = E[c]
        /\ display' = [c \in Display |-> display'[c]]
    BY <1>1, <1>6, <2>1
  <2>3. /\ E[d].status = "zombie" => d \notin Local
        /\ d \notin Local /\ code = "OPENFAILED" => E[d].startTries < startAttempts
    <3>1. startAttempts \in Nat /\ E[d].startTries \in Nat
      BY <1>7, TriesType DEF Entry
    <3> QED
      BY <1>3, <1>13, <3>1 DEF Stops, Code
  <2> HIDE DEF phoenix, force
  <2>4. /\ display'[d] \in Entry
        /\ display'[d].pid = NoPid /\ display'[d].serverPid = E[d].serverPid
        /\ display'[d].startTries = E[d].startTries
        /\ display'[d].status = IF phoenix THEN "phoenix" ELSE "notRunning"
    BY <1>7, <2>2 DEF Entry
  <2>5. display' \in [Display -> Entry]
    <3>1. \A c \in Display : display'[c] \in Entry
      BY <1>8, <2>2, <2>4
    <3> QED
      BY <2>2, <3>1
  <2>6. E[d].serverPid # NoPid =>
          /\ E[d].serverPid \in Pid /\ d \in Local
          /\ procs[E[d].serverPid].phase # "leaving" /\ ~dt_shutdown
    <3>1. EntryOK(d, displays, E[d], procs, dt_shutdown)
      BY <1>1, <1>10 DEF Table
    <3> QED
      BY <1>2, <1>7, <2>3, <3>1 DEF EntryOK, ServerKnown, Entry
  <2>7. TriesLeft(d, display'[d])
    <3>1. d \notin Local => E[d].startTries < MaxTries
      <4>1. CASE code \in {"OBEYSESS", "RESERVER"}
        BY <1>7, <4>1, TriesType DEF StartTries
      <4>2. CASE code = "OPENFAILED"
        BY <1>7, <2>3, <4>2, TriesType DEF Entry
      <4>3. CASE code \notin {"OBEYSESS", "RESERVER", "OPENFAILED"}
        BY <1>7, <4>3, TriesType DEF StartTries
      <4> QED
        BY <4>1, <4>2, <4>3
    <3> QED
      BY <2>4, <3>1 DEF TriesLeft
  <2>8. Table(displays, display', procs, dt_shutdown)
    <3>1. ASSUME NEW c \in Display
          PROVE  EntryOK(c, displays, display'[c], procs, dt_shutdown)
      <4>1. EntryOK(c, displays, E[c], procs, dt_shutdown)
        BY <1>10 DEF Table
      <4>2. CASE c = d
        <5>1. SessionKnown(d, display'[d], procs)
          BY <2>4 DEF SessionKnown
        <5>2. ServerKnown(d, display'[d], procs, dt_shutdown)
          BY <2>4, <2>6, <4>1, <4>2 DEF EntryOK, ServerKnown
        <5> QED
          BY <2>7, <4>2, <5>1, <5>2 DEF EntryOK
      <4>3. CASE c # d
        BY <2>2, <4>1, <4>3
      <4> QED
        BY <4>2, <4>3
    <3>2. ASSUME NEW q \in Pid PROVE ChildOK(q, displays, display', procs)
      <4>1. ChildOK(q, displays, E, procs) /\ q[1] \in Display
        BY <1>10, PidParts DEF Table
      <4>2. display'[q[1]].pid = E[q[1]].pid /\ display'[q[1]].serverPid = E[q[1]].serverPid
        BY <1>7, <2>2, <2>4, <4>1
      <4> QED
        BY <4>1, <4>2 DEF ChildOK
    <3> QED
      BY <1>10, <2>5, <3>1, <3>2 DEF Table
  <2>9. ASSUME NEW c \in Display, display'[c].serverPid \in ps
        PROVE  display'[c].serverPid = NoPid
                 \/ display'[c].status \in {"zombie", "suspended", "phoenix"}
    <3>1. phoenix /\ display'[c].serverPid = E[d].serverPid
      BY <2>9
    <3>2. CASE c = d
      BY <2>4, <3>1, <3>2
    <3>3. CASE c # d
      <4>1. display'[c] = E[c] /\ display'[c].serverPid = E[d].serverPid
        BY <2>2, <3>1, <3>3
      <4>2. EntryOK(d, displays, E[d], procs, dt_shutdown)
            /\ EntryOK(c, displays, E[c], procs, dt_shutdown)
        BY <1>1, <1>10 DEF Table
      <4> QED
        BY <3>3, <4>1, <4>2 DEF EntryOK, ServerKnown
    <3> QED
      BY <3>2, <3>3
  <2>10. "SIGTERM" \in Signals
    BY DEF Signals
  <2> HIDE DEF ps
  <2>11. Table(displays, display', Signalled(procs, ps, "SIGTERM"), dt_shutdown)
    BY <2>8, <2>9, <2>10, SignalledTable
  <2> QED
    BY <2>1, <2>11
<1> QED
  BY <1>12, <1>13

(* The death of a server: the display is dropped or has no server any more, *)
(* and its session, if it was at work, is told to end.                      *)
LEMMA ServerDiedTable ==
  ASSUME Table(displays, display, proc, dt_shutdown),
         NEW d \in displays, NEW p \in Pid, display[d].serverPid = p,
         ServerDied(d, [proc EXCEPT ![p] = Free])
  PROVE  Table(displays', display', proc', dt_shutdown)
<1> DEFINE procs == [proc EXCEPT ![p] = Free]
           ps == IF display[d].status = "running" THEN {display[d].pid} ELSE {}
<1>1. /\ d \in Display /\ display[d] \in Entry /\ display \in [Display -> Entry]
      /\ EntryOK(d, displays, display[d], procs, dt_shutdown)
      /\ p # NoPid /\ d \in Local
      /\ Table(displays, display, procs, dt_shutdown) /\ procs[p] = Free
  <2>1. /\ d \in Display /\ display[d] \in Entry /\ display \in [Display -> Entry]
        /\ EntryOK(d, displays, display[d], proc, dt_shutdown) /\ p # NoPid
    BY PidParts DEF Table
  <2>2. Table(displays, display, procs, dt_shutdown)
    BY BuriedTable
  <2>3. procs[p] = Free
    BY DEF Table
  <2> QED
    BY <2>1, <2>2, <2>3 DEF EntryOK, ServerKnown, Table
<1>2. /\ ~Lives(procs[p]) /\ proc' = Signalled(procs, ps, "SIGTERM")
      /\ "SIGTERM" \in Signals
  BY <1>1 DEF ServerDied, Lives, Working, Free, Signals
<1> HIDE DEF procs
<1>3. ASSUME NEW c \in Display, display[c].serverPid \in ps
      PROVE  display[c].serverPid = NoPid
    <2>1. display[c].serverPid = display[d].pid
      BY <1>3
    <2>2. EntryOK(c, displays, display[c], procs, dt_shutdown)
      BY <1>1 DEF Table
    <2> QED
      BY <1>1, <2>1, <2>2 DEF EntryOK, SessionKnown, ServerKnown
<1>4. CASE display[d].status = "zombie"
  <2>1. display[d].pid # NoPid => ~Working(procs[display[d].pid])
    BY <1>1, <1>4 DEF EntryOK, SessionKnown
  <2>2. RemoveDisplay(d)
    BY <1>4 DEF ServerDied
  <2>3. Table(displays', display', procs, dt_shutdown)
    BY <1>1, <1>2, <2>1, <2>2, RemovedTable
  <2>4. ps = {}
    BY <1>4
  <2> HIDE DEF ps
  <2> QED
    BY <1>2, <2>3, <2>4, SignalledTable
<1>5. CASE display[d].status # "zombie"
  <2> DEFINE status == IF display[d].status \in {"phoenix", "suspended"}
                       THEN "notRunning" ELSE display[d].status
  <2>1. /\ displays' = displays
        /\ display' = [display EXCEPT ![d].serverPid = NoPid, ![d].status = status]
    BY <1>1, <1>5 DEF ServerDied
  <2>2. /\ display'[d] = [display[d] EXCEPT !.serverPid = NoPid, !.status = status]
        /\ \A c \in Display \ {d} : display'[c] = display[c]
        /\ display' = [c \in Display |-> display'[c]]
    BY <1>1, <2>1
  <2>3. status \in {"notRunning", "running", "zombie", "phoenix", "suspended"}
    BY <1>1 DEF Entry
  <2>4. display[d].pid # NoPid => status = display[d].status
    BY <1>1 DEF EntryOK, SessionKnown
  <2> HIDE DEF status
  <2>5. /\ display'[d] \in Entry
        /\ display'[d].pid = display[d].pid /\ display'[d].serverPid = NoPid
        /\ display'[d].startTries = display[d].startTries
        /\ display'[d].status = status
    BY <1>1, <2>2, <2>3 DEF Entry
  <2>6. display' \in [Display -> Entry]
    <3>1. \A c \in Display : display'[c] \in Entry
      BY <1>1, <2>2, <2>5
    <3> QED
      BY <2>2, <3>1
  <2>7. Table(displays, display', procs, dt_shutdown)
    <3>1. ASSUME NEW c \in Display
          PROVE  EntryOK(c, displays, display'[c], procs, dt_shutdown)
      <4>1. EntryOK(c, displays, display[c], procs, dt_shutdown)
        BY <1>1 DEF Table
      <4>2. CASE c = d
        BY <1>1, <2>4, <2>5, <4>2
           DEF EntryOK, SessionKnown, ServerKnown, TriesLeft
      <4>3. CASE c # d
        BY <2>2, <4>1, <4>3
      <4> QED
        BY <4>2, <4>3
    <3>2. ASSUME NEW q \in Pid PROVE ChildOK(q, displays, display', procs)
      <4>1. ChildOK(q, displays, display, procs) /\ q[1] \in Display
        BY <1>1, PidParts DEF Table
      <4>2. display'[q[1]].pid = display[q[1]].pid
        BY <1>1, <2>2, <2>5, <4>1
      <4>3. q[2] = "server" /\ Lives(procs[q]) =>
              q[1] # d /\ q[1] \in displays /\ display[q[1]].serverPid = q
        BY <1>2, <4>1 DEF ChildOK
      <4>4. q[2] = "server" /\ Lives(procs[q]) =>
              q[1] \in displays /\ display'[q[1]].serverPid = q
        BY <2>2, <4>1, <4>3
      <4> QED
        BY <4>1, <4>2, <4>4 DEF ChildOK
    <3> QED
      BY <1>1, <2>6, <3>1, <3>2 DEF Table
  <2>8. ASSUME NEW c \in Display, display'[c].serverPid \in ps
        PROVE  display'[c].serverPid = NoPid
    <3> HIDE DEF ps
    <3> QED
      BY <1>3, <2>2, <2>5, <2>8
  <2> HIDE DEF ps
  <2> QED
    BY <1>2, <2>1, <2>7, <2>8, SignalledTable
<1> QED
  BY <1>4, <1>5

(* A new session gets a number that no display remembers; the last session  *)
(* of a display that is not running has ended.                              *)
LEMMA ForkedTable ==
  ASSUME NEW sd, NEW E, Table(displays, E, proc, sd),
         display \in [Display -> Entry],
         NEW d \in displays, E[d].status = "notRunning",
         \A c \in Display \ {d} : E[c] = display[c],
         Pids(E[d]) = Pids(display[d]),
         ForkSession(d, E[d])
  PROVE  Table(displays, display', proc', sd)
<1>1. /\ d \in Display /\ E[d] \in Entry /\ E \in [Display -> Entry]
      /\ EntryOK(d, displays, E[d], proc, sd) /\ proc \in [Pid -> Child]
  BY DEF Table
<1>2. CASE Unused(d, "session") = {}
  <2>1. display' = [display EXCEPT ![d] = E[d]] /\ proc' = proc
    BY <1>2 DEF ForkSession
  <2>2. display' = E
    BY <1>1, <2>1
  <2> QED
    BY <2>1, <2>2
<1>3. CASE Unused(d, "session") # {}
  <2> DEFINE p == NewPid(d, "session")
  <2>1. p \in Unused(d, "session")
    BY <1>3, NewPidUnused
  <2>2. p \in Pid /\ p[1] = d /\ p[2] = "session" /\ proc[p] = Free
        /\ p \notin Pids(display[d])
    BY <2>1 DEF Unused
  <2>3. /\ display' = [display EXCEPT ![d] = [E[d] EXCEPT !.pid = p, !.status = "running"]]
        /\ proc' = [proc EXCEPT ![p] = NewChild]
    BY <1>3 DEF ForkSession
  <2> HIDE DEF p
  <2>4. /\ display'[d] = [E[d] EXCEPT !.pid = p, !.status = "running"]
        /\ \A c \in Display \ {d} : display'[c] = E[c]
        /\ display' = [c \in Display |-> display'[c]]
    BY <1>1, <2>3
  <2>5. /\ display'[d] \in Entry
        /\ display'[d].pid = p /\ display'[d].serverPid = E[d].serverPid
        /\ display'[d].startTries = E[d].startTries
        /\ display'[d].status = "running"
    BY <1>1, <2>2, <2>4 DEF Entry
  <2>6. display' \in [Display -> Entry]
    <3>1. \A c \in Display : display'[c] \in Entry
      BY <1>1, <2>4, <2>5
    <3> QED
      BY <2>4, <3>1
  <2>7. NewChild \in Child /\ Working(NewChild) /\ NewChild.phase = "early"
    BY DEF NewChild, Child, Working
  <2>8. /\ proc' \in [Pid -> Child] /\ proc'[p] = NewChild
        /\ \A q \in Pid \ {p} : proc'[q] = proc[q]
    BY <1>1, <2>2, <2>3, <2>7
  <2>9. ASSUME NEW c \in Display PROVE EntryOK(c, displays, display'[c], proc', sd)
    <3>1. EntryOK(c, displays, E[c], proc, sd) /\ E[c] \in Entry
      BY <1>1 DEF Table
    <3>2. /\ E[c].pid # NoPid => E[c].pid \in Pid
          /\ E[c].serverPid # NoPid => E[c].serverPid \in Pid
      BY <3>1 DEF Entry
    <3>3. CASE c = d
      <4>1. SessionKnown(d, display'[d], proc')
        BY <2>2, <2>5 DEF SessionKnown
      <4>2. E[d].serverPid # NoPid =>
              /\ E[d].serverPid[2] = "server" /\ ~sd
              /\ proc[E[d].serverPid].phase # "leaving"
        BY <1>1 DEF EntryOK, ServerKnown
      <4>3. E[d].serverPid # NoPid => proc'[E[d].serverPid] = proc[E[d].serverPid]
        BY <2>2, <2>8, <3>2, <3>3, <4>2
      <4>4. ServerKnown(d, display'[d], proc', sd)
        BY <1>1, <2>5, <4>2, <4>3 DEF EntryOK, ServerKnown
      <4>5. TriesLeft(d, display'[d])
        BY <1>1, <2>5 DEF EntryOK, TriesLeft
      <4> QED
        BY <3>3, <4>1, <4>4, <4>5 DEF EntryOK
    <3>4. CASE c # d
      <4>1. /\ E[c].pid # NoPid => E[c].pid # p
            /\ E[c].serverPid # NoPid => E[c].serverPid # p
        BY <2>2, <3>1, <3>4 DEF EntryOK, SessionKnown, ServerKnown
      <4> QED
        BY <2>4, <2>8, <3>1, <3>2, <3>4, <4>1 DEF EntryOK, SessionKnown, ServerKnown
    <3> QED
      BY <3>3, <3>4
  <2>10. ASSUME NEW q \in Pid PROVE ChildOK(q, displays, display', proc')
    <3>1. ChildOK(q, displays, E, proc) /\ q[1] \in Display /\ q # NoPid
      BY PidParts DEF Table
    <3>2. CASE q = p
      BY <2>2, <2>5, <2>7, <2>8, <3>2 DEF ChildOK
    <3>3. CASE q # p
      <4>1. proc'[q] = proc[q]
        BY <2>8, <3>3
      <4>2. CASE q[1] = d
        <5>1. q[2] = "session" => ~Working(proc[q])
          BY <1>1, <3>1, <4>2 DEF ChildOK, EntryOK, SessionKnown
        <5> QED
          BY <2>5, <3>1, <4>1, <4>2, <5>1 DEF ChildOK
      <4>3. CASE q[1] # d
        BY <2>4, <3>1, <4>1, <4>3 DEF ChildOK
      <4> QED
        BY <4>2, <4>3
    <3> QED
      BY <3>2, <3>3
  <2> QED
    BY <1>1, <2>6, <2>8, <2>9, <2>10 DEF Table
<1> QED
  BY <1>2, <1>3

LEMMA ChildReplaced ==
  ASSUME NEW P \in [Pid -> Child], NEW p \in Pid, NEW c \in Child
  PROVE  /\ [P EXCEPT ![p] = c] \in [Pid -> Child]
         /\ [P EXCEPT ![p] = c][p] = c
         /\ \A q \in Pid \ {p} : [P EXCEPT ![p] = c][q] = P[q]
  OBVIOUS

(* A server is opened for a display that has none.                          *)
LEMMA OpenedTable ==
  ASSUME NEW E, Table(displays, E, proc, FALSE),
         display \in [Display -> Entry],
         NEW d \in displays, d \in Local, E[d].status = "notRunning",
         E[d].serverPid = NoPid, CanOpen(d, E[d]),
         \A c \in Display \ {d} : E[c] = display[c],
         display' = [display EXCEPT ![d] =
           [E[d] EXCEPT !.startTries = @ + 1, !.serverPid = NewPid(d, "server")]],
         proc' = [proc EXCEPT ![NewPid(d, "server")] = NewChild]
  PROVE  /\ Table(displays, display', proc', FALSE)
         /\ display'[d].status = "notRunning" /\ display'[d].serverPid # NoPid
<1>1. /\ d \in Display /\ E[d] \in Entry /\ E \in [Display -> Entry]
      /\ EntryOK(d, displays, E[d], proc, FALSE) /\ proc \in [Pid -> Child]
  BY DEF Table
<1> DEFINE p == NewPid(d, "server")
<1>2. p \in Unused(d, "server") /\ E[d].startTries < startAttempts
  BY NewPidUnused DEF CanOpen
<1>3. p \in Pid /\ p[1] = d /\ p[2] = "server" /\ proc[p] = Free /\ p # NoPid
  BY <1>2, PidParts DEF Unused
<1>4. display' = [display EXCEPT ![d] =
                    [E[d] EXCEPT !.startTries = @ + 1, !.serverPid = p]]
      /\ proc' = [proc EXCEPT ![p] = NewChild]
  OBVIOUS
<1> HIDE DEF p
<1>5. /\ display'[d] = [E[d] EXCEPT !.startTries = @ + 1, !.serverPid = p]
      /\ \A c \in Display \ {d} : display'[c] = E[c]
      /\ display' = [c \in Display |-> display'[c]]
  BY <1>1, <1>4
<1>6. E[d].startTries + 1 \in 0 .. MaxTries
  BY <1>1, <1>2, TriesType DEF Entry
<1>7. /\ display'[d] \in Entry
      /\ display'[d].pid = E[d].pid /\ display'[d].serverPid = p
      /\ display'[d].status = "notRunning"
  <2> DEFINE e == E[d]
  <2>1. /\ e \in Entry /\ e.status = "notRunning" /\ p \in Pid
        /\ e.startTries + 1 \in 0 .. MaxTries
        /\ display'[d] = [e EXCEPT !.startTries = @ + 1, !.serverPid = p]
    BY <1>1, <1>3, <1>5, <1>6
  <2>2. /\ [e EXCEPT !.startTries = @ + 1, !.serverPid = p] \in Entry
        /\ [e EXCEPT !.startTries = @ + 1, !.serverPid = p].pid = e.pid
        /\ [e EXCEPT !.startTries = @ + 1, !.serverPid = p].serverPid = p
        /\ [e EXCEPT !.startTries = @ + 1, !.serverPid = p].status = e.status
    <3> HIDE DEF e
    <3> QED
      BY <2>1 DEF Entry
  <2> QED
    BY <2>1, <2>2
<1>8. display' \in [Display -> Entry]
  <2>1. \A c \in Display : display'[c] \in Entry
    BY <1>1, <1>5, <1>7
  <2> QED
    BY <1>5, <2>1
<1>9. NewChild \in Child /\ Working(NewChild) /\ NewChild.phase = "early"
  BY DEF NewChild, Child, Working
<1>10. /\ proc' \in [Pid -> Child] /\ proc'[p] = NewChild
       /\ \A q \in Pid \ {p} : proc'[q] = proc[q]
  <2>1. /\ p \in Pid /\ proc \in [Pid -> Child] /\ NewChild \in Child
        /\ proc' = [proc EXCEPT ![p] = NewChild]
    BY <1>1, <1>3, <1>4, <1>9
  <2>2. /\ [proc EXCEPT ![p] = NewChild] \in [Pid -> Child]
        /\ [proc EXCEPT ![p] = NewChild][p] = NewChild
        /\ \A q \in Pid \ {p} : [proc EXCEPT ![p] = NewChild][q] = proc[q]
    BY <2>1, ChildReplaced
  <2> QED
    BY <2>1, <2>2
<1>11. ASSUME NEW c \in Display PROVE EntryOK(c, displays, display'[c], proc', FALSE)
  <2>1. EntryOK(c, displays, E[c], proc, FALSE) /\ E[c] \in Entry
    BY <1>1 DEF Table
  <2>2. /\ E[c].pid # NoPid => E[c].pid \in Pid /\ E[c].pid[2] = "session"
        /\ E[c].serverPid # NoPid => E[c].serverPid \in Pid
    BY <2>1 DEF Entry, EntryOK, SessionKnown
  <2>3. E[c].pid # NoPid => proc'[E[c].pid] = proc[E[c].pid]
    BY <1>3, <1>10, <2>2
  <2>4. CASE c = d
    <3>1. SessionKnown(d, display'[d], proc')
      BY <1>7, <2>1, <2>3, <2>4 DEF EntryOK, SessionKnown
    <3>2. ServerKnown(d, display'[d], proc', FALSE)
      BY <1>3, <1>7, <1>9, <1>10 DEF ServerKnown
    <3> QED
      BY <2>4, <3>1, <3>2 DEF EntryOK, TriesLeft
  <2>5. CASE c # d
    <3>1. E[c].serverPid # NoPid => E[c].serverPid # p
      BY <1>3, <2>1, <2>5 DEF EntryOK, ServerKnown
    <3> QED
      BY <1>5, <1>10, <2>1, <2>2, <2>3, <2>5, <3>1
         DEF EntryOK, SessionKnown, ServerKnown
  <2> QED
    BY <2>4, <2>5
<1>12. ASSUME NEW q \in Pid PROVE ChildOK(q, displays, display', proc')
  <2>1. ChildOK(q, displays, E, proc) /\ q[1] \in Display /\ q # NoPid
    BY PidParts DEF Table
  <2>2. CASE q = p
    BY <1>3, <1>7, <2>2 DEF ChildOK
  <2>3. CASE q # p
    <3>1. proc'[q] = proc[q]
      BY <1>10, <2>3
    <3>2. CASE q[1] = d
      BY <1>7, <2>1, <3>1, <3>2 DEF ChildOK
    <3>3. CASE q[1] # d
      BY <1>5, <2>1, <3>1, <3>3 DEF ChildOK
    <3> QED
      BY <3>2, <3>3
  <2> QED
    BY <2>2, <2>3
<1> QED
  BY <1>1, <1>3, <1>7, <1>8, <1>10, <1>11, <1>12 DEF Table

-----------------------------------------------------------------------------
(* The inductive invariant.                                                 *)

LEMMA InitInductive == Init => Inductive
<1> SUFFICES ASSUME Init PROVE Inductive
  OBVIOUS
<1>1. displays \subseteq Display /\ display = [d \in Display |-> NewDisplay]
      /\ proc = [p \in Pid |-> Free]
  BY DEF Init, Files
<1>2. Free \in Child /\ ~Working(Free) /\ ~Lives(Free)
      /\ Free.phase \notin {"leaving", "dead"}
  BY DEF Free, Child, Working, Lives
<1>3. \A d \in Display : EntryOK(d, displays, display[d], proc, dt_shutdown)
  BY <1>1, NewDisplayOK
<1>4. \A p \in Pid : ChildOK(p, displays, display, proc)
  BY <1>1, <1>2 DEF ChildOK
<1>5. Table(displays, display, proc, dt_shutdown)
  BY <1>1, <1>2, <1>3, <1>4, NewDisplayType DEF Table
<1> QED
  BY <1>5 DEF Init, Inductive, Position, Flags

(* ProcessChildDeath, wherever the children are waited for.                 *)
LEMMA DeathTable ==
  ASSUME Table(displays, display, proc, dt_shutdown), dt_shutdown \in BOOLEAN,
         NEW p \in Pid, Zombie(p), ProcessChildDeath(p)
  PROVE  Table(displays', display', proc', dt_shutdown)
<1>1. CASE \E d \in displays : /\ display[d].pid = p
                               /\ SessionDied(d, proc[p].code, [proc EXCEPT ![p] = Free])
  BY <1>1, SessionDiedTable
<1>2. CASE \E d \in displays : /\ display[d].serverPid = p
                               /\ ServerDied(d, [proc EXCEPT ![p] = Free])
  BY <1>2, ServerDiedTable
<1>3. CASE proc' = [proc EXCEPT ![p] = Free] /\ displays' = displays /\ display' = display
  BY <1>3, BuriedTable
<1> QED
  BY <1>1, <1>2, <1>3 DEF ProcessChildDeath

(* CheckDisplayStatus, for one display of the table.                        *)
LEMMA CheckDisplayStatusInductive ==
  ASSUME Inductive, CheckDisplayStatus
  PROVE  Inductive'
<1>1. Table(displays, display, proc, dt_shutdown) /\ Position /\ Flags
  BY DEF Inductive
<1>2. PICK d \in todo :
       /\ todo' = todo \ {d}
       /\ IF display[d].state = "MissingEntry"
          THEN /\ StopDisplays({d}, display, proc, TRUE)
               /\ dt_shutdown' = FALSE
               /\ UNCHANGED <<at, opening, missed>>
          ELSE /\ IF display[d].status = "notRunning"
                  THEN StartDisplay(d, [display[d] EXCEPT !.state = "OldEntry"])
                  ELSE /\ display' = [display EXCEPT ![d].state = "OldEntry"]
                       /\ UNCHANGED <<displays, proc, at, opening, missed>>
               /\ UNCHANGED dt_shutdown
  BY DEF CheckDisplayStatus
<1>3. /\ at = "start" /\ UNCHANGED <<after, Rescan, ChildReady, sockets>>
      /\ d \in displays /\ d \in Display /\ displays \subseteq Display
      /\ display \in [Display -> Entry] /\ display[d] \in Entry
      /\ EntryOK(d, displays, display[d], proc, dt_shutdown)
      /\ todo \subseteq displays /\ dt_shutdown \in BOOLEAN /\ missed \in BOOLEAN
      /\ opening = "none" /\ after \in {"install", "rescan", "top"}
  BY <1>1 DEF CheckDisplayStatus, Table, Position, Flags
<1>4. ASSUME at' = "start", opening' = opening, displays \ {d} \subseteq displays',
             Table(displays', display', proc', dt_shutdown'),
             dt_shutdown' \in BOOLEAN, missed' \in BOOLEAN
      PROVE  Inductive'
  <2>1. todo' \subseteq displays'
    BY <1>2, <1>3, <1>4
  <2> QED
    BY <1>1, <1>3, <1>4, <2>1 DEF Inductive, Position, Flags
<1>5. /\ display[d].status = "notRunning" /\ display[d].pid # NoPid =>
           ~Working(proc[display[d].pid])
      /\ display[d].status = "notRunning" /\ display[d].serverPid # NoPid => ~dt_shutdown
  BY <1>3 DEF EntryOK, SessionKnown, ServerKnown
<1>6. CASE display[d].state = "MissingEntry"
  <2>1. /\ StopDisplays({d}, display, proc, TRUE) /\ dt_shutdown' = FALSE
        /\ UNCHANGED <<at, opening, missed>>
    BY <1>2, <1>6
  <2>2. \A c \in Display \ {d} : ServerKnown(c, display[c], proc, FALSE)
    BY <1>1 DEF Table, EntryOK, ServerKnown
  <2>3. Table(displays', display', proc', FALSE)
    <3> DEFINE ds == {d}
    <3>1. /\ Table(displays, display, proc, dt_shutdown) /\ ds \subseteq displays
          /\ display \in [Display -> Entry] /\ StopDisplays(ds, display, proc, TRUE)
          /\ \A c \in Display \ ds : ServerKnown(c, display[c], proc, FALSE)
      BY <1>1, <1>3, <2>1, <2>2
    <3> HIDE DEF ds
    <3> QED
      BY <3>1, StoppedTable
  <2>4. displays \ {d} \subseteq displays'
    BY <2>1 DEF StopDisplays
  <2> QED
    BY <1>3, <1>4, <2>1, <2>3, <2>4
<1>7. CASE display[d].state # "MissingEntry" /\ display[d].status # "notRunning"
  <2>1. /\ display' = [display EXCEPT ![d].state = "OldEntry"]
        /\ UNCHANGED <<displays, proc, at, opening, missed, dt_shutdown>>
    BY <1>2, <1>7
  <2>2. /\ display'[d] = [display[d] EXCEPT !.state = "OldEntry"]
        /\ \A c \in Display \ {d} : display'[c] = display[c]
        /\ display' = [c \in Display |-> display'[c]]
    BY <1>3, <2>1
  <2>3. /\ display'[d] \in Entry
        /\ display'[d].pid = display[d].pid /\ display'[d].serverPid = display[d].serverPid
        /\ display'[d].status = display[d].status
        /\ display'[d].startTries = display[d].startTries
    BY <1>3, <2>2 DEF Entry
  <2>4. display' \in [Display -> Entry]
    <3>1. \A c \in Display : display'[c] \in Entry
      BY <1>3, <2>2, <2>3
    <3> QED
      BY <2>2, <3>1
  <2>5. \A c \in Display :
          /\ c \notin displays => display'[c] = display[c]
          /\ /\ display'[c].pid = display[c].pid
             /\ display'[c].serverPid = display[c].serverPid
             /\ display'[c].status = display[c].status
             /\ display'[c].startTries = display[c].startTries
    BY <1>3, <2>2, <2>3
  <2>6. Table(displays, display', proc, dt_shutdown)
    BY <1>1, <1>3, <2>4, <2>5, MarkedTable
  <2> QED
    BY <1>3, <1>4, <2>1, <2>6
<1>8. CASE display[d].state # "MissingEntry" /\ display[d].status = "notRunning"
  <2> DEFINE e == [display[d] EXCEPT !.state = "OldEntry"]
             E == [display EXCEPT ![d] = e]
  <2>1. StartDisplay(d, e) /\ dt_shutdown' = dt_shutdown
    BY <1>2, <1>8
  <2>2. /\ E[d] = e /\ \A c \in Display \ {d} : E[c] = display[c]
        /\ E = [c \in Display |-> E[c]]
    BY <1>3
  <2>3. /\ e \in Entry /\ e.pid = display[d].pid /\ e.serverPid = display[d].serverPid
        /\ e.status = "notRunning" /\ e.startTries = display[d].startTries
    BY <1>3, <1>8 DEF Entry
  <2> HIDE DEF E, e
  <2>4. E \in [Display -> Entry]
    <3>1. \A c \in Display : E[c] \in Entry
      BY <1>3, <2>2, <2>3
    <3> QED
      BY <2>2, <3>1
  <2>5. \A c \in Display :
          /\ c \notin displays => E[c] = display[c]
          /\ /\ E[c].pid = display[c].pid
             /\ E[c].serverPid = display[c].serverPid
             /\ E[c].status = display[c].status
             /\ E[c].startTries = display[c].startTries
    BY <1>3, <1>8, <2>2, <2>3
  <2>6. Table(displays, E, proc, dt_shutdown)
    BY <1>1, <1>3, <2>4, <2>5, MarkedTable
  <2>7. ASSUME RemoveDisplay(d), UNCHANGED <<proc, opening, at, missed>>,
               dt_shutdown \/ display[d].serverPid = NoPid
        PROVE  Inductive'
    <3>1. Table(displays', display', proc, dt_shutdown)
      BY <1>1, <1>3, <1>5, <1>8, <2>7, RemovedTable
    <3>2. displays \ {d} \subseteq displays'
      BY <2>7 DEF RemoveDisplay
    <3> QED
      BY <1>3, <1>4, <2>1, <2>7, <3>1, <3>2
  <2>8. CASE dt_shutdown
    BY <2>1, <2>7, <2>8 DEF StartDisplay
  <2>9. CASE ~dt_shutdown /\ d \in Local /\ e.serverPid = NoPid
    <3>1. OpenServer(d, e) /\ dt_shutdown = FALSE
      BY <1>3, <2>1, <2>9 DEF StartDisplay
    <3>2. CASE CanOpen(d, e)
      <4>1. /\ display' = [display EXCEPT ![d] =
                 [e EXCEPT !.startTries = @ + 1, !.serverPid = NewPid(d, "server")]]
            /\ proc' = [proc EXCEPT ![NewPid(d, "server")] = NewChild]
            /\ opening' = d /\ at' = "pause"
            /\ UNCHANGED <<displays, missed>>
        BY <3>1, <3>2 DEF OpenServer
      <4>2. /\ Table(displays, display', proc', FALSE)
            /\ display'[d].status = "notRunning" /\ display'[d].serverPid # NoPid
        BY <1>3, <2>2, <2>3, <2>6, <2>9, <3>1, <3>2, <4>1, OpenedTable
      <4> QED
        BY <1>1, <1>2, <1>3, <2>1, <3>1, <4>1, <4>2 DEF Inductive, Position, Flags
    <3>3. CASE ~CanOpen(d, e)
      BY <2>3, <2>7, <2>9, <3>1, <3>3 DEF OpenServer
    <3> QED
      BY <3>2, <3>3
  <2>10. CASE ~dt_shutdown /\ ~(d \in Local /\ e.serverPid = NoPid)
    <3>1. ForkSession(d, E[d]) /\ UNCHANGED <<displays, opening, at>>
      BY <2>1, <2>2, <2>10 DEF StartDisplay
    <3>2. Pids(E[d]) = Pids(display[d])
      BY <2>2, <2>3 DEF Pids
    <3>3. Table(displays, display', proc', dt_shutdown)
      BY <1>3, <2>2, <2>3, <2>6, <3>1, <3>2, ForkedTable
    <3>4. missed' \in BOOLEAN
      BY <1>3, <3>1 DEF ForkSession
    <3> QED
      BY <1>3, <1>4, <2>1, <3>1, <3>3, <3>4
  <2> QED
    BY <2>8, <2>9, <2>10
<1> QED
  BY <1>6, <1>7, <1>8

(* The other steps of the daemon that look at the children or the table.    *)
LEMMA ServerStartedInductive ==
  ASSUME Inductive, ServerStarted
  PROVE  Inductive'
<1>1. Table(displays, display, proc, dt_shutdown) /\ Position /\ Flags
  BY DEF Inductive
<1>2. /\ opening \in displays /\ display[opening].status = "notRunning"
      /\ ForkSession(opening, display[opening])
      /\ at' = "start" /\ opening' = "none"
      /\ UNCHANGED <<displays, todo, after, Rescan, ChildReady, dt_shutdown, sockets>>
      /\ display \in [Display -> Entry]
  BY <1>1 DEF ServerStarted, Position, Table
<1>3. Table(displays, display', proc', dt_shutdown)
  BY <1>1, <1>2, ForkedTable
<1>4. missed' \in BOOLEAN
  BY <1>1, <1>2 DEF ForkSession, Flags
<1> QED
  BY <1>1, <1>2, <1>3, <1>4 DEF Inductive, Position, Flags

LEMMA ServerFailedInductive ==
  ASSUME Inductive, ServerFailed
  PROVE  Inductive'
<1> DEFINE p == display[opening].serverPid
           procs == [proc EXCEPT ![p] = Free]
<1>1. Table(displays, display, proc, dt_shutdown) /\ Position /\ Flags
  BY DEF Inductive
<1>2. /\ opening \in displays \ todo /\ opening \in Display
      /\ display[opening].status = "notRunning" /\ p # NoPid
      /\ display[opening] \in Entry
      /\ EntryOK(opening, displays, display[opening], proc, dt_shutdown)
      /\ proc' = procs /\ RemoveDisplay(opening)
      /\ at' = "start" /\ opening' = "none"
      /\ UNCHANGED <<todo, after, Rescan, ChildReady, dt_shutdown, sockets, missed>>
  BY <1>1 DEF ServerFailed, Position, Table
<1>3. p \in Pid
  BY <1>2 DEF Entry
<1>4. Table(displays, display, procs, dt_shutdown)
  BY <1>1, <1>3, BuriedTable
<1>5. procs[p] = Free
  BY <1>1, <1>3 DEF Table
<1>6. ~Lives(procs[p])
  BY <1>5 DEF Lives, Working, Free
<1>7. display[opening].pid # NoPid => ~Working(procs[display[opening].pid])
  BY <1>2, <1>4 DEF Table, EntryOK, SessionKnown
<1>8. Table(displays', display', procs, dt_shutdown)
  <2> HIDE DEF procs
  <2> QED
    BY <1>2, <1>4, <1>6, <1>7, RemovedTable
<1>9. todo' \subseteq displays'
  BY <1>1, <1>2 DEF RemoveDisplay, Position
<1> QED
  BY <1>1, <1>2, <1>8, <1>9 DEF Inductive, Position, Flags

LEMMA OtherReapedInductive ==
  ASSUME Inductive, OtherReaped
  PROVE  Inductive'
<1>1. Table(displays, display, proc, dt_shutdown) /\ Position /\ Flags
  BY DEF Inductive
<1>2. PICK p \in Pid : proc' = [proc EXCEPT ![p] = Free]
  BY DEF OtherReaped
<1>3. missed' = TRUE /\ UNCHANGED <<displays, display, daemon>>
  BY DEF OtherReaped
<1>4. Table(displays, display, proc', dt_shutdown)
  BY <1>1, <1>2, BuriedTable
<1> QED
  BY <1>1, <1>3, <1>4 DEF Inductive, Position, Flags, daemon

LEMMA RescanServersInductive ==
  ASSUME Inductive, RescanServers
  PROVE  Inductive'
<1>1. Table(displays, display, proc, dt_shutdown) /\ Position /\ Flags
  BY DEF Inductive
<1> DEFINE pids == {display[d].pid : d \in displays}
<1>2. /\ proc' = IF NoPid \in pids THEN Signalled(proc, Pid, "SIGHUP to all")
                                   ELSE Signalled(proc, pids, "SIGHUP")
      /\ UNCHANGED <<opening, Rescan, ChildReady, dt_shutdown, sockets, missed>>
      /\ at = "top"
  BY DEF RescanServers
<1>3. PICK file \in Files :
       /\ displays' = displays \cup file
       /\ display' = [d \in Display |->
             IF d \notin displays THEN display[d]
             ELSE [display[d] EXCEPT !.state = IF d \in file THEN "OldEntry"
                                                         ELSE "MissingEntry"]]
       /\ StartDisplays(displays \cup file, "rescan")
  BY DEF RescanServers
<1>4. displays \subseteq Display /\ file \subseteq Display
      /\ display \in [Display -> Entry]
  BY <1>1 DEF Table, Files
<1>5. Table(displays, display, proc', dt_shutdown)
  <2>1. {"SIGHUP", "SIGHUP to all"} \subseteq Signals
    BY DEF Signals
  <2>2. Table(displays, display, Signalled(proc, Pid, "SIGHUP to all"), dt_shutdown)
    BY <1>1, <2>1, SignalledTable
  <2>3. Table(displays, display, Signalled(proc, pids, "SIGHUP"), dt_shutdown)
    <3> HIDE DEF pids
    <3> QED
      BY <1>1, <2>1, SignalledTable
  <2> QED
    BY <1>2, <2>2, <2>3
<1>6. ASSUME NEW d \in Display
      PROVE  /\ display'[d] \in Entry
             /\ d \notin displays => display'[d] = display[d]
             /\ /\ display'[d].pid = display[d].pid
                /\ display'[d].serverPid = display[d].serverPid
                /\ display'[d].status = display[d].status
                /\ display'[d].startTries = display[d].startTries
  <2>1. display[d] \in Entry
    BY <1>4
  <2>2. CASE d \notin displays
    <3>1. display'[d] = display[d]
      BY <1>3, <2>2
    <3> QED
      BY <2>1, <2>2, <3>1
  <2>3. CASE d \in displays
    <3>1. display'[d] = [display[d] EXCEPT !.state = IF d \in file THEN "OldEntry"
                                                         ELSE "MissingEntry"]
      BY <1>3, <2>3
    <3> QED
      BY <2>1, <2>3, <3>1 DEF Entry
  <2> QED
    BY <2>2, <2>3
<1>7. display' \in [Display -> Entry]
  <2>1. display' = [d \in Display |-> display'[d]]
    BY <1>3
  <2> QED
    BY <1>6, <2>1
<1>8. Table(displays', display', proc', dt_shutdown)
  <2>1. displays \subseteq displays' /\ displays' \subseteq Display
    BY <1>3, <1>4
  <2> QED
    BY <1>5, <1>6, <1>7, <2>1, MarkedTable
<1> QED
  BY <1>1, <1>2, <1>3, <1>8 DEF Inductive, Position, Flags, StartDisplays

LEMMA WaitForChildReapInductive ==
  ASSUME Inductive, WaitForChildReap
  PROVE  Inductive'
<1>1. Table(displays, display, proc, dt_shutdown) /\ Position /\ Flags
  BY DEF Inductive
<1>2. /\ at = "reap" /\ at' \in {"reap", "reaped"}
      /\ UNCHANGED <<todo, opening, after, Rescan, ChildReady, dt_shutdown,
                     sockets, missed>>
  BY DEF WaitForChildReap
<1>3. Table(displays', display', proc', dt_shutdown)
  <2>1. CASE \E p \in Pid : Zombie(p) /\ ProcessChildDeath(p)
    BY <1>1, <2>1, DeathTable DEF Flags
  <2>2. CASE UNCHANGED <<displays, display, proc>>
    BY <1>1, <2>2
  <2> QED
    BY <2>1, <2>2 DEF WaitForChildReap
<1> QED
  BY <1>1, <1>2, <1>3 DEF Inductive, Position, Flags

LEMMA WaitForChildBlockInductive ==
  ASSUME Inductive, WaitForChildBlock
  PROVE  Inductive'
<1>1. Table(displays, display, proc, dt_shutdown) /\ Position /\ Flags
  BY DEF Inductive
<1>2. /\ at = "wait" /\ at' = "start" /\ todo' = displays' /\ after' = "top"
      /\ UNCHANGED <<opening, Rescan, ChildReady, dt_shutdown, sockets, missed>>
  BY DEF WaitForChildBlock, StartDisplays
<1>3. Table(displays', display', proc', dt_shutdown)
  <2>1. CASE \E p \in Pid : Zombie(p) /\ ProcessChildDeath(p)
    BY <1>1, <2>1, DeathTable DEF Flags
  <2>2. CASE UNCHANGED <<displays, display, proc>>
    BY <1>1, <2>2
  <2> QED
    BY <2>1, <2>2 DEF WaitForChildBlock
<1> QED
  BY <1>1, <1>2, <1>3 DEF Inductive, Position, Flags

(* The steps that change neither the table nor the children.                *)
LEMMA LoopInductive ==
  ASSUME Inductive,
         \/ StartDisplaysDone \/ WaitForSomething \/ Select \/ Exit
         \/ SelectReturns \/ WaitForChildClear \/ WaitForChildDone
         \/ RescanNotify \/ UNCHANGED vars
  PROVE  Inductive'
<1>1. Table(displays, display, proc, dt_shutdown) /\ Position /\ Flags
  BY DEF Inductive
<1>2. UNCHANGED <<displays, display, proc, opening, dt_shutdown, sockets, missed>>
  BY DEF StartDisplaysDone, WaitForSomething, Select, Exit, SelectReturns,
         WaitForChildClear, WaitForChildDone, RescanNotify, vars, daemon
<1>3. Table(displays', display', proc', dt_shutdown')
  BY <1>1, <1>2
<1>4. Position'
  BY <1>1, <1>2
     DEF Position, StartDisplaysDone, WaitForSomething, Select, Exit, SelectReturns,
         WaitForChildClear, WaitForChildDone, RescanNotify, vars, daemon, StartDisplays
<1>5. Rescan' \in BOOLEAN /\ ChildReady' \in BOOLEAN
  BY <1>1
     DEF Flags, StartDisplaysDone, WaitForSomething, Select, Exit, SelectReturns,
         WaitForChildClear, WaitForChildDone, RescanNotify, vars, daemon
<1> QED
  BY <1>1, <1>2, <1>3, <1>4, <1>5 DEF Inductive, Flags

(* SIGTERM, which is taken where the daemon blocks.                         *)
LEMMA StopAllInductive ==
  ASSUME Inductive, StopAll
  PROVE  Inductive'
<1>1. Table(displays, display, proc, dt_shutdown) /\ Position /\ Flags
  BY DEF Inductive
<1>2. /\ at \in {"select", "wait", "sleep"} /\ sockets' = FALSE /\ dt_shutdown' = TRUE
      /\ StopDisplays(displays, display, proc, TRUE)
      /\ UNCHANGED <<at, todo, opening, after, Rescan, ChildReady, missed>>
  BY DEF StopAll, Blocked
<1>3. \A d \in Display \ displays : ServerKnown(d, display[d], proc, TRUE)
  BY <1>1 DEF Table, EntryOK, ServerKnown, NewDisplay
<1>4. Table(displays', display', proc', TRUE)
  BY <1>1, <1>2, <1>3, StoppedTable DEF Table
<1> QED
  BY <1>1, <1>2, <1>4 DEF Inductive, Position, Flags

(* A child goes on or dies.                                                 *)
LEMMA ChildTable ==
  ASSUME Table(displays, display, proc, dt_shutdown), NEW p \in Pid, NEW c \in Child,
         c.phase # "leaving",
         Working(c) => Working(proc[p]),
         c.phase = "dead" /\ p[2] = "session" => c.code \in Code \ {"dead"},
         NEW Q, Q = [proc EXCEPT ![p] = c]
  PROVE  Table(displays, display, Q, dt_shutdown)
<1>1. /\ Q \in [Pid -> Child] /\ Q[p] = c
      /\ \A q \in Pid \ {p} : Q[q] = proc[q]
  BY DEF Table
<1>2. ASSUME NEW d \in Display PROVE EntryOK(d, displays, display[d], Q, dt_shutdown)
  <2>1. EntryOK(d, displays, display[d], proc, dt_shutdown) /\ display[d] \in Entry
    BY DEF Table
  <2>2. /\ display[d].pid # NoPid => display[d].pid \in Pid
        /\ display[d].serverPid # NoPid => display[d].serverPid \in Pid
    BY <2>1 DEF Entry
  <2>3. SessionKnown(d, display[d], Q)
    BY <1>1, <2>1, <2>2 DEF EntryOK, SessionKnown
  <2>4. ServerKnown(d, display[d], Q, dt_shutdown)
    BY <1>1, <2>1, <2>2 DEF EntryOK, ServerKnown
  <2> QED
    BY <2>1, <2>3, <2>4 DEF EntryOK
<1>3. ASSUME NEW q \in Pid PROVE ChildOK(q, displays, display, Q)
  BY <1>1 DEF Table, ChildOK, Lives
<1> QED
  BY <1>1, <1>2, <1>3 DEF Table

LEMMA SessionAdvancesInductive ==
  ASSUME Inductive, SessionAdvances
  PROVE  Inductive'
<1>1. Table(displays, display, proc, dt_shutdown) /\ Position /\ Flags
  BY DEF Inductive
<1>2. UNCHANGED <<displays, display, daemon, missed>>
  BY DEF SessionAdvances
<1>3. PICK p \in Pid : /\ proc[p].phase \in {"early", "greeter"}
                       /\ \/ proc' = [proc EXCEPT ![p].phase = "greeter"]
                          \/ proc' = [proc EXCEPT ![p].phase = "user"]
  BY DEF SessionAdvances
<1>4. PICK phase \in {"greeter", "user"} : proc' = [proc EXCEPT ![p].phase = phase]
  BY <1>3
<1> DEFINE c == [proc[p] EXCEPT !.phase = phase]
<1>5. proc' = [proc EXCEPT ![p] = c] /\ proc[p] \in Child
  BY <1>1, <1>4 DEF Table
<1>6. c \in Child /\ c.phase = phase /\ Working(proc[p])
  BY <1>3, <1>5 DEF Child, Working
<1> HIDE DEF c
<1>7. Table(displays, display, proc', dt_shutdown)
  BY <1>1, <1>5, <1>6, ChildTable
<1> QED
  BY <1>1, <1>2, <1>7 DEF Inductive, Position, Flags, daemon

LEMMA ChildDiesInductive ==
  ASSUME Inductive, NEW p \in Pid, ChildDies(p)
  PROVE  Inductive'
<1>1. Table(displays, display, proc, dt_shutdown) /\ Position /\ Flags
  BY DEF Inductive
<1>2. PICK code \in IF Working(proc[p]) THEN ExitCodes(p) ELSE {proc[p].code} :
       proc' = [proc EXCEPT ![p] = [phase |-> "dead", code |-> code]]
  BY DEF ChildDies
<1>3. /\ Alive(p) /\ UNCHANGED <<displays, display, at, todo, opening, after, Rescan,
                                 dt_shutdown, sockets>>
      /\ ChildReady' \in BOOLEAN /\ missed' \in BOOLEAN
  BY <1>1 DEF ChildDies, Flags
<1>4. proc[p] \in Child /\ ChildOK(p, displays, display, proc)
  BY <1>1 DEF Table
<1>5. code \in Code \cup {"none"} /\ (p[2] = "session" => code \in Code \ {"dead"})
  <2>1. CASE Working(proc[p])
    <3>1. code \in ExitCodes(p) /\ proc[p].phase \in {"early", "greeter", "user"}
      BY <1>2, <2>1 DEF Working
    <3>2. CASE p[2] = "server"
      BY <3>1, <3>2 DEF ExitCodes, Code
    <3>3. CASE p[2] # "server" /\ proc[p].phase = "early"
      BY <3>1, <3>3 DEF ExitCodes, Code
    <3>4. CASE p[2] # "server" /\ proc[p].phase = "greeter"
      BY <3>1, <3>4 DEF ExitCodes, Code
    <3>5. CASE p[2] # "server" /\ proc[p].phase = "user"
      BY <3>1, <3>5 DEF ExitCodes, Code
    <3> QED
      BY <3>1, <3>2, <3>3, <3>4, <3>5
  <2>2. CASE ~Working(proc[p])
    <3>1. code = proc[p].code /\ proc[p].phase = "leaving"
      BY <1>2, <1>3, <2>2 DEF Alive
    <3> QED
      BY <1>4, <3>1 DEF ChildOK, Child
  <2> QED
    BY <2>1, <2>2
<1> DEFINE c == [phase |-> "dead", code |-> code]
<1>6. c \in Child /\ c.phase = "dead" /\ c.code = code /\ ~Working(c)
      /\ proc' = [proc EXCEPT ![p] = c]
  BY <1>2, <1>5 DEF Child, Working
<1> HIDE DEF c
<1>7. Table(displays, display, proc', dt_shutdown)
  BY <1>1, <1>5, <1>6, ChildTable
<1> QED
  BY <1>1, <1>3, <1>7 DEF Inductive, Position, Flags

LEMMA StepInductive == Inductive /\ [Next]_vars => Inductive'
<1> SUFFICES ASSUME Inductive, [Next]_vars PROVE Inductive'
  OBVIOUS
<1>1. CASE CheckDisplayStatus
  BY <1>1, CheckDisplayStatusInductive
<1>2. CASE ServerStarted
  BY <1>2, ServerStartedInductive
<1>3. CASE ServerFailed
  BY <1>3, ServerFailedInductive
<1>4. CASE OtherReaped
  BY <1>4, OtherReapedInductive
<1>5. CASE RescanServers
  BY <1>5, RescanServersInductive
<1>6. CASE WaitForChildReap
  BY <1>6, WaitForChildReapInductive
<1>7. CASE WaitForChildBlock
  BY <1>7, WaitForChildBlockInductive
<1>8. CASE \/ StartDisplaysDone \/ WaitForSomething \/ Select \/ Exit
           \/ SelectReturns \/ WaitForChildClear \/ WaitForChildDone
           \/ RescanNotify \/ UNCHANGED vars
  BY <1>8, LoopInductive
<1>9. CASE StopAll
  BY <1>9, StopAllInductive
<1>10. CASE SessionAdvances
  BY <1>10, SessionAdvancesInductive
<1>11. CASE \E p \in Pid : ChildDies(p)
  BY <1>11, ChildDiesInductive
<1> QED
  BY <1>1, <1>2, <1>3, <1>4, <1>5, <1>6, <1>7, <1>8, <1>9, <1>10, <1>11
     DEF Next, Daemon

LEMMA AlwaysInductive == Spec => []Inductive
<1> QED
  BY InitInductive, StepInductive, PTL DEF Spec

-----------------------------------------------------------------------------
(* What follows from it.                                                    *)

(* Every variable keeps its type; startTries does not exceed startAttempts. *)
THEOREM TypeCorrect == Spec => []TypeOK
<1>1. Inductive => TypeOK
  BY DEF Inductive, Table, Position, Flags, TypeOK, Entry, Child
<1> QED
  BY <1>1, AlwaysInductive, PTL

(* A server that runs is the one on record of a display in the table.       *)
THEOREM ServersKnown == Spec => []NoOrphanServer
<1>1. Inductive => NoOrphanServer
  BY DEF Inductive, Table, ChildOK, NoOrphanServer, Alive, Lives
<1> QED
  BY <1>1, AlwaysInductive, PTL

(* A session at work is the one on record, and its server has not been told *)
(* to end.                                                                  *)
THEOREM OneSessionEach == Spec => []OneSession
<1>1. ASSUME Inductive, NEW p \in Pid, p[2] = "session", Working(proc[p])
      PROVE  /\ p[1] \in displays /\ display[p[1]].pid = p
             /\ display[p[1]].serverPid # NoPid =>
                  proc[display[p[1]].serverPid].phase # "leaving"
  <2>1. p[1] \in displays /\ display[p[1]].pid = p /\ p[1] \in Display /\ p # NoPid
    BY <1>1, PidParts DEF Inductive, Table, ChildOK
  <2>2. EntryOK(p[1], displays, display[p[1]], proc, dt_shutdown)
    BY <1>1, <2>1 DEF Inductive, Table
  <2>3. display[p[1]].status = "running"
    BY <1>1, <2>1, <2>2 DEF EntryOK, SessionKnown
  <2> QED
    BY <2>1, <2>2, <2>3 DEF EntryOK, ServerKnown
<1>2. Inductive => OneSession
  BY <1>1 DEF OneSession
<1> QED
  BY <1>2, AlwaysInductive, PTL
=============================================================================
