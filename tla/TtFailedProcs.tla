---------------------------- MODULE TtFailedProcs ----------------------------
(***************************************************************************)
(* How ttsession hears of processes that it started and that died before   *)
(* they answered.  The handler of SIGCHLD runs between any two steps of    *)
(* the main loop.  It may not allocate memory, so it writes the pid into a *)
(* ring of MAXPIDS slots, which notify_start_failure empties when the main *)
(* loop gets round to it.                                                  *)
(*                                                                         *)
(* TtServer has the ring as a set and the main loop in one step; here they *)
(* are as in the code, and what a request does is reduced to starting a    *)
(* ptype or hearing from one.                                              *)
(*                                                                         *)
(* The code does lose sight of some launches: fork() may fail, and of      *)
(* children that die together only as many are waited for as signals came. *)
(* Two history variables, adrift and merged, say which; no guard reads     *)
(* them.                                                                   *)
(***************************************************************************)
EXTENDS Naturals, Sequences, FiniteSets

CONSTANTS
    Pid, NoPid,
    Ptype,
    MAXPIDS,        \* slots of the ring
    Backlog         \* bound: deaths recorded before they are consumed

ASSUME PidAssumption == NoPid \notin Pid
ASSUME SizeAssumption == MAXPIDS \in Nat \ {0} /\ Backlog \in Nat

VARIABLES
    child,          \* the operating system's view of a pid
    sigchld,        \* SIGCHLD is pending
    failed_procs, fin, fout,
    exit_main_loop,
    at,             \* where the main loop is
    launching, start_pid,
    merged,         \* history: dead children whose SIGCHLD merged with another's
    adrift          \* history: ptypes that are launching with no process of theirs

sigvars == <<child, sigchld, merged>>
ring == <<failed_procs, fin, fout>>
ptypes == <<launching, start_pid, adrift>>
vars == <<child, sigchld, merged, failed_procs, fin, fout, exit_main_loop, at,
          launching, start_pid, adrift>>

Slot == 0 .. MAXPIDS - 1

(* Mutant of Advance: the index does not wrap round.                       *)
AdvanceOn(i) == i + 1

(* Indexes wrap round to 0 when they reach MAXPIDS.                        *)
Advance(i) == IF i + 1 = MAXPIDS THEN 0 ELSE i + 1

(* The deaths in the ring, oldest first.                                   *)
Count == IF fout <= fin THEN fin - fout ELSE MAXPIDS - fout + fin

Nth(i) == IF fout + i - 1 < MAXPIDS THEN fout + i - 1 ELSE fout + i - 1 - MAXPIDS

Pending == [i \in 1 .. Count |-> failed_procs[Nth(i)]]

Recorded(p) == \E i \in DOMAIN Pending : Pending[i] = p

Init ==
  /\ child = [p \in Pid |-> "none"] /\ sigchld = FALSE
  /\ failed_procs = [i \in Slot |-> NoPid] /\ fin = 0 /\ fout = 0
  /\ exit_main_loop = FALSE
  /\ at = "top"
  /\ launching = [t \in Ptype |-> FALSE]
  /\ start_pid = [t \in Ptype |-> NoPid]
  /\ merged = 0 /\ adrift = {}

-----------------------------------------------------------------------------
(* Processes and the signal handler.                                       *)

(* A SIGCHLD that is pending already is not raised a second time.          *)
Exit(p) ==
  /\ child[p] = "alive"
  /\ child' = [child EXCEPT ![p] = "zombie"]
  /\ sigchld' = TRUE
  /\ merged' = IF sigchld THEN merged + 1 ELSE merged
  /\ UNCHANGED <<ring, exit_main_loop, at, ptypes>>

(* Mutant of Record: the index is moved before the slot is written.        *)
RecordLate(p) ==
  /\ failed_procs' = [failed_procs EXCEPT ![Advance(fin)] = p]
  /\ fin' = Advance(fin)

Record(p) ==
  /\ failed_procs' = [failed_procs EXCEPT ![fin] = p]
  /\ fin' = Advance(fin)

Zombies == {p \in Pid : child[p] = "zombie"}

(* Mutant of WaitFor: waitpid() in a loop of which one pid is kept.        *)
WaitForAll(p) == child' = [q \in Pid |-> IF q \in Zombies THEN "none" ELSE child[q]]

WaitFor(p) == child' = [child EXCEPT ![p] = "none"]

(* sig_handler: one waitpid() for each signal, also when several children  *)
(* died.  A signal that arrives in select() ends it.                       *)
SigHandler ==
  /\ sigchld
  /\ Count < Backlog
  /\ sigchld' = FALSE
  /\ \E p \in Zombies : WaitFor(p) /\ Record(p)
  /\ exit_main_loop' = TRUE
  /\ at' = IF at = "select" THEN "main_loop" ELSE at
  /\ UNCHANGED <<merged, fout, ptypes>>

-----------------------------------------------------------------------------
(* The main loop.                                                          *)

(* Mutant of Failed: fout is taken for the last slot that was processed.   *)
FailedNext(t) == launching[t] /\ start_pid[t] = failed_procs[Advance(fout)]

Failed(t) == launching[t] /\ start_pid[t] = failed_procs[fout]

(* notify_start_failure, one entry: the launch that failed, if the process *)
(* was one of those, and the next slot.  If a ptype whose fork() failed    *)
(* last launched a process of the same pid, the death may be taken for     *)
(* that one's, and then the launch it did end has no process left.         *)
NotifyStartFailure ==
  /\ at \in {"notify", "returned"} /\ fout # fin
  /\ IF \E t \in Ptype : Failed(t)
     THEN \E t \in Ptype :
            /\ Failed(t)
            /\ launching' = [launching EXCEPT ![t] = FALSE]
            /\ adrift' = (adrift \union {u \in Ptype : Failed(u)}) \ {t}
     ELSE UNCHANGED <<launching, adrift>>
  /\ fout' = Advance(fout)
  /\ UNCHANGED <<sigvars, failed_procs, fin, exit_main_loop, at, start_pid>>

Top ==
  /\ at = "top" /\ at' = "notify"
  /\ exit_main_loop' = FALSE
  /\ UNCHANGED <<sigvars, ring, ptypes>>

Notified ==
  /\ fout = fin
  /\ \/ at = "notify" /\ at' = "main_loop"
     \/ at = "returned" /\ at' = "top"
  /\ UNCHANGED <<sigvars, ring, exit_main_loop, ptypes>>

(* Mutant of Leave: the flag counts only once the ring is empty.           *)
LeaveLate == exit_main_loop /\ fin = fout

Leave == exit_main_loop \/ fin # fout

MainLoop ==
  /\ at = "main_loop"
  /\ at' = IF Leave THEN "returned" ELSE "run_until"
  /\ UNCHANGED <<sigvars, ring, exit_main_loop, ptypes>>

(* Between the check and select() a signal wakes nobody.                   *)
Block ==
  /\ at = "run_until" /\ at' = "select"
  /\ UNCHANGED <<sigvars, ring, exit_main_loop, ptypes>>

Request ==
  /\ at = "select" /\ at' = "serve"
  /\ UNCHANGED <<sigvars, ring, exit_main_loop, ptypes>>

(* _Tt_ptype::launch, when fork() works.  A pid is not used again while it *)
(* is in the ring.                                                         *)
Launch(t, p) ==
  /\ ~launching[t]
  /\ child[p] = "none" /\ ~Recorded(p)
  /\ child' = [child EXCEPT ![p] = "alive"]
  /\ launching' = [launching EXCEPT ![t] = TRUE]
  /\ start_pid' = [start_pid EXCEPT ![t] = p]
  /\ UNCHANGED adrift

(* ... when it does not: the flag stays set, the pid is the last launch's. *)
ForkFails(t) ==
  /\ ~launching[t]
  /\ launching' = [launching EXCEPT ![t] = TRUE]
  /\ adrift' = adrift \union {t}
  /\ UNCHANGED <<child, start_pid>>

(* _Tt_ptype::proc_replied.                                                *)
ProcReplied(t) ==
  /\ launching[t]
  /\ launching' = [launching EXCEPT ![t] = FALSE]
  /\ adrift' = adrift \ {t}
  /\ UNCHANGED <<child, start_pid>>

(* run_until serves the request and stays in its own loop until the flag   *)
(* is set; a lost channel ends it in any case.                             *)
Serve ==
  /\ at = "serve"
  /\ at' \in (IF exit_main_loop THEN {"main_loop"} ELSE {"main_loop", "run_until"})
  /\ \/ \E t \in Ptype, p \in Pid : Launch(t, p)
     \/ \E t \in Ptype : ForkFails(t) \/ ProcReplied(t)
     \/ UNCHANGED <<child, ptypes>>
  /\ UNCHANGED <<sigchld, merged, ring, exit_main_loop>>

-----------------------------------------------------------------------------
Server == NotifyStartFailure \/ Top \/ Notified \/ MainLoop \/ Block \/ Serve

Next ==
  \/ \E p \in Pid : Exit(p)
  \/ SigHandler \/ Request \/ Server

Spec == Init /\ [][Next]_vars

(* The main loop runs.  That a request or a signal arrives is not assumed. *)
Fairness == WF_vars(Server) /\ WF_vars(SigHandler)

-----------------------------------------------------------------------------
(* Properties.                                                             *)

TypeOK ==
  /\ child \in [Pid -> {"none", "alive", "zombie"}] /\ sigchld \in BOOLEAN
  /\ failed_procs \in [Slot -> Pid \union {NoPid}]
  /\ fin \in Slot /\ fout \in Slot
  /\ exit_main_loop \in BOOLEAN
  /\ at \in {"top", "notify", "main_loop", "run_until", "select", "serve",
             "returned"}
  /\ launching \in [Ptype -> BOOLEAN]
  /\ start_pid \in [Ptype -> Pid \union {NoPid}]
  /\ merged \in Nat /\ adrift \subseteq {t \in Ptype : launching[t]}

(* Only merging loses a death: in every interleaving of deaths with the    *)
(* handler there are as many zombies as signals that merged, and one more  *)
(* while a signal is pending.  sig_handler neither waits for a child that  *)
(* it does not count nor uses up a signal without waiting for one.         *)
OnlyMergedUnheard ==
  Cardinality(Zombies) = merged + (IF sigchld THEN 1 ELSE 0)

(* A ptype whose fork() worked and that is still launching has a process   *)
(* that lives, or its death is in the ring, or nobody waited for it yet,   *)
(* and then SIGCHLD is pending or has merged with another's: however the   *)
(* handler and the main loop interleave, no launch is forgotten in another *)
(* way.  With merged = 0 this says that the death will be heard of.        *)
LaunchFailureKnown ==
  \A t \in Ptype : launching[t] /\ t \notin adrift =>
    \/ child[start_pid[t]] = "alive"
    \/ Recorded(start_pid[t])
    \/ start_pid[t] \in Zombies /\ (sigchld \/ merged > 0)

(* The ring is a queue: nothing that was recorded is lost, heard of twice  *)
(* or out of order (the comment of failed_procs in mp_server.C: "if more   *)
(* than MAXPIDS processes are entered into failed_procs before they are    *)
(* consumed by notify_start_failure then some of the failed processes      *)
(* won't get handled properly").                                           *)
Deaths == INSTANCE TtDeaths WITH queue <- Pending
KeepsEveryDeath == Deaths!Spec

(* While clients go on sending requests, a recorded death ends the launch  *)
(* it belongs to, although the signal may arrive just before select();     *)
(* the exception is a death that was taken for the one of a ptype that is  *)
(* adrift.                                                                 *)
HeardWhileServing ==
  []<><<Request>>_vars =>
    \A t \in Ptype :
      (launching[t] /\ t \notin adrift /\ Recorded(start_pid[t]))
        ~> (~launching[t] \/ t \in adrift)

=============================================================================
