------------------------- MODULE TtFailedProcsProofs -------------------------
(***************************************************************************)
(* Proofs about TtFailedProcs, for any number of processes, ptypes and     *)
(* slots.  What the signal handler and the main loop share is the ring:    *)
(* the lemmas say which slots the deaths in it occupy, and that recording  *)
(* one is Append and processing one is Tail as long as the ring is never   *)
(* filled (Backlog < MAXPIDS).                                             *)
(***************************************************************************)
EXTENDS TtFailedProcs, SequenceTheorems, FiniteSetTheorems, TLAPS

(* Every step leaves every variable in its type, whatever Backlog is.      *)
LEMMA AdvanceInSlot == ASSUME NEW i \in Slot PROVE Advance(i) \in Slot
  BY SizeAssumption DEF Advance, Slot

LEMMA TypeInit == Init => TypeOK
<1> SUFFICES ASSUME Init PROVE TypeOK
  OBVIOUS
<1>1. 0 \in Slot
  BY SizeAssumption DEF Slot
<1>2. fin \in Slot /\ fout \in Slot /\ failed_procs \in [Slot -> Pid \union {NoPid}]
  BY <1>1 DEF Init
<1>3. launching \in [Ptype -> BOOLEAN]
  BY DEF Init
<1> QED
  BY <1>2, <1>3 DEF Init, TypeOK

LEMMA TypeStep == TypeOK /\ [Next]_vars => TypeOK'
<1> SUFFICES ASSUME TypeOK, [Next]_vars PROVE TypeOK'
  OBVIOUS
<1> USE DEF TypeOK
<1>1. ASSUME NEW p \in Pid, Exit(p) PROVE TypeOK'
  BY <1>1 DEF Exit, ring, ptypes
<1>2. CASE SigHandler
  <2>1. PICK p \in Pid : WaitFor(p) /\ Record(p)
    BY <1>2 DEF SigHandler, Zombies
  <2>2. fin' \in Slot /\ failed_procs' \in [Slot -> Pid \union {NoPid}]
    BY <2>1, AdvanceInSlot DEF Record
  <2> QED
    BY <1>2, <2>1, <2>2 DEF SigHandler, WaitFor, ptypes
<1>3. CASE NotifyStartFailure
  <2>1. fout' \in Slot /\ UNCHANGED <<sigvars, failed_procs, fin, exit_main_loop, at, start_pid>>
    BY <1>3, AdvanceInSlot DEF NotifyStartFailure
  <2>2. ASSUME NEW t \in Ptype, launching' = [launching EXCEPT ![t] = FALSE],
               adrift' = (adrift \union {u \in Ptype : Failed(u)}) \ {t}
        PROVE  TypeOK'
    <3>1. launching' \in [Ptype -> BOOLEAN]
      BY <2>2
    <3>2. adrift' \subseteq {u \in Ptype : launching'[u]}
      BY <2>2 DEF Failed
    <3> QED
      BY <2>1, <3>1, <3>2 DEF sigvars
  <2>3. CASE UNCHANGED <<launching, adrift>>
    BY <2>1, <2>3 DEF sigvars
  <2> QED
    BY <1>3, <2>2, <2>3 DEF NotifyStartFailure
<1>4. CASE Serve
  <2>1. /\ at' \in {"main_loop", "run_until"}
        /\ UNCHANGED <<sigchld, merged, ring, exit_main_loop>>
    BY <1>4 DEF Serve
  <2>2. ASSUME NEW t \in Ptype, NEW p \in Pid, Launch(t, p)
        PROVE  TypeOK'
    <3>1. adrift' \subseteq {u \in Ptype : launching'[u]}
      BY <2>2 DEF Launch
    <3> QED
      BY <2>1, <2>2, <3>1 DEF Launch, ring
  <2>3. ASSUME NEW t \in Ptype, ForkFails(t) PROVE TypeOK'
    <3>1. adrift' \subseteq {u \in Ptype : launching'[u]}
      BY <2>3 DEF ForkFails
    <3> QED
      BY <2>1, <2>3, <3>1 DEF ForkFails, ring
  <2>4. ASSUME NEW t \in Ptype, ProcReplied(t) PROVE TypeOK'
    <3>1. adrift' \subseteq {u \in Ptype : launching'[u]}
      BY <2>4 DEF ProcReplied
    <3> QED
      BY <2>1, <2>4, <3>1 DEF ProcReplied, ring
  <2>5. CASE UNCHANGED <<child, ptypes>>
    BY <2>1, <2>5 DEF ring, ptypes
  <2> QED
    BY <1>4, <2>2, <2>3, <2>4, <2>5 DEF Serve
<1>5. CASE Top \/ Notified \/ MainLoop \/ Block \/ Request
  BY <1>5 DEF Top, Notified, MainLoop, Block, Request, sigvars, ring, ptypes
<1>6. CASE UNCHANGED vars
  BY <1>6 DEF vars
<1> QED
  BY <1>1, <1>2, <1>3, <1>4, <1>5, <1>6 DEF Next, Server

(* Type correctness of the ring, the main loop and the launches.           *)
THEOREM TypeCorrect == Spec => []TypeOK
  BY TypeInit, TypeStep, PTL DEF Spec

-----------------------------------------------------------------------------
(* The ring.                                                               *)

LEMMA CountRange == TypeOK => Count \in 0 .. MAXPIDS - 1
  BY SizeAssumption DEF TypeOK, Slot, Count

LEMMA NthInSlot ==
  ASSUME TypeOK, NEW i \in 1 .. MAXPIDS PROVE Nth(i) \in Slot
  BY SizeAssumption DEF TypeOK, Slot, Nth

LEMMA NthAfterLast == TypeOK => Nth(Count + 1) = fin
  BY SizeAssumption DEF TypeOK, Slot, Nth, Count

LEMMA NthBeforeFin ==
  ASSUME TypeOK, NEW i \in 1 .. Count PROVE Nth(i) # fin
  BY SizeAssumption DEF TypeOK, Slot, Nth, Count

LEMMA NthFirst == TypeOK => Nth(1) = fout
  BY SizeAssumption DEF TypeOK, Slot, Nth

IsQueue ==
  /\ Pending \in Seq(Pid \union {NoPid})
  /\ Len(Pending) = Count
  /\ DOMAIN Pending = 1 .. Count
  /\ \A i \in 1 .. Count : Pending[i] = failed_procs[Nth(i)]

LEMMA PendingIsQueue == TypeOK => IsQueue
<1> USE DEF IsQueue
<1> SUFFICES ASSUME TypeOK PROVE
              /\ Pending \in [1 .. Count -> Pid \union {NoPid}] /\ Count \in Nat
              /\ \A i \in 1 .. Count : Pending[i] = failed_procs[Nth(i)]
  OBVIOUS
<1>1. Count \in 0 .. MAXPIDS - 1
  BY CountRange
<1>2. ASSUME NEW i \in 1 .. Count PROVE failed_procs[Nth(i)] \in Pid \union {NoPid}
  <2>1. i \in 1 .. MAXPIDS
    BY <1>1, SizeAssumption
  <2> QED
    BY <2>1, NthInSlot DEF TypeOK
<1> QED
  BY <1>1, <1>2, SizeAssumption DEF Pending

LEMMA PendingStaysQueue == TypeOK' => IsQueue'
  BY PendingIsQueue, PTL

(* Recording a death appends it.                                           *)
LEMMA RecordAppends ==
  ASSUME TypeOK, NEW p \in Pid, Record(p), fout' = fout, Count < MAXPIDS - 1
  PROVE  TypeOK' => Pending' = Append(Pending, p)
<1> SUFFICES ASSUME TypeOK' PROVE Pending' = Append(Pending, p)
  OBVIOUS
<1>1. Count \in Nat /\ Count' = Count + 1
  BY SizeAssumption DEF TypeOK, Slot, Count, Record, Advance
<1>2. \A i : Nth(i)' = Nth(i)
  BY DEF Nth
<1>3. IsQueue /\ IsQueue'
  BY PendingIsQueue, PendingStaysQueue
<1>4. ASSUME NEW i \in 1 .. Count PROVE Pending'[i] = Pending[i]
  <2>1. Nth(i) \in Slot /\ Nth(i) # fin
    BY NthInSlot, NthBeforeFin, CountRange, SizeAssumption
  <2>2. failed_procs'[Nth(i)] = failed_procs[Nth(i)]
    BY <2>1 DEF TypeOK, Record
  <2>3. i \in 1 .. Count'
    BY <1>1
  <2> QED
    BY <2>2, <2>3, <1>2, <1>3 DEF IsQueue
<1>5. ASSUME NEW i, i = Count + 1 PROVE Pending'[i] = p
  <2>1. Nth(i)' = fin
    BY <1>2, <1>5, NthAfterLast
  <2>2. i \in 1 .. Count'
    BY <1>1, <1>5
  <2>3. failed_procs'[fin] = p
    BY DEF TypeOK, Record
  <2> QED
    BY <2>1, <2>2, <2>3, <1>3 DEF IsQueue
<1>6. /\ Append(Pending, p) \in Seq(Pid \union {NoPid})
      /\ Len(Append(Pending, p)) = Count + 1
      /\ \A i \in 1 .. Count : Append(Pending, p)[i] = Pending[i]
      /\ Append(Pending, p)[Count + 1] = p
  BY <1>3, AppendProperties DEF IsQueue
<1>7. ASSUME NEW i \in 1 .. Count + 1 PROVE Pending'[i] = Append(Pending, p)[i]
  <2>1. CASE i \in 1 .. Count
    <3>1. Pending'[i] = Pending[i]
      BY <2>1, <1>4
    <3>2. Append(Pending, p)[i] = Pending[i]
      BY <2>1, <1>6
    <3> QED
      BY <3>1, <3>2
  <2>2. CASE i = Count + 1
    BY <2>2, <1>5, <1>6
  <2>3. i \in 1 .. Count \/ i = Count + 1
    BY <1>1
  <2> QED
    BY <2>1, <2>2, <2>3
<1>8. Pending' \in Seq(Pid \union {NoPid}) /\ Len(Pending') = Count + 1
  BY <1>1, <1>3 DEF IsQueue
<1> QED
  BY <1>6, <1>7, <1>8, SeqEqual

(* Processing one takes the first off.                                     *)
LEMMA AdvanceTakesFirst ==
  ASSUME TypeOK, TypeOK', fout # fin, fout' = Advance(fout),
         UNCHANGED <<failed_procs, fin>>
  PROVE  /\ Pending # <<>> /\ Pending' = Tail(Pending)
         /\ Count > 0 /\ Count' = Count - 1
         /\ Pending[1] = failed_procs[fout]
<1>1. Count \in Nat /\ Count > 0 /\ Count' = Count - 1
  BY SizeAssumption DEF TypeOK, Slot, Count, Advance
<1>2. ASSUME NEW i \in 1 .. Count - 1 PROVE Nth(i)' = Nth(i + 1)
  BY <1>1, SizeAssumption DEF TypeOK, Slot, Nth, Advance, Count
<1>3. IsQueue /\ IsQueue'
  BY PendingIsQueue, PendingStaysQueue
<1>4. Pending # <<>>
  BY <1>1, <1>3 DEF IsQueue
<1>5. /\ Tail(Pending) \in Seq(Pid \union {NoPid})
      /\ Len(Tail(Pending)) = Count - 1
      /\ \A i \in 1 .. Count - 1 : Tail(Pending)[i] = Pending[i + 1]
  BY <1>3, <1>4, HeadTailProperties DEF IsQueue
<1>6. ASSUME NEW i \in 1 .. Count - 1 PROVE Pending'[i] = Tail(Pending)[i]
  <2>1. i \in 1 .. Count' /\ i + 1 \in 1 .. Count
    BY <1>1
  <2>2. Pending'[i] = failed_procs'[Nth(i)']
    BY <2>1, <1>3 DEF IsQueue
  <2>3. Pending[i + 1] = failed_procs[Nth(i + 1)]
    BY <2>1, <1>3 DEF IsQueue
  <2> QED
    BY <2>2, <2>3, <1>2, <1>5
<1>7. Pending' \in Seq(Pid \union {NoPid}) /\ Len(Pending') = Count - 1
  BY <1>1, <1>3 DEF IsQueue
<1>8. Pending' = Tail(Pending)
  BY <1>5, <1>6, <1>7, SeqEqual
<1>9. Pending[1] = failed_procs[fout]
  BY <1>1, <1>3, NthFirst DEF IsQueue
<1> QED
  BY <1>1, <1>4, <1>8, <1>9

LEMMA RingUnchanged ==
  UNCHANGED ring => Pending' = Pending /\ \A p : Recorded(p)' <=> Recorded(p)
<1> SUFFICES ASSUME UNCHANGED ring
             PROVE  Pending' = Pending /\ \A p : Recorded(p)' <=> Recorded(p)
  OBVIOUS
<1>1. Pending' = Pending
  BY DEF ring, Pending, Count, Nth
<1> QED
  BY <1>1 DEF Recorded

(* As long as the ring is never filled it is a queue: what the signal      *)
(* handler recorded is handed over once and in order (failed_procs of      *)
(* mp_server.C, sig_handler and notify_start_failure).                     *)
THEOREM RingKeepsEveryDeath ==
  ASSUME Backlog < MAXPIDS PROVE Spec => KeepsEveryDeath
<1>1. Init => Deaths!Init
  <2> SUFFICES ASSUME Init PROVE Pending = <<>>
    BY DEF Deaths!Init
  <2>1. Count = 0 /\ TypeOK
    BY TypeInit DEF Init, Count
  <2> QED
    BY <2>1, PendingIsQueue DEF IsQueue
<1>2. TypeOK /\ TypeOK' /\ [Next]_vars => [Deaths!Next]_Pending
  <2> SUFFICES ASSUME TypeOK, TypeOK', [Next]_vars
               PROVE  Deaths!Next \/ Pending' = Pending
    OBVIOUS
  <2>1. CASE SigHandler
    <3>1. PICK p \in Pid : Record(p)
      BY <2>1 DEF SigHandler, Zombies
    <3>2. Count < MAXPIDS - 1 /\ fout' = fout
      BY <2>1, SizeAssumption, CountRange DEF SigHandler
    <3>3. Pending' = Append(Pending, p)
      BY <3>1, <3>2, RecordAppends
    <3> QED
      BY <3>3 DEF Deaths!Next, Deaths!Record
  <2>2. CASE NotifyStartFailure
    <3>1. Pending # <<>> /\ Pending' = Tail(Pending)
      BY <2>2, AdvanceTakesFirst DEF NotifyStartFailure
    <3> QED
      BY <3>1 DEF Deaths!Next, Deaths!HandOver
  <2>3. ASSUME UNCHANGED ring PROVE Pending' = Pending
    BY <2>3, RingUnchanged
  <2>4. (\E p \in Pid : Exit(p)) => UNCHANGED ring
    BY DEF Exit
  <2>5. Serve => UNCHANGED ring
    BY DEF Serve
  <2>6. Top \/ Notified \/ MainLoop \/ Block \/ Request \/ UNCHANGED vars => UNCHANGED ring
    BY DEF Top, Notified, MainLoop, Block, Request, vars, ring
  <2> QED
    BY <2>1, <2>2, <2>3, <2>4, <2>5, <2>6 DEF Next, Server
<1> QED
  BY <1>1, <1>2, TypeCorrect, PTL DEF Spec, KeepsEveryDeath, Deaths!Spec

-----------------------------------------------------------------------------
(* Deaths and signals.  A zombie more for every death, a zombie less for   *)
(* every run of the handler, which takes the pending signal with it.       *)

Counted == IsFiniteSet(Zombies) /\ OnlyMergedUnheard

LEMMA CountedInit == Init => Counted
<1> SUFFICES ASSUME Init PROVE Counted
  OBVIOUS
<1>1. Zombies = {}
  BY DEF Init, Zombies
<1> QED
  BY <1>1, FS_EmptySet DEF Init, Counted, OnlyMergedUnheard

LEMMA CountedStep == TypeOK /\ Counted /\ [Next]_vars => Counted'
<1> SUFFICES ASSUME TypeOK, Counted, [Next]_vars PROVE Counted'
  OBVIOUS
<1> USE DEF Counted, OnlyMergedUnheard
<1>1. ASSUME NEW p \in Pid, Exit(p) PROVE Counted'
  <2>1. p \notin Zombies /\ Zombies' = Zombies \union {p}
    BY <1>1 DEF Exit, Zombies, TypeOK
  <2>2. IsFiniteSet(Zombies') /\ Cardinality(Zombies') = Cardinality(Zombies) + 1
    BY <2>1, FS_AddElement
  <2>3. Cardinality(Zombies) = merged + (IF sigchld THEN 1 ELSE 0)
    OBVIOUS
  <2>4. sigchld' /\ merged' = (IF sigchld THEN merged + 1 ELSE merged)
    BY <1>1 DEF Exit
  <2>5. merged \in Nat
    BY DEF TypeOK
  <2>6. Cardinality(Zombies)' = merged' + (IF sigchld' THEN 1 ELSE 0)
    BY <2>2, <2>3, <2>4, <2>5
  <2> QED
    BY <2>2, <2>6
<1>2. CASE SigHandler
  <2>1. PICK p \in Zombies : child' = [child EXCEPT ![p] = "none"]
    BY <1>2 DEF SigHandler, WaitFor
  <2>2. Zombies' = Zombies \ {p}
    BY <2>1 DEF Zombies, TypeOK
  <2>3. IsFiniteSet(Zombies') /\ Cardinality(Zombies') = Cardinality(Zombies) - 1
    BY <2>1, <2>2, FS_RemoveElement
  <2>4. sigchld /\ ~sigchld' /\ merged' = merged /\ merged \in Nat
    BY <1>2 DEF SigHandler, TypeOK
  <2>5. Cardinality(Zombies) = merged + 1
    BY <2>4
  <2> QED
    BY <2>3, <2>4, <2>5
<1>3. ASSUME UNCHANGED <<sigchld, merged>>, \A q \in Pid : child'[q] = "zombie" <=> child[q] = "zombie"
      PROVE  Counted'
  <2>1. Zombies' = Zombies
    BY <1>3 DEF Zombies
  <2> QED
    BY <1>3, <2>1
<1>4. CASE Serve
  <2>1. UNCHANGED <<sigchld, merged>>
    BY <1>4 DEF Serve
  <2>2. \A q \in Pid : child'[q] = "zombie" <=> child[q] = "zombie"
    <3>1. ASSUME NEW t \in Ptype, NEW p \in Pid, Launch(t, p)
          PROVE  \A q \in Pid : child'[q] = "zombie" <=> child[q] = "zombie"
      BY <3>1 DEF Launch, TypeOK
    <3> QED
      BY <1>4, <3>1 DEF Serve, ForkFails, ProcReplied
  <2> QED
    BY <1>3, <2>1, <2>2
<1>5. CASE NotifyStartFailure \/ Top \/ Notified \/ MainLoop \/ Block \/ Request \/ UNCHANGED vars
  <2>1. UNCHANGED <<child, sigchld, merged>>
    BY <1>5 DEF NotifyStartFailure, Top, Notified, MainLoop, Block, Request, vars, sigvars
  <2> QED
    BY <1>3, <2>1
<1> QED
  BY <1>1, <1>2, <1>4, <1>5 DEF Next, Server

(* In every interleaving the handler waits for one child for each signal   *)
(* it is called with, so that the deaths nobody heard of are those whose   *)
(* signal merged with another's or is pending (sig_handler).               *)
THEOREM UnheardDeathsAreMerged == Spec => []OnlyMergedUnheard
<1>1. Counted => OnlyMergedUnheard
  BY DEF Counted
<1> QED
  BY <1>1, CountedInit, CountedStep, TypeCorrect, PTL DEF Spec

LEMMA ZombieIsCounted ==
  ASSUME TypeOK, Counted, NEW p \in Zombies PROVE sigchld \/ merged > 0
<1>1. Cardinality(Zombies) # 0
  BY FS_EmptySet DEF Counted
<1> QED
  BY <1>1 DEF Counted, OnlyMergedUnheard, TypeOK

-----------------------------------------------------------------------------
(* Launches.  The pid of a launch that worked belongs to no other such     *)
(* launch, because the system does not give it away while its process      *)
(* lives or its death is in the ring: so the first match of notify_start_- *)
(* failure is the right one, or one whose fork() failed, which leaves the  *)
(* other adrift.  With that the invariant is inductive.                    *)

Launched(t) == launching[t] /\ t \notin adrift

DistinctLaunches ==
  \A t, u \in Ptype : Launched(t) /\ Launched(u) /\ t # u => start_pid[t] # start_pid[u]

PidKnown == \A t \in Ptype : Launched(t) => start_pid[t] \in Pid

(* Dead or alive, the process of a launch has not left the system's sight. *)
PidTaken == \A t \in Ptype : Launched(t) => child[start_pid[t]] # "none" \/ Recorded(start_pid[t])

LaunchInv == PidKnown /\ DistinctLaunches /\ PidTaken

LEMMA RecordedAppended ==
  ASSUME TypeOK, NEW p \in Pid, Pending' = Append(Pending, p)
  PROVE  Recorded(p)' /\ \A q : Recorded(q) => Recorded(q)'
<1>1. Pending \in Seq(Pid \union {NoPid}) /\ Len(Pending) \in Nat
  BY PendingIsQueue DEF IsQueue
<1>2. /\ DOMAIN Pending' = 1 .. Len(Pending) + 1
      /\ DOMAIN Pending = 1 .. Len(Pending)
      /\ \A i \in 1 .. Len(Pending) : Pending'[i] = Pending[i]
      /\ Pending'[Len(Pending) + 1] = p
  BY <1>1, AppendProperties
<1>3. Recorded(p)'
  BY <1>1, <1>2 DEF Recorded
<1>4. ASSUME NEW q, Recorded(q) PROVE Recorded(q)'
  <2>1. PICK i \in 1 .. Len(Pending) : Pending[i] = q
    BY <1>2, <1>4 DEF Recorded
  <2>2. i \in DOMAIN Pending' /\ Pending'[i] = q
    BY <1>1, <1>2, <2>1
  <2> QED
    BY <2>2 DEF Recorded
<1> QED
  BY <1>3, <1>4

LEMMA RecordedTaken ==
  ASSUME TypeOK, Pending # <<>>, Pending' = Tail(Pending),
         NEW q, Recorded(q), q # Pending[1]
  PROVE  Recorded(q)'
<1>1. Pending \in Seq(Pid \union {NoPid}) /\ Len(Pending) \in Nat
  BY PendingIsQueue DEF IsQueue
<1>2. /\ DOMAIN Pending' = 1 .. Len(Pending) - 1
      /\ DOMAIN Pending = 1 .. Len(Pending)
      /\ \A i \in 1 .. Len(Pending) - 1 : Pending'[i] = Pending[i + 1]
  BY <1>1, HeadTailProperties
<1>3. PICK i \in 1 .. Len(Pending) : Pending[i] = q
  BY <1>2 DEF Recorded
<1>4. i # 1
  BY <1>3
<1>5. i - 1 \in 1 .. Len(Pending) - 1 /\ (i - 1) + 1 = i
  BY <1>1, <1>3, <1>4
<1>6. Pending'[i - 1] = q
  BY <1>2, <1>3, <1>5
<1> QED
  BY <1>2, <1>5, <1>6 DEF Recorded

LEMMA LaunchStep ==
  ASSUME Backlog < MAXPIDS, TypeOK, TypeOK', LaunchInv, [Next]_vars
  PROVE  LaunchInv'
<1> USE DEF LaunchInv, Launched
<1>1. ASSUME NEW p \in Pid, Exit(p) PROVE LaunchInv'
  <2>1. \A q : Recorded(q)' <=> Recorded(q)
    BY <1>1, RingUnchanged DEF Exit
  <2>2. UNCHANGED <<launching, start_pid, adrift>>
    BY <1>1 DEF Exit, ptypes
  <2>3. \A q \in Pid : child'[q] = "none" => child[q] = "none"
    BY <1>1 DEF Exit, TypeOK
  <2> QED
    BY <2>1, <2>2, <2>3 DEF PidKnown, DistinctLaunches, PidTaken
<1>2. CASE SigHandler
  <2>1. PICK p \in Pid : child' = [child EXCEPT ![p] = "none"] /\ Record(p)
    BY <1>2 DEF SigHandler, Zombies, WaitFor
  <2>2. Count < MAXPIDS - 1 /\ fout' = fout
    BY <1>2, SizeAssumption, CountRange DEF SigHandler
  <2>3. Pending' = Append(Pending, p)
    BY <2>1, <2>2, RecordAppends
  <2>4. Recorded(p)' /\ \A q : Recorded(q) => Recorded(q)'
    BY <2>3, RecordedAppended
  <2>5. \A q \in Pid : q # p => child'[q] = child[q]
    BY <2>1 DEF TypeOK
  <2>6. UNCHANGED <<launching, start_pid, adrift>>
    BY <1>2 DEF SigHandler, ptypes
  <2> QED
    BY <2>4, <2>5, <2>6 DEF PidKnown, DistinctLaunches, PidTaken
<1>3. CASE NotifyStartFailure
  <2>1. /\ Pending # <<>> /\ Pending' = Tail(Pending)
        /\ Pending[1] = failed_procs[fout]
    BY <1>3, AdvanceTakesFirst DEF NotifyStartFailure
  <2>2. UNCHANGED <<child, start_pid>>
    BY <1>3 DEF NotifyStartFailure, sigvars
  <2>3. \A t \in Ptype : Launched(t)' => Launched(t) /\ start_pid[t] # failed_procs[fout]
    <3>1. ASSUME NEW t \in Ptype, Failed(t),
                 launching' = [launching EXCEPT ![t] = FALSE],
                 adrift' = (adrift \union {u \in Ptype : Failed(u)}) \ {t},
                 NEW u \in Ptype, Launched(u)'
          PROVE  Launched(u) /\ start_pid[u] # failed_procs[fout]
      <4>1. u # t /\ launching[u]
        BY <3>1 DEF TypeOK
      <4>2. u \notin adrift /\ ~Failed(u)
        BY <3>1, <4>1
      <4> QED
        BY <4>1, <4>2 DEF Failed
    <3>2. ASSUME ~\E t \in Ptype : Failed(t), UNCHANGED <<launching, adrift>>,
                 NEW u \in Ptype, Launched(u)'
          PROVE  Launched(u) /\ start_pid[u] # failed_procs[fout]
      BY <3>2 DEF Failed
    <3> QED
      BY <1>3, <3>1, <3>2 DEF NotifyStartFailure
  <2>4. ASSUME NEW t \in Ptype, NEW q, q = start_pid[t], Launched(t)', child[q] = "none"
        PROVE  Recorded(q)'
    <3>1. Recorded(q)
      BY <2>3, <2>4 DEF PidTaken
    <3>2. q # Pending[1]
      BY <2>1, <2>3, <2>4
    <3> QED
      BY <2>1, <3>1, <3>2, RecordedTaken
  <2>5. PidTaken'
    BY <2>2, <2>4 DEF PidTaken, Recorded
  <2> QED
    BY <2>2, <2>3, <2>5 DEF PidKnown, DistinctLaunches
<1>4. CASE Serve
  <2>1. \A q : Recorded(q)' <=> Recorded(q)
    BY <1>4, RingUnchanged DEF Serve
  <2>2. ASSUME NEW t \in Ptype, NEW p \in Pid, Launch(t, p) PROVE LaunchInv'
    <3>1. /\ Launched(t)' => start_pid'[t] = p
          /\ child'[p] = "alive"
          /\ \A q \in Pid : q # p => child'[q] = child[q]
          /\ \A u \in Ptype : u # t => (Launched(u)' <=> Launched(u))
                                     /\ start_pid'[u] = start_pid[u]
      BY <2>2 DEF Launch, TypeOK
    <3>2. child[p] = "none" /\ ~Recorded(p)
      BY <2>2 DEF Launch
    <3>3. \A u \in Ptype : u # t /\ Launched(u)' => start_pid[u] # p
      BY <3>1, <3>2 DEF PidTaken
    <3>4. PidKnown' /\ DistinctLaunches'
      BY <3>1, <3>3 DEF PidKnown, DistinctLaunches
    <3>5. PidTaken'
      BY <3>1, <3>3, <2>1 DEF PidKnown, PidTaken
    <3> QED
      BY <3>4, <3>5
  <2>3. ASSUME NEW t \in Ptype, ForkFails(t) \/ ProcReplied(t) PROVE LaunchInv'
    <3>1. \A u \in Ptype : Launched(u)' => Launched(u)
      BY <2>3 DEF ForkFails, ProcReplied, TypeOK
    <3>2. UNCHANGED <<child, start_pid>>
      BY <2>3 DEF ForkFails, ProcReplied
    <3> QED
      BY <2>1, <3>1, <3>2 DEF PidKnown, DistinctLaunches, PidTaken
  <2>4. CASE UNCHANGED <<child, ptypes>>
    BY <2>1, <2>4 DEF ptypes, PidKnown, DistinctLaunches, PidTaken
  <2> QED
    BY <1>4, <2>2, <2>3, <2>4 DEF Serve
<1>5. CASE Top \/ Notified \/ MainLoop \/ Block \/ Request \/ UNCHANGED vars
  <2>1. UNCHANGED ring /\ UNCHANGED <<child, launching, start_pid, adrift>>
    BY <1>5 DEF Top, Notified, MainLoop, Block, Request, vars, ring, sigvars, ptypes
  <2>2. \A q : Recorded(q)' <=> Recorded(q)
    BY <2>1, RingUnchanged
  <2> QED
    BY <2>1, <2>2 DEF PidKnown, DistinctLaunches, PidTaken
<1> QED
  BY <1>1, <1>2, <1>3, <1>4, <1>5 DEF Next, Server

(* The death of a launched process is in the ring, or waited for by nobody *)
(* yet while a signal is pending or one has merged, in every interleaving  *)
(* of the signal handler with the main loop (sig_handler,                  *)
(* notify_start_failure, _Tt_ptype::launch).                               *)
THEOREM LaunchFailuresKnown ==
  ASSUME Backlog < MAXPIDS PROVE Spec => []LaunchFailureKnown
<1>1. Init => LaunchInv
  BY DEF Init, LaunchInv, PidKnown, DistinctLaunches, PidTaken, Launched
<1>2. TypeOK /\ TypeOK' /\ LaunchInv /\ [Next]_vars => LaunchInv'
  BY LaunchStep
<1>3. TypeOK /\ Counted /\ LaunchInv => LaunchFailureKnown
  <2> SUFFICES ASSUME TypeOK, Counted, LaunchInv,
                      NEW t \in Ptype, launching[t], t \notin adrift,
                      child[start_pid[t]] # "alive", ~Recorded(start_pid[t])
               PROVE  start_pid[t] \in Zombies /\ (sigchld \/ merged > 0)
    BY DEF LaunchFailureKnown
  <2>1. start_pid[t] \in Pid /\ child[start_pid[t]] # "none"
    BY DEF LaunchInv, PidKnown, PidTaken, Launched
  <2>2. start_pid[t] \in Zombies
    BY <2>1 DEF TypeOK, Zombies
  <2> QED
    BY <2>2, ZombieIsCounted
<1> QED
  BY <1>1, <1>2, <1>3, CountedInit, CountedStep, TypeCorrect, PTL DEF Spec
=============================================================================
