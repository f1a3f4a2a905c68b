------------------------------- MODULE TtMatch -------------------------------
(***************************************************************************)
(* How ttsession chooses the handler of a request and its observers:       *)
(* match_patterns with the categories of handlers and the clock that       *)
(* decides between patterns that match equally well, and                   *)
(* needs_observer_match, which saves matching when a message changes its   *)
(* state.                                                                  *)
(*                                                                         *)
(* Here channels work and a request has no disposition; TtServer is about  *)
(* the rest.  Every pattern names an op, the op of all messages.  How well *)
(* a pattern matches a message is a constant.                              *)
(***************************************************************************)
EXTENDS Naturals, Sequences, SequencesExt

CONSTANTS
    Proc, Pattern, Msg,
    NoProc, NoPattern, NoChange,
    Owner,          \* the process that registers a pattern
    Category,       \* "handle", "rotate", "push" or "observe"
    Score,          \* Score[p][m], 0 if p does not match m
    States,         \* the states a pattern names; none means any
    AtStart,        \* patterns that registered before we look on, newest first
    Late,           \* patterns whose process joins the session after registering
    Leaver          \* bound: the processes that quit, unregister or go away

ASSUME ConstantsAssumption ==
  /\ Owner \in [Pattern -> Proc]
  /\ Category \in [Pattern -> {"handle", "rotate", "push", "observe"}]
  /\ Score \in [Pattern -> [Msg -> Nat]]
  /\ States \in [Pattern -> SUBSET {"sent", "handled", "failed"}]
  /\ AtStart \in Seq(Pattern) /\ IsInjective(AtStart)
  /\ Late \subseteq Pattern /\ Leaver \subseteq Proc
  /\ NoProc \notin Proc /\ NoPattern \notin Pattern
  /\ NoChange \notin Msg \X {"handled", "failed"}

VARIABLES
    patterns,       \* the patterns of the op, newest first
    registered,     \* patterns that are or were there: an id is not used again
    timestamp, in_session,
    leaving,        \* the process that deactivate cleans up after
    now, when_last_observer_registered,
    state, tried, when_last_matched, observers_match,
    pattern_id,     \* the pattern of the handler that has the request
    change,         \* the change of state the server has to make next
    heard           \* what an observer was given: messages and their states

clock == <<now, when_last_observer_registered>>
table == <<patterns, registered, timestamp, in_session>>
message == <<state, tried, when_last_matched, observers_match, pattern_id>>
vars == <<table, leaving, clock, message, change, heard>>

Idle == change = NoChange /\ leaving = NoProc

(* When a pattern of AtStart registered; the clock starts at 1.            *)
Stamp(p) == Len(AtStart) + 2 - CHOOSE i \in DOMAIN AtStart : AtStart[i] = p

Init ==
  /\ patterns = AtStart /\ registered = ToSet(AtStart)
  /\ timestamp = [p \in Pattern |->
                     IF p \in registered /\ Category[p] = "push" THEN Stamp(p) ELSE 0]
  /\ in_session = [p \in Pattern |-> p \in registered]
  /\ leaving = NoProc
  /\ now = 1 + Len(AtStart) /\ when_last_observer_registered = 1
  /\ state = [m \in Msg |-> "created"] /\ tried = [m \in Msg |-> {}]
  /\ when_last_matched = [m \in Msg |-> 0]
  /\ observers_match = [m \in Msg |-> FALSE]
  /\ pattern_id = [m \in Msg |-> NoPattern]
  /\ change = NoChange
  /\ heard = [p \in Pattern |-> {}]

-----------------------------------------------------------------------------
(* Matching.                                                               *)

(* _Tt_s_pattern::match, when m is in state s.                             *)
MatchScore(p, m, s) ==
  IF in_session[p] /\ (States[p] = {} \/ s \in States[p]) THEN Score[p][m] ELSE 0

NoBest == [pattern |-> NoPattern, category |-> "undefined", score |-> 0, stamp |-> 0]

(* Mutant of Trumped: a ROTATE pattern does not exclude plain handlers.    *)
TrumpedByPush(best, p) ==
  Category[p] \in {"handle", "rotate"} /\ best.category = "push"

(* _tt_excludes: p is not taken in place of the best found before it.      *)
Trumped(best, p) ==
  \/ Category[p] = "handle" /\ best.category \in {"rotate", "push"}
  \/ Category[p] = "rotate" /\ best.category = "push"

Rivals(best, p, category) == best.category = category /\ Category[p] = category

NotBetter(best, p, score) ==
  \/ /\ Rivals(best, p, "push")        \* newest PUSH pattern wins
     /\ best.score = score /\ best.stamp >= timestamp[p]
  \/ /\ Rivals(best, p, "rotate")      \* coldest ROTATE pattern wins
     /\ \/ best.score > score
        \/ best.score = score /\ best.stamp < timestamp[p]
  \/ Category[p] = "handle" /\ best.score >= score

(* match_handler, for a request in state TT_SENT.                          *)
MatchHandler(best, p, m) ==
  LET score == MatchScore(p, m, "sent")
  IN IF Trumped(best, p) \/ score = 0 \/ NotBetter(best, p, score)
     THEN best
     ELSE [pattern |-> p, category |-> Category[p], score |-> score,
           stamp |-> timestamp[p]]

(* The loop of match_patterns ends at a pattern whose process is gone.     *)
Visible ==
  LET gone == {i \in DOMAIN patterns : Owner[patterns[i]] = leaving}
  IN {i \in DOMAIN patterns : \A j \in gone : i < j}

(* What the loop does with a pattern; those of refused had their chance.    *)
Round(best, p, m, refused) ==
  IF Category[p] = "observe" \/ Owner[p] \in refused
  THEN best ELSE MatchHandler(best, p, m)

(* The best after each round.                                              *)
Rounds(m, refused) ==
  LET best[n \in 0 .. Len(patterns)] ==
        IF n = 0 THEN NoBest ELSE Round(best[n - 1], patterns[n], m, refused)
  IN best

BestHandler(m, refused) == Rounds(m, refused)[Len(patterns)].pattern

Observers(m, s) ==
  {p \in {patterns[i] : i \in Visible} :
     Category[p] = "observe" /\ MatchScore(p, m, s) > 0}

HeardBy(m, s) ==
  [p \in Pattern |->
     IF p \in Observers(m, s) THEN heard[p] \union {<<m, s>>} ELSE heard[p]]

(* deliver() to the observers of m when it is sent.                        *)
MatchObservers(m) ==
  /\ when_last_matched' = [when_last_matched EXCEPT ![m] = now]
  /\ heard' = HeardBy(m, "sent")
  /\ observers_match' = [observers_match EXCEPT ![m] = Observers(m, "sent") # {}]

(* Mutant of HandOver: the clock of the pattern that was chosen stands.    *)
HandOverUnstamped(m, p) ==
  /\ now' = now + 1
  /\ pattern_id' = [pattern_id EXCEPT ![m] = p]
  /\ UNCHANGED <<timestamp, change>>

(* Mutant of HandOver: the server's clock is not advanced.                 *)
HandOverUnticked(m, p) ==
  /\ now' = now
  /\ pattern_id' = [pattern_id EXCEPT ![m] = p]
  /\ timestamp' = IF Category[p] = "rotate"
                  THEN [timestamp EXCEPT ![p] = now + 1] ELSE timestamp
  /\ UNCHANGED change

(* The chosen pattern gets the request; a ROTATE pattern had its turn.     *)
HandOver(m, p) ==
  /\ now' = now + 1
  /\ pattern_id' = [pattern_id EXCEPT ![m] = p]
  /\ timestamp' = IF Category[p] = "rotate"
                  THEN [timestamp EXCEPT ![p] = now'] ELSE timestamp
  /\ UNCHANGED change

(* deliver(): the handler, or the failure for want of one.                 *)
FindHandler(m, refused) ==
  LET p == BestHandler(m, refused)
  IN IF p # NoPattern
     THEN HandOver(m, p)
     ELSE /\ change' = <<m, "failed">>
          /\ pattern_id' = [pattern_id EXCEPT ![m] = NoPattern]
          /\ UNCHANGED <<now, timestamp>>

-----------------------------------------------------------------------------
(* Messages.                                                               *)

Dispatch(m) ==
  /\ Idle
  /\ state[m] = "created"
  /\ state' = [state EXCEPT ![m] = "sent"]
  /\ MatchObservers(m)
  /\ FindHandler(m, {})
  /\ UNCHANGED <<patterns, registered, in_session, leaving,
                 when_last_observer_registered, tried>>

HasRequest(m) == state[m] = "sent" /\ pattern_id[m] # NoPattern

(* An answer of TT_FAILED takes the same way.                              *)
Answer(m) ==
  /\ Idle /\ HasRequest(m)
  /\ change' = <<m, "handled">>
  /\ UNCHANGED <<table, leaving, clock, message, heard>>

(* rejected(): again, but not to observers.                                *)
Reject(m) ==
  /\ Idle /\ HasRequest(m)
  /\ LET refused == tried[m] \union {Owner[pattern_id[m]]}
     IN /\ tried' = [tried EXCEPT ![m] = refused]
        /\ FindHandler(m, refused)
  /\ UNCHANGED <<patterns, registered, in_session, leaving,
                 when_last_observer_registered, state, when_last_matched, observers_match, heard>>

(* Mutant of NeedsObserverMatch: only those that registered since matter.  *)
NeedsNewObserver(m) ==
  when_last_matched[m] < when_last_observer_registered

NeedsObserverMatch(m) ==
  \/ when_last_matched[m] = 0 \/ observers_match[m]
  \/ when_last_matched[m] < when_last_observer_registered

(* change_state to a final state, in which a message is matched once more  *)
(* with observers; then its sender gets it and it is freed.                *)
ChangeState ==
  /\ change # NoChange
  /\ LET m == change[1]
         s == change[2]
     IN /\ state' = [state EXCEPT ![m] = s]
        /\ heard' = IF NeedsObserverMatch(m) THEN HeardBy(m, s) ELSE heard
        /\ tried' = [tried EXCEPT ![m] = {}]
        /\ when_last_matched' = [when_last_matched EXCEPT ![m] = 0]
        /\ observers_match' = [observers_match EXCEPT ![m] = FALSE]
        /\ pattern_id' = [pattern_id EXCEPT ![m] = NoPattern]
  /\ change' = NoChange
  /\ UNCHANGED <<table, leaving, clock>>

-----------------------------------------------------------------------------
(* Patterns and processes.                                                 *)

AddPattern(p) ==
  /\ Idle
  /\ p \notin registered /\ registered' = registered \union {p}
  /\ patterns' = <<p>> \o patterns
  /\ now' = now + 1
  /\ when_last_observer_registered' =
       IF Category[p] = "observe" THEN now' ELSE when_last_observer_registered
  /\ timestamp' = [timestamp EXCEPT ![p] = IF Category[p] = "push" THEN now' ELSE 0]
  /\ in_session' = [in_session EXCEPT ![p] = p \notin Late]
  /\ UNCHANGED <<leaving, message, change, heard>>

(* del_pattern: the i-th pattern is taken out of the table.                *)
Forget(i) ==
  /\ patterns' = RemoveAt(patterns, i)
  /\ timestamp' = [timestamp EXCEPT ![patterns[i]] = 0]
  /\ in_session' = [in_session EXCEPT ![patterns[i]] = FALSE]
  /\ UNCHANGED registered

DelPattern(p) ==
  /\ Idle /\ Owner[p] \in Leaver
  /\ \E i \in DOMAIN patterns : patterns[i] = p /\ Forget(i)
  /\ UNCHANGED <<leaving, clock, message, change, heard>>

JoinSession(pr) ==
  /\ Idle
  /\ in_session' = [p \in Pattern |-> \/ in_session[p]
                                      \/ Owner[p] = pr /\ p \in ToSet(patterns)]
  /\ UNCHANGED <<patterns, registered, timestamp, leaving, clock, message, change, heard>>

QuitSession(pr) ==
  /\ Idle /\ pr \in Leaver
  /\ in_session' = [p \in Pattern |-> in_session[p] /\ Owner[p] # pr]
  /\ UNCHANGED <<patterns, registered, timestamp, leaving, clock, message, change, heard>>

(* deactivate: first the requests of the process fail, then its patterns   *)
(* are deleted.                                                            *)
Deactivate(pr) ==
  /\ Idle /\ pr \in Leaver
  /\ \/ \E p \in ToSet(patterns) : Owner[p] = pr
     \/ \E m \in Msg : HasRequest(m) /\ Owner[pattern_id[m]] = pr
  /\ leaving' = pr
  /\ UNCHANGED <<table, clock, message, change, heard>>

Orphaned(m) == HasRequest(m) /\ Owner[pattern_id[m]] = leaving

Orphan(m) ==
  /\ change = NoChange /\ Orphaned(m)
  /\ change' = <<m, "failed">>
  /\ UNCHANGED <<table, leaving, clock, message, heard>>

OrphansDone ==
  leaving # NoProc /\ change = NoChange /\ ~\E m \in Msg : Orphaned(m)

(* One pattern after the other, the newest first.                          *)
PatternDeleted ==
  /\ OrphansDone
  /\ \E i \in DOMAIN patterns :
       /\ Owner[patterns[i]] = leaving
       /\ \A j \in 1 .. i - 1 : Owner[patterns[j]] # leaving
       /\ Forget(i)
  /\ UNCHANGED <<leaving, clock, message, change, heard>>

Deactivated ==
  /\ OrphansDone
  /\ ~\E p \in ToSet(patterns) : Owner[p] = leaving
  /\ leaving' = NoProc
  /\ UNCHANGED <<table, clock, message, change, heard>>

-----------------------------------------------------------------------------
Next ==
  \/ ChangeState \/ PatternDeleted \/ Deactivated
  \/ \E m \in Msg : Dispatch(m) \/ Answer(m) \/ Reject(m) \/ Orphan(m)
  \/ \E p \in Pattern : AddPattern(p) \/ DelPattern(p)
  \/ \E pr \in Proc : JoinSession(pr) \/ QuitSession(pr) \/ Deactivate(pr)

Spec == Init /\ [][Next]_vars

-----------------------------------------------------------------------------
(* Properties.                                                             *)

TypeOK ==
  /\ patterns \in Seq(registered) /\ registered \subseteq Pattern
  /\ IsInjective(patterns)
  /\ timestamp \in [Pattern -> 0 .. now] /\ in_session \in [Pattern -> BOOLEAN]
  /\ leaving \in Proc \union {NoProc}
  /\ now \in Nat /\ when_last_observer_registered \in 1 .. now
  /\ state \in [Msg -> {"created", "sent", "handled", "failed"}]
  /\ tried \in [Msg -> SUBSET Proc]
  /\ when_last_matched \in [Msg -> 0 .. now] /\ observers_match \in [Msg -> BOOLEAN]
  /\ pattern_id \in [Msg -> Pattern \union {NoPattern}]
  /\ change \in {NoChange} \union (Msg \X {"handled", "failed"})
  /\ heard \in [Pattern -> SUBSET (Msg \X {"sent", "handled", "failed"})]

Newer(p, q) ==
  \E i, j \in DOMAIN patterns : i < j /\ patterns[i] = p /\ patterns[j] = q

Trumps(c, d) == <<c, d>> \in {<<"push", "rotate">>, <<"push", "handle">>,
                              <<"rotate", "handle">>}

Eligible(m, refused) ==
  {p \in ToSet(patterns) : /\ Category[p] # "observe" /\ Owner[p] \notin refused
                           /\ MatchScore(p, m, "sent") > 0}

(* A request goes to a pattern of the strongest category, among those to   *)
(* one that matches best, and among equals of TT_HANDLE or TT_HANDLE_PUSH  *)
(* to the newest; it fails for want of a handler only if there is none     *)
(* that it was not offered to (ttGuide/ch01.sgm: "an application that best *)
(* matches the pattern in the message").                                   *)
RightChoice(m) ==
  LET able == Eligible(m, tried'[m])
      p == pattern_id'[m]
  IN IF able = {} THEN p = NoPattern
     ELSE /\ p \in able
          /\ \A q \in able :
               /\ ~Trumps(Category[q], Category[p])
               /\ Category[q] = Category[p] => Score[q][m] <= Score[p][m]
               /\ (Category[q] = Category[p] /\ Category[p] # "rotate"
                     /\ Score[q][m] = Score[p][m]) => ~Newer(q, p)

Chosen(m) ==
  \/ state[m] = "created" /\ state'[m] = "sent"
  \/ state'[m] = "sent" /\ tried'[m] # tried[m]

BestIsChosen == [][\A m \in Msg : Chosen(m) => RightChoice(m)]_vars

(* Whoever observes a message is given it when it is sent and when it is   *)
(* answered, whether it registered before or after it was sent: the        *)
(* matching that needs_observer_match saves "would be useless".  Not while *)
(* a process is cleaned up, whose patterns hide the older ones.            *)
Watching(m, s) ==
  {p \in ToSet(patterns) : Category[p] = "observe" /\ MatchScore(p, m, s) > 0}

ObserversHear ==
  [][\A m \in Msg :
       (state'[m] # state[m] /\ leaving = NoProc) =>
         \A p \in Watching(m, state'[m]) : <<m, state'[m]>> \in heard'[p]]_vars

(* The ROTATE patterns take turns, although nothing but the time of its    *)
(* last turn is kept with each: 0 if it had none, and then its place in    *)
(* the table counts.                                                       *)
Rotating == {p \in ToSet(patterns) : Category[p] = "rotate"}

Colder(p, q) ==
  \/ timestamp[p] < timestamp[q]
  \/ timestamp[p] = 0 /\ timestamp[q] = 0 /\ Newer(q, p)

Fresh == {p \in Rotating : timestamp[p] = 0}
Used == {p \in Rotating : timestamp[p] > 0}
Ahead == {pair \in Rotating \X Rotating : Colder(pair[1], pair[2])}
Joined == {p \in Pattern : Category[p] = "rotate" /\ in_session[p]}
Given == [m \in Msg |->
  IF pattern_id[m] # NoPattern /\ Category[pattern_id[m]] = "rotate"
  THEN pattern_id[m] ELSE NoPattern]
Worth == [p \in Pattern |-> [m \in Msg |->
  IF States[p] = {} \/ "sent" \in States[p] THEN Score[p][m] ELSE 0]]

Turns == INSTANCE TtTurns WITH
  Pattern <- {p \in Pattern : Category[p] = "rotate"}, Score <- Worth,
  fresh <- Fresh, used <- Used, ahead <- Ahead, joined <- Joined,
  refused <- tried, given <- Given
TakesTurns == Turns!Spec
=============================================================================
