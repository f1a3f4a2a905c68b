---------------------------- MODULE TtMatchProofs ----------------------------
(***************************************************************************)
(* Theorems about TtMatch: types, the choice of the handler, what          *)
(* observers hear, and that it implements TtTurns.                         *)
(***************************************************************************)
EXTENDS TtMatch, SequenceTheorems, WellFoundedInduction, TLAPS

(* Mathematical induction, for a set of numbers.                           *)
LEMMA Induction ==
  ASSUME NEW T \in SUBSET Nat, 0 \in T, \A n \in T : n + 1 \in T
  PROVE  T = Nat
<1>1. SUFFICES ASSUME T # Nat PROVE FALSE
  OBVIOUS
<1>2. PICK n \in Nat \ T : \A k \in Nat \ T : ~(<<k, n>> \in OpToRel(<, Nat))
  <2>1. Nat \ T \subseteq Nat /\ Nat \ T # {}
    BY <1>1
  <2> QED
    BY <2>1, NatLessThanWellFounded, WFMin
<1>3. n # 0 /\ n - 1 \in Nat /\ (n - 1) + 1 = n
  OBVIOUS
<1>4. n - 1 \notin T
  BY <1>2, <1>3
<1>5. <<n - 1, n>> \in OpToRel(<, Nat)
  <2>1. /\ n - 1 \in Nat /\ n \in Nat /\ n - 1 < n
    BY <1>3
  <2> QED
    BY <2>1 DEF OpToRel
<1> QED
  BY <1>2, <1>3, <1>4, <1>5

(* A function is defined by its first value and a step, up to any number.   *)
LEMMA Recursion ==
  ASSUME NEW S, NEW s0 \in S, NEW L \in Nat, NEW step \in [1 .. L -> [S -> S]]
  PROVE  \E f \in [0 .. L -> S] :
           f[0] = s0 /\ \A n \in 1 .. L : f[n] = step[n][f[n - 1]]
<1> DEFINE Upto(k, f) == /\ f \in [0 .. k -> S] /\ f[0] = s0
                         /\ \A n \in 1 .. k : f[n] = step[n][f[n - 1]]
           T == {k \in Nat : k <= L => \E f : Upto(k, f)}
<1>1. 0 \in T
  <2>1. Upto(0, [n \in 0 .. 0 |-> s0])
    OBVIOUS
  <2> QED
    BY <2>1
<1>2. ASSUME NEW k \in T PROVE k + 1 \in T
  <2>1. SUFFICES ASSUME k + 1 <= L PROVE \E f : Upto(k + 1, f)
    OBVIOUS
  <2>2. PICK f : Upto(k, f)
    BY <2>1
  <2> DEFINE g == [n \in 0 .. k + 1 |-> IF n <= k THEN f[n] ELSE step[k + 1][f[k]]]
  <2>3. k \in Nat /\ k + 1 \in 1 .. L
    BY <2>1
  <2>4. f[k] \in S /\ step[k + 1][f[k]] \in S
    BY <2>2, <2>3
  <2>5. g \in [0 .. k + 1 -> S]
    BY <2>2, <2>3, <2>4
  <2>6. g[0] = s0
    BY <2>2, <2>3
  <2>7. ASSUME NEW n \in 1 .. k + 1 PROVE g[n] = step[n][g[n - 1]]
    <3>1. CASE n <= k
      <4>1. g[n] = f[n] /\ g[n - 1] = f[n - 1] /\ n \in 1 .. k
        BY <2>3, <3>1
      <4> QED
        BY <4>1, <2>2
    <3>2. CASE ~(n <= k)
      <4>1. n = k + 1 /\ n - 1 = k
        BY <2>3, <3>2
      <4>2. g[k] = f[k] /\ g[k + 1] = step[k + 1][f[k]]
        BY <2>3
      <4> QED
        BY <4>1, <4>2
    <3> QED
      BY <3>1, <3>2
  <2> QED
    BY <2>5, <2>6, <2>7
<1> HIDE DEF T, Upto
<1>3. T = Nat
  <2>1. T \in SUBSET Nat
    BY DEF T
  <2> QED
    BY <2>1, <1>1, <1>2, Induction
<1>4. L \in T
  BY <1>3
<1> QED
  BY <1>4 DEF T, Upto

-----------------------------------------------------------------------------
(* The loop over the patterns.                                             *)

Best == [pattern : Pattern \union {NoPattern},
         category : {"undefined", "handle", "rotate", "push", "observe"},
         score : Nat, stamp : Nat]

(* What has its type in every state: the patterns, and what is kept with   *)
(* each.                                                                   *)
Listed ==
  /\ patterns \in Seq(Pattern) /\ IsInjective(patterns)
  /\ timestamp \in [Pattern -> Nat] /\ in_session \in [Pattern -> BOOLEAN]

LEMMA ScoreType ==
  ASSUME Listed, NEW p \in Pattern, NEW m \in Msg, NEW s
  PROVE  MatchScore(p, m, s) \in Nat
BY ConstantsAssumption DEF Listed, MatchScore

LEMMA RoundType ==
  ASSUME Listed, NEW best \in Best, NEW p \in Pattern, NEW m \in Msg, NEW refused
  PROVE  Round(best, p, m, refused) \in Best
<1>1. MatchScore(p, m, "sent") \in Nat
  BY ScoreType
<1>2. [pattern |-> p, category |-> Category[p], score |-> MatchScore(p, m, "sent"),
       stamp |-> timestamp[p]] \in Best
  BY <1>1, ConstantsAssumption DEF Listed, Best
<1> QED
  BY <1>2 DEF Round, MatchHandler

LEMMA RoundsDefined ==
  ASSUME Listed, NEW m \in Msg, NEW refused
  PROVE  /\ Rounds(m, refused) \in [0 .. Len(patterns) -> Best]
         /\ Rounds(m, refused)[0] = NoBest
         /\ \A n \in 1 .. Len(patterns) :
              Rounds(m, refused)[n] = Round(Rounds(m, refused)[n - 1], patterns[n], m, refused)
<1> DEFINE L == Len(patterns)
           step == [n \in 1 .. L |-> [best \in Best |-> Round(best, patterns[n], m, refused)]]
           Def(f) == [n \in 0 .. L |-> IF n = 0 THEN NoBest
                                       ELSE Round(f[n - 1], patterns[n], m, refused)]
<1>1. L \in Nat /\ \A n \in 1 .. L : patterns[n] \in Pattern
  BY DEF Listed
<1>2. step \in [1 .. L -> [Best -> Best]]
  <2>1. \A n \in 1 .. L : \A best \in Best : Round(best, patterns[n], m, refused) \in Best
    BY <1>1, RoundType
  <2> QED
    BY <2>1
<1>3. NoBest \in Best
  BY DEF NoBest, Best
<1>4. PICK f \in [0 .. L -> Best] :
        f[0] = NoBest /\ \A n \in 1 .. L : f[n] = step[n][f[n - 1]]
  <2> HIDE DEF step, L
  <2> QED
    BY <1>1, <1>2, <1>3, Recursion
<1>5. \A n \in 1 .. L : f[n] = Round(f[n - 1], patterns[n], m, refused)
  <2>1. ASSUME NEW n \in 1 .. L PROVE f[n - 1] \in Best
    BY <1>1
  <2> QED
    BY <1>4, <2>1
<1>6. f = Def(f)
  BY <1>1, <1>4, <1>5
<1>7. Rounds(m, refused) = CHOOSE g : g = Def(g)
  BY DEF Rounds
<1>8. Rounds(m, refused) = Def(Rounds(m, refused))
  <2> HIDE DEF Def
  <2> QED
    BY <1>6, <1>7
<1> DEFINE r == Rounds(m, refused)
<1> HIDE DEF r
<1>9. DOMAIN r = 0 .. L /\ r[0] = NoBest
      /\ \A n \in 1 .. L : r[n] = Round(r[n - 1], patterns[n], m, refused)
  BY <1>1, <1>8 DEF r
<1> DEFINE T == {n \in Nat : n <= L => r[n] = f[n]}
<1>10. T = Nat
  <2>1. 0 \in T
    BY <1>4, <1>9
  <2>2. ASSUME NEW n \in T PROVE n + 1 \in T
    <3>1. CASE n + 1 <= L
      <4>1. n + 1 \in 1 .. L /\ (n + 1) - 1 = n /\ n <= L
        BY <1>1, <3>1
      <4> QED
        BY <4>1, <1>5, <1>9
    <3> QED
      BY <3>1
  <2> HIDE DEF T
  <2>3. T \in SUBSET Nat
    BY DEF T
  <2> QED
    BY <2>1, <2>2, <2>3, Induction
<1>11. r = f
  <2>1. ASSUME NEW n \in 0 .. L PROVE r[n] = f[n]
    <3>1. n \in T /\ n <= L
      BY <1>1, <1>10
    <3> QED
      BY <3>1
  <2>2. r = [n \in 0 .. L |-> r[n]]
    BY <1>8 DEF r
  <2> QED
    BY <2>1, <2>2
<1> QED
  BY <1>9, <1>11 DEF r

LEMMA TypesListed == TypeOK => Listed
BY DEF TypeOK, Listed

LEMMA BestHandlerType ==
  ASSUME TypeOK, NEW m \in Msg, NEW refused
  PROVE  BestHandler(m, refused) \in Pattern \union {NoPattern}
<1>1. Listed /\ Len(patterns) \in 0 .. Len(patterns)
  BY TypesListed DEF Listed
<1>2. Rounds(m, refused)[Len(patterns)] \in Best
  BY <1>1, RoundsDefined
<1> QED
  BY <1>2 DEF BestHandler, Best

-----------------------------------------------------------------------------
(* The table of patterns.                                                  *)

LEMMA Removed ==
  ASSUME NEW S, NEW q \in Seq(S), IsInjective(q), NEW i \in DOMAIN q
  PROVE  /\ RemoveAt(q, i) \in Seq(S) /\ IsInjective(RemoveAt(q, i))
         /\ DOMAIN RemoveAt(q, i) = 1 .. Len(q) - 1
         /\ \A j \in DOMAIN RemoveAt(q, i) :
              /\ RemoveAt(q, i)[j] = q[IF j < i THEN j ELSE j + 1]
              /\ (IF j < i THEN j ELSE j + 1) \in DOMAIN q \ {i}
<1>0. Len(q) \in Nat /\ i \in Nat /\ 1 <= i /\ i <= Len(q) /\ DOMAIN q = 1 .. Len(q)
  OBVIOUS
<1> DEFINE front == SubSeq(q, 1, i - 1)
           back == SubSeq(q, i + 1, Len(q))
           r == front \o back
           at(j) == IF j < i THEN j ELSE j + 1
<1>1. front \in Seq(S) /\ Len(front) = i - 1 /\ \A j \in 1 .. i - 1 : front[j] = q[j]
  BY <1>0
<1>2. back \in Seq(S) /\ Len(back) = Len(q) - i
      /\ \A j \in 1 .. Len(q) - i : back[j] = q[i + j]
  BY <1>0
<1> HIDE DEF front, back
<1>3. /\ r \in Seq(S) /\ Len(r) = Len(q) - 1
      /\ \A j \in 1 .. Len(q) - 1 : r[j] = IF j <= i - 1 THEN front[j] ELSE back[j - (i - 1)]
  <2>1. (i - 1) + (Len(q) - i) = Len(q) - 1
    BY <1>0
  <2>2. /\ front \o back \in Seq(S) /\ Len(front \o back) = Len(front) + Len(back)
        /\ \A j \in 1 .. Len(front) + Len(back) :
             (front \o back)[j] = IF j <= Len(front) THEN front[j] ELSE back[j - Len(front)]
    BY <1>1, <1>2, ConcatProperties
  <2> QED
    BY <1>1, <1>2, <2>1, <2>2
<1> HIDE DEF r
<1>4. ASSUME NEW j \in DOMAIN r PROVE r[j] = q[at(j)] /\ at(j) \in DOMAIN q \ {i}
  <2>1. j \in 1 .. Len(q) - 1
    BY <1>3
  <2>2. CASE j < i
    BY <1>0, <1>1, <1>3, <2>1, <2>2
  <2>3. CASE ~(j < i)
    <3>1. j - (i - 1) \in 1 .. Len(q) - i /\ i + (j - (i - 1)) = j + 1
      BY <1>0, <2>1, <2>3
    <3>2. ~(j <= i - 1) /\ at(j) = j + 1 /\ j + 1 \in 1 .. Len(q) /\ j + 1 # i
      BY <1>0, <2>1, <2>3
    <3>3. r[j] = back[j - (i - 1)]
      BY <1>3, <2>1, <3>2
    <3>4. back[j - (i - 1)] = q[j + 1]
      BY <1>2, <3>1
    <3> QED
      BY <1>0, <3>2, <3>3, <3>4
  <2> QED
    BY <2>2, <2>3
<1>5. IsInjective(r)
  <2>1. ASSUME NEW j \in DOMAIN r, NEW k \in DOMAIN r, r[j] = r[k] PROVE j = k
    <3>1. at(j) = at(k)
      BY <1>4, <2>1 DEF IsInjective
    <3>2. j \in Nat /\ k \in Nat
      BY <1>0, <1>3
    <3> QED
      BY <1>0, <3>1, <3>2
  <2> QED
    BY <2>1 DEF IsInjective
<1>6. DOMAIN r = 1 .. Len(q) - 1
  BY <1>3
<1> QED
  BY <1>3, <1>4, <1>5, <1>6 DEF RemoveAt, r, front, back

LEMMA Pushed ==
  ASSUME NEW S, NEW q \in Seq(S), IsInjective(q), NEW p, p \notin S
  PROVE  /\ <<p>> \o q \in Seq(S \union {p}) /\ IsInjective(<<p>> \o q)
         /\ DOMAIN (<<p>> \o q) = 1 .. Len(q) + 1
         /\ (<<p>> \o q)[1] = p
         /\ \A j \in 2 .. Len(q) + 1 : (<<p>> \o q)[j] = q[j - 1] /\ j - 1 \in DOMAIN q
<1> DEFINE T == S \union {p}
           r == <<p>> \o q
<1>1. <<p>> \in Seq(T) /\ q \in Seq(T) /\ Len(<<p>>) = 1 /\ Len(q) \in Nat
      /\ DOMAIN q = 1 .. Len(q)
  OBVIOUS
<1>2. /\ r \in Seq(T) /\ Len(r) = 1 + Len(q)
      /\ \A j \in 1 .. 1 + Len(q) : r[j] = IF j <= 1 THEN <<p>>[j] ELSE q[j - 1]
  <2> HIDE DEF T
  <2> QED
    BY <1>1, ConcatProperties
<1> HIDE DEF r
<1>3. DOMAIN r = 1 .. Len(q) + 1 /\ r[1] = p
      /\ \A j \in 2 .. Len(q) + 1 : r[j] = q[j - 1] /\ j - 1 \in DOMAIN q
  BY <1>1, <1>2
<1>4. IsInjective(r)
  <2>1. ASSUME NEW j \in DOMAIN r, NEW k \in DOMAIN r, r[j] = r[k] PROVE j = k
    <3>1. \A n \in 1 .. Len(q) : q[n] # p
      OBVIOUS
    <3>2. CASE j = 1 \/ k = 1
      BY <1>1, <1>3, <2>1, <3>1, <3>2
    <3>3. CASE j # 1 /\ k # 1
      <4>1. j \in 2 .. Len(q) + 1 /\ k \in 2 .. Len(q) + 1
        BY <1>1, <1>3, <3>3
      <4>2. j - 1 = k - 1
        BY <1>3, <2>1, <4>1 DEF IsInjective
      <4> QED
        BY <1>1, <4>1, <4>2
    <3> QED
      BY <3>2, <3>3
  <2> QED
    BY <2>1 DEF IsInjective
<1> QED
  BY <1>2, <1>3, <1>4 DEF r

-----------------------------------------------------------------------------
(* Types.                                                                  *)

Id == Pattern \union {NoPattern}
Change == {NoChange} \union (Msg \X {"handled", "failed"})
Copies == SUBSET (Msg \X {"sent", "handled", "failed"})

LEMMA FoundHandler ==
  ASSUME TypeOK, NEW m \in Msg, NEW refused, FindHandler(m, refused)
  PROVE  /\ now' \in Nat /\ now <= now' /\ timestamp' \in [Pattern -> 0 .. now']
         /\ \A p \in Pattern : Category[p] # "rotate" => timestamp'[p] = timestamp[p]
         /\ pattern_id' = [pattern_id EXCEPT ![m] = BestHandler(m, refused)]
         /\ pattern_id' \in [Msg -> Id]
         /\ change' = change \/ change' = <<m, "failed">>
<1> DEFINE p == BestHandler(m, refused)
<1>1. p \in Id
  BY BestHandlerType DEF Id
<1>2. now \in Nat /\ timestamp \in [Pattern -> 0 .. now] /\ pattern_id \in [Msg -> Id]
  BY DEF TypeOK, Id
<1>3. CASE p # NoPattern
  <2>1. p \in Pattern /\ HandOver(m, p)
    BY <1>1, <1>3 DEF FindHandler, Id
  <2> HIDE DEF p
  <2>2. /\ now' = now + 1 /\ pattern_id' = [pattern_id EXCEPT ![m] = p] /\ change' = change
        /\ timestamp' = IF Category[p] = "rotate"
                        THEN [timestamp EXCEPT ![p] = now'] ELSE timestamp
    BY <2>1 DEF HandOver
  <2>3. now' \in Nat /\ now <= now' /\ timestamp' \in [Pattern -> 0 .. now']
    BY <1>2, <2>1, <2>2
  <2>4. \A q \in Pattern : Category[q] # "rotate" => timestamp'[q] = timestamp[q]
    BY <1>2, <2>1, <2>2
  <2>5. pattern_id' \in [Msg -> Id]
    BY <1>1, <1>2, <2>2
  <2> QED
    BY <2>2, <2>3, <2>4, <2>5 DEF p
<1>4. CASE p = NoPattern
  <2>1. /\ change' = <<m, "failed">> /\ pattern_id' = [pattern_id EXCEPT ![m] = p]
        /\ now' = now /\ timestamp' = timestamp
    BY <1>4 DEF FindHandler
  <2> HIDE DEF p
  <2>2. pattern_id' \in [Msg -> Id]
    BY <1>1, <1>2, <2>1
  <2> QED
    BY <1>2, <2>1, <2>2 DEF p
<1> QED
  BY <1>3, <1>4

LEMMA HeardType ==
  ASSUME TypeOK, NEW m \in Msg, NEW s \in {"sent", "handled", "failed"}
  PROVE  HeardBy(m, s) \in [Pattern -> Copies]
<1>1. heard \in [Pattern -> Copies]
  BY DEF TypeOK, Copies
<1>2. \A p \in Pattern : heard[p] \in Copies /\ heard[p] \union {<<m, s>>} \in Copies
  BY <1>1 DEF Copies
<1> QED
  BY <1>2 DEF HeardBy

(* The clock may advance; the rest stays or keeps its type.                *)
LEMMA ClockOn ==
  ASSUME TypeOK, now' \in Nat, now <= now'
  PROVE  /\ timestamp \in [Pattern -> 0 .. now'] /\ when_last_matched \in [Msg -> 0 .. now']
         /\ when_last_observer_registered \in 1 .. now'
         /\ now' \in 1 .. now' /\ now \in 0 .. now'
BY DEF TypeOK

LEMMA DispatchType == ASSUME TypeOK, NEW m \in Msg, Dispatch(m) PROVE TypeOK'
<1>1. /\ state' = [state EXCEPT ![m] = "sent"] /\ MatchObservers(m) /\ FindHandler(m, {})
      /\ UNCHANGED <<patterns, registered, in_session, leaving,
                     when_last_observer_registered, tried>>
  BY DEF Dispatch
<1>2. /\ now' \in Nat /\ now <= now' /\ timestamp' \in [Pattern -> 0 .. now']
      /\ pattern_id' \in [Msg -> Id] /\ change' \in Change
  <2>1. change \in Change
    BY DEF TypeOK, Change
  <2> QED
    BY <1>1, <2>1, FoundHandler DEF Change
<1>3. /\ when_last_matched' = [when_last_matched EXCEPT ![m] = now]
      /\ observers_match' \in [Msg -> BOOLEAN] /\ heard' \in [Pattern -> Copies]
  BY <1>1, HeardType DEF MatchObservers, TypeOK
<1>4. when_last_matched' \in [Msg -> 0 .. now'] /\ when_last_observer_registered' \in 1 .. now'
  BY <1>1, <1>2, <1>3, ClockOn
<1>5. state' \in [Msg -> {"created", "sent", "handled", "failed"}]
  BY <1>1 DEF TypeOK
<1> QED
  BY <1>1, <1>2, <1>3, <1>4, <1>5 DEF TypeOK, Id, Change, Copies

LEMMA RejectType == ASSUME TypeOK, NEW m \in Msg, Reject(m) PROVE TypeOK'
<1> DEFINE refused == tried[m] \union {Owner[pattern_id[m]]}
<1>1. /\ HasRequest(m) /\ tried' = [tried EXCEPT ![m] = refused] /\ FindHandler(m, refused)
      /\ UNCHANGED <<patterns, registered, in_session, leaving, when_last_observer_registered,
                     state, when_last_matched, observers_match, heard>>
  BY DEF Reject
<1>2. /\ now' \in Nat /\ now <= now' /\ timestamp' \in [Pattern -> 0 .. now']
      /\ pattern_id' \in [Msg -> Id] /\ change' \in Change
  <2>1. change \in Change
    BY DEF TypeOK, Change
  <2> HIDE DEF refused
  <2> QED
    BY <1>1, <2>1, FoundHandler DEF Change
<1>3. refused \subseteq Proc
  BY <1>1, ConstantsAssumption DEF HasRequest, TypeOK
<1>4. tried' \in [Msg -> SUBSET Proc]
  <2> HIDE DEF refused
  <2> QED
    BY <1>1, <1>3 DEF TypeOK
<1>5. when_last_matched' \in [Msg -> 0 .. now'] /\ when_last_observer_registered' \in 1 .. now'
  BY <1>1, <1>2, ClockOn
<1> QED
  BY <1>1, <1>2, <1>4, <1>5 DEF TypeOK, Id, Change, Copies

LEMMA ChangeStateType == ASSUME TypeOK, ChangeState PROVE TypeOK'
<1>1. PICK m \in Msg, s \in {"handled", "failed"} : change = <<m, s>>
  BY DEF TypeOK, ChangeState
<1>2. /\ state' = [state EXCEPT ![m] = s]
      /\ heard' = IF NeedsObserverMatch(m) THEN HeardBy(m, s) ELSE heard
      /\ tried' = [tried EXCEPT ![m] = {}]
      /\ when_last_matched' = [when_last_matched EXCEPT ![m] = 0]
      /\ observers_match' = [observers_match EXCEPT ![m] = FALSE]
      /\ pattern_id' = [pattern_id EXCEPT ![m] = NoPattern]
      /\ change' = NoChange /\ UNCHANGED <<table, leaving, clock>>
  BY <1>1 DEF ChangeState
<1>3. heard' \in [Pattern -> Copies]
  BY <1>2, HeardType DEF TypeOK, Copies
<1>4. when_last_matched' \in [Msg -> 0 .. now]
  BY <1>2 DEF TypeOK
<1> QED
  BY <1>2, <1>3, <1>4 DEF TypeOK, table, clock, Copies

LEMMA AddPatternType == ASSUME TypeOK, NEW p \in Pattern, AddPattern(p) PROVE TypeOK'
<1>1. /\ p \notin registered /\ registered' = registered \union {p}
      /\ patterns' = <<p>> \o patterns
      /\ now' = now + 1
      /\ when_last_observer_registered' =
           IF Category[p] = "observe" THEN now' ELSE when_last_observer_registered
      /\ timestamp' = [timestamp EXCEPT ![p] = IF Category[p] = "push" THEN now' ELSE 0]
      /\ in_session' = [in_session EXCEPT ![p] = p \notin Late]
      /\ UNCHANGED <<leaving, message, change, heard>>
  BY DEF AddPattern
<1>2. now' \in Nat /\ now <= now'
  BY <1>1 DEF TypeOK
<1>3. patterns' \in Seq(registered') /\ IsInjective(patterns') /\ registered' \subseteq Pattern
  <2>1. patterns \in Seq(registered) /\ IsInjective(patterns) /\ registered \subseteq Pattern
    BY DEF TypeOK
  <2> QED
    BY <1>1, <2>1, Pushed
<1>4. timestamp' \in [Pattern -> 0 .. now'] /\ in_session' \in [Pattern -> BOOLEAN]
  BY <1>1, <1>2, ClockOn DEF TypeOK
<1>5. when_last_matched' \in [Msg -> 0 .. now'] /\ when_last_observer_registered' \in 1 .. now'
  BY <1>1, <1>2, ClockOn DEF message
<1> QED
  BY <1>1, <1>2, <1>3, <1>4, <1>5 DEF TypeOK, message

LEMMA ForgetType ==
  ASSUME TypeOK, NEW i \in DOMAIN patterns, Forget(i)
  PROVE  /\ patterns' \in Seq(registered') /\ registered' \subseteq Pattern
         /\ IsInjective(patterns')
         /\ timestamp' \in [Pattern -> 0 .. now] /\ in_session' \in [Pattern -> BOOLEAN]
<1>1. patterns \in Seq(registered) /\ IsInjective(patterns) /\ registered \subseteq Pattern
  BY DEF TypeOK
<1>2. RemoveAt(patterns, i) \in Seq(registered) /\ IsInjective(RemoveAt(patterns, i))
  BY <1>1, Removed
<1> QED
  BY <1>1, <1>2 DEF Forget, TypeOK

LEMMA TypeStep == ASSUME TypeOK, [Next]_vars PROVE TypeOK'
<1>1. CASE ChangeState
  BY <1>1, ChangeStateType
<1>2. CASE PatternDeleted
  <2>1. PICK i \in DOMAIN patterns : Forget(i)
    BY <1>2 DEF PatternDeleted
  <2> QED
    BY <1>2, <2>1, ForgetType DEF PatternDeleted, TypeOK, clock, message
<1>3. CASE Deactivated
  BY <1>3 DEF Deactivated, TypeOK, table, clock, message
<1>4. ASSUME NEW m \in Msg, Dispatch(m) PROVE TypeOK'
  BY <1>4, DispatchType
<1>5. ASSUME NEW m \in Msg, Answer(m) PROVE TypeOK'
  BY <1>5 DEF Answer, TypeOK, table, clock, message
<1>6. ASSUME NEW m \in Msg, Reject(m) PROVE TypeOK'
  BY <1>6, RejectType
<1>7. ASSUME NEW m \in Msg, Orphan(m) PROVE TypeOK'
  BY <1>7 DEF Orphan, TypeOK, table, clock, message
<1>8. ASSUME NEW p \in Pattern, AddPattern(p) PROVE TypeOK'
  BY <1>8, AddPatternType
<1>9. ASSUME NEW p \in Pattern, DelPattern(p) PROVE TypeOK'
  <2>1. PICK i \in DOMAIN patterns : Forget(i)
    BY <1>9 DEF DelPattern
  <2> QED
    BY <1>9, <2>1, ForgetType DEF DelPattern, TypeOK, clock, message
<1>10. ASSUME NEW pr \in Proc, JoinSession(pr) PROVE TypeOK'
  <2>1. in_session' \in [Pattern -> BOOLEAN]
    BY <1>10 DEF JoinSession, TypeOK
  <2> QED
    BY <1>10, <2>1 DEF JoinSession, TypeOK, clock, message
<1>11. ASSUME NEW pr \in Proc, QuitSession(pr) PROVE TypeOK'
  <2>1. in_session' \in [Pattern -> BOOLEAN]
    BY <1>11 DEF QuitSession, TypeOK
  <2> QED
    BY <1>11, <2>1 DEF QuitSession, TypeOK, clock, message
<1>12. ASSUME NEW pr \in Proc, Deactivate(pr) PROVE TypeOK'
  BY <1>12 DEF Deactivate, TypeOK, table, clock, message
<1>13. CASE UNCHANGED vars
  BY <1>13 DEF TypeOK, vars, table, clock, message
<1> QED
  BY <1>1, <1>2, <1>3, <1>4, <1>5, <1>6, <1>7, <1>8, <1>9, <1>10, <1>11, <1>12, <1>13
     DEF Next

LEMMA StampOf ==
  ASSUME NEW i \in DOMAIN AtStart
  PROVE  Stamp(AtStart[i]) = Len(AtStart) + 2 - i
<1>1. \A j \in DOMAIN AtStart : AtStart[j] = AtStart[i] => j = i
  BY ConstantsAssumption DEF IsInjective
<1>2. (CHOOSE j \in DOMAIN AtStart : AtStart[j] = AtStart[i]) = i
  BY <1>1
<1> QED
  BY <1>2 DEF Stamp

LEMMA InitTypes == Init => TypeOK
<1>1. SUFFICES ASSUME Init PROVE TypeOK
  OBVIOUS
<1>2. /\ AtStart \in Seq(Pattern) /\ IsInjective(AtStart) /\ Len(AtStart) \in Nat
      /\ DOMAIN AtStart = 1 .. Len(AtStart)
  BY ConstantsAssumption
<1>3. patterns \in Seq(registered) /\ registered \subseteq Pattern /\ IsInjective(patterns)
  <2>1. patterns = AtStart /\ registered = {AtStart[i] : i \in DOMAIN AtStart}
    BY <1>1 DEF Init, ToSet
  <2> QED
    BY <1>2, <2>1
<1>4. timestamp \in [Pattern -> 0 .. now]
  <2>1. ASSUME NEW p \in registered PROVE Stamp(p) \in 0 .. now
    <3>1. PICK i \in DOMAIN AtStart : p = AtStart[i]
      BY <1>1, <2>1 DEF Init, ToSet
    <3>2. Stamp(p) = Len(AtStart) + 2 - i
      BY <3>1, StampOf
    <3> QED
      BY <1>1, <1>2, <3>2 DEF Init
  <2>2. now \in Nat
    BY <1>1, <1>2 DEF Init
  <2> QED
    BY <1>1, <2>1, <2>2 DEF Init
<1>5. now \in Nat /\ when_last_observer_registered \in 1 .. now
      /\ when_last_matched \in [Msg -> 0 .. now]
  BY <1>1, <1>2 DEF Init
<1> QED
  BY <1>1, <1>3, <1>4, <1>5 DEF Init, TypeOK

(* Every variable keeps its type: what match_handler chooses is a pattern  *)
(* of the table or none, no pattern is in the table twice, and no time is  *)
(* in the future (slib/mp_s_message.C:1027-1340).                          *)
THEOREM TypeCorrect == Spec => []TypeOK
<1>1. Init => TypeOK
  BY InitTypes
<1>2. TypeOK /\ [Next]_vars => TypeOK'
  BY TypeStep
<1> QED
  BY <1>1, <1>2, PTL DEF Spec

-----------------------------------------------------------------------------
(* What the choice of the handler rests on.                                *)

(* Nobody refused a message that was not sent.                             *)
FirstTry == \A m \in Msg : state[m] = "created" => tried[m] = {}

(* Only a message that is open changes its state.                          *)
ChangeIsDue == change # NoChange => state[change[1]] = "sent"

(* In the table of an op the PUSH patterns are in the order of their       *)
(* timestamps.                                                             *)
NewestPushFirst ==
  \A i, j \in DOMAIN patterns :
    (i < j /\ Category[patterns[i]] = "push" /\ Category[patterns[j]] = "push")
      => timestamp[patterns[j]] <= timestamp[patterns[i]]

Inductive == TypeOK /\ FirstTry /\ ChangeIsDue /\ NewestPushFirst

LEMMA InitInductive == Init => Inductive
<1>1. SUFFICES ASSUME Init PROVE Inductive
  OBVIOUS
<1>2. TypeOK
  BY <1>1, InitTypes
<1>3. FirstTry /\ ChangeIsDue
  BY <1>1 DEF Init, FirstTry, ChangeIsDue
<1>4. ASSUME NEW i \in DOMAIN patterns, NEW j \in DOMAIN patterns, i < j,
             Category[patterns[i]] = "push", Category[patterns[j]] = "push"
      PROVE  timestamp[patterns[j]] <= timestamp[patterns[i]]
  <2>1. /\ AtStart \in Seq(Pattern) /\ Len(AtStart) \in Nat
        /\ DOMAIN AtStart = 1 .. Len(AtStart) /\ patterns = AtStart
    BY <1>1, ConstantsAssumption DEF Init
  <2>2. \A k \in DOMAIN AtStart : AtStart[k] \in registered /\ AtStart[k] \in Pattern
    BY <1>1, <2>1 DEF Init, ToSet
  <2>3. /\ timestamp[patterns[i]] = Stamp(AtStart[i])
        /\ timestamp[patterns[j]] = Stamp(AtStart[j])
    BY <1>1, <1>4, <2>1, <2>2 DEF Init
  <2>4. /\ timestamp[patterns[i]] = Len(AtStart) + 2 - i
        /\ timestamp[patterns[j]] = Len(AtStart) + 2 - j
    BY <1>4, <2>1, <2>3, StampOf
  <2> QED
    BY <1>4, <2>1, <2>4
<1> QED
  BY <1>2, <1>3, <1>4 DEF Inductive, NewestPushFirst

LEMMA SameOrder ==
  ASSUME NewestPushFirst, TypeOK, patterns' = patterns,
         \A p \in Pattern : Category[p] = "push" => timestamp'[p] = timestamp[p]
  PROVE  NewestPushFirst'
<1>1. \A i \in DOMAIN patterns : patterns[i] \in Pattern
  BY DEF TypeOK
<1> QED
  BY <1>1 DEF NewestPushFirst

LEMMA ForgetOrder ==
  ASSUME NewestPushFirst, TypeOK, NEW i \in DOMAIN patterns, Forget(i)
  PROVE  NewestPushFirst'
<1> DEFINE at(j) == IF j < i THEN j ELSE j + 1
<1>1. patterns \in Seq(registered) /\ IsInjective(patterns) /\ registered \subseteq Pattern
      /\ Len(patterns) \in Nat /\ DOMAIN patterns = 1 .. Len(patterns)
      /\ timestamp \in [Pattern -> 0 .. now] /\ now \in Nat
  BY DEF TypeOK
<1>2. \A j \in DOMAIN patterns' :
        patterns'[j] = patterns[at(j)] /\ at(j) \in DOMAIN patterns \ {i}
  <2>1. patterns' = RemoveAt(patterns, i)
    BY DEF Forget
  <2>2. \A j \in DOMAIN RemoveAt(patterns, i) :
          /\ RemoveAt(patterns, i)[j] = patterns[IF j < i THEN j ELSE j + 1]
          /\ (IF j < i THEN j ELSE j + 1) \in DOMAIN patterns \ {i}
    BY <1>1, Removed
  <2> QED
    BY <2>1, <2>2
<1>3. patterns' \in Seq(registered)
  BY <1>1, Removed DEF Forget
<1>4. ASSUME NEW j \in DOMAIN patterns' PROVE timestamp'[patterns'[j]] = timestamp[patterns[at(j)]]
  <2>1. at(j) \in DOMAIN patterns /\ at(j) # i /\ patterns'[j] = patterns[at(j)]
    BY <1>2
  <2> HIDE DEF at
  <2>2. patterns[at(j)] # patterns[i] /\ patterns[at(j)] \in Pattern
    BY <1>1, <2>1 DEF IsInjective
  <2> QED
    BY <1>1, <2>1, <2>2 DEF Forget
<1>5. ASSUME NEW j \in DOMAIN patterns', NEW k \in DOMAIN patterns', j < k,
             Category[patterns'[j]] = "push", Category[patterns'[k]] = "push"
      PROVE  timestamp'[patterns'[k]] <= timestamp'[patterns'[j]]
  <2>1. j \in Nat /\ k \in Nat
    BY <1>3
  <2>2. at(j) < at(k)
    BY <1>1, <1>5, <2>1
  <2>3. timestamp[patterns[at(k)]] <= timestamp[patterns[at(j)]]
    <3> HIDE DEF at
    <3> QED
      BY <1>2, <1>5, <2>2 DEF NewestPushFirst
  <2> QED
    BY <1>4, <2>3
<1> QED
  BY <1>5 DEF NewestPushFirst

LEMMA AddPatternOrder ==
  ASSUME NewestPushFirst, TypeOK, NEW p \in Pattern, AddPattern(p)
  PROVE  NewestPushFirst'
<1>1. /\ patterns \in Seq(registered) /\ IsInjective(patterns) /\ registered \subseteq Pattern
      /\ Len(patterns) \in Nat /\ DOMAIN patterns = 1 .. Len(patterns)
      /\ timestamp \in [Pattern -> 0 .. now] /\ now \in Nat
  BY DEF TypeOK
<1>2. /\ p \notin registered /\ patterns' = <<p>> \o patterns /\ now' = now + 1
      /\ timestamp' = [timestamp EXCEPT ![p] = IF Category[p] = "push" THEN now' ELSE 0]
  BY DEF AddPattern
<1>3. /\ DOMAIN patterns' = 1 .. Len(patterns) + 1 /\ patterns'[1] = p
      /\ \A j \in 2 .. Len(patterns) + 1 :
           patterns'[j] = patterns[j - 1] /\ j - 1 \in DOMAIN patterns
  BY <1>1, <1>2, Pushed
<1>4. ASSUME NEW j \in DOMAIN patterns', j # 1
      PROVE  /\ j - 1 \in DOMAIN patterns /\ patterns'[j] = patterns[j - 1]
             /\ patterns[j - 1] \in Pattern
             /\ timestamp'[patterns'[j]] = timestamp[patterns[j - 1]]
  <2>1. j \in 2 .. Len(patterns) + 1
    BY <1>1, <1>3, <1>4
  <2>2. patterns'[j] = patterns[j - 1] /\ j - 1 \in DOMAIN patterns
    BY <1>3, <2>1
  <2>3. patterns[j - 1] \in registered
    BY <1>1, <2>2
  <2> QED
    BY <1>1, <1>2, <2>2, <2>3
<1>5. ASSUME NEW j \in DOMAIN patterns', NEW k \in DOMAIN patterns', j < k,
             Category[patterns'[j]] = "push", Category[patterns'[k]] = "push"
      PROVE  timestamp'[patterns'[k]] <= timestamp'[patterns'[j]]
  <2>1. j \in Nat /\ k \in Nat /\ 1 <= j /\ k # 1
    BY <1>1, <1>3, <1>5
  <2>2. CASE j = 1
    <3>1. timestamp'[patterns'[j]] = now + 1
      BY <1>1, <1>2, <1>3, <1>5, <2>2
    <3>2. timestamp'[patterns'[k]] \in 0 .. now
      BY <1>1, <1>4, <2>1
    <3> QED
      BY <1>1, <3>1, <3>2
  <2>3. CASE j # 1
    <3>1. /\ j - 1 \in DOMAIN patterns /\ patterns'[j] = patterns[j - 1]
          /\ k - 1 \in DOMAIN patterns /\ patterns'[k] = patterns[k - 1]
          /\ timestamp'[patterns'[j]] = timestamp[patterns[j - 1]]
          /\ timestamp'[patterns'[k]] = timestamp[patterns[k - 1]]
      BY <1>4, <2>1, <2>3
    <3>2. j - 1 < k - 1
      BY <1>5, <2>1
    <3>3. timestamp[patterns[k - 1]] <= timestamp[patterns[j - 1]]
      BY <1>5, <3>1, <3>2 DEF NewestPushFirst
    <3> QED
      BY <3>1, <3>3
  <2> QED
    BY <2>2, <2>3
<1> QED
  BY <1>5 DEF NewestPushFirst

LEMMA InductiveStep == ASSUME Inductive, [Next]_vars PROVE Inductive'
<1> USE DEF Inductive
<1>1. TypeOK'
  BY TypeStep
<1>2. CASE ChangeState
  <2>1. /\ change \in Msg \X {"handled", "failed"} /\ change' = NoChange
        /\ state' = [state EXCEPT ![change[1]] = change[2]]
        /\ tried' = [tried EXCEPT ![change[1]] = {}] /\ UNCHANGED table
    BY <1>2 DEF ChangeState, TypeOK
  <2>2. FirstTry'
    BY <2>1 DEF TypeOK, FirstTry
  <2>3. ChangeIsDue' /\ NewestPushFirst'
    BY <2>1, SameOrder DEF ChangeIsDue, table
  <2> QED
    BY <1>1, <2>2, <2>3
<1>3. CASE PatternDeleted
  <2>1. PICK i \in DOMAIN patterns : Forget(i)
    BY <1>3 DEF PatternDeleted
  <2>2. NewestPushFirst'
    BY <2>1, ForgetOrder
  <2> QED
    BY <1>1, <1>3, <2>2 DEF PatternDeleted, FirstTry, ChangeIsDue, message
<1>4. CASE Deactivated
  BY <1>1, <1>4, SameOrder DEF Deactivated, FirstTry, ChangeIsDue, message, table
<1>5. ASSUME NEW m \in Msg, Dispatch(m) PROVE Inductive'
  <2>1. /\ FindHandler(m, {}) /\ change = NoChange /\ patterns' = patterns /\ tried' = tried
        /\ state' = [state EXCEPT ![m] = "sent"]
    BY <1>5 DEF Dispatch, Idle
  <2>2. NewestPushFirst'
    BY <2>1, FoundHandler, SameOrder
  <2>3. change' = NoChange \/ change' = <<m, "failed">>
    BY <2>1, FoundHandler
  <2>4. FirstTry' /\ ChangeIsDue'
    BY <2>1, <2>3 DEF TypeOK, FirstTry, ChangeIsDue
  <2> QED
    BY <1>1, <2>2, <2>4
<1>6. ASSUME NEW m \in Msg, Answer(m) PROVE Inductive'
  BY <1>1, <1>6, SameOrder DEF Answer, HasRequest, FirstTry, ChangeIsDue, message, table
<1>7. ASSUME NEW m \in Msg, Reject(m) PROVE Inductive'
  <2> DEFINE refused == tried[m] \union {Owner[pattern_id[m]]}
  <2>1. /\ FindHandler(m, refused) /\ change = NoChange /\ patterns' = patterns
        /\ tried' = [tried EXCEPT ![m] = refused]
        /\ state' = state /\ state[m] = "sent"
    BY <1>7 DEF Reject, Idle, HasRequest
  <2> HIDE DEF refused
  <2>2. NewestPushFirst'
    BY <2>1, FoundHandler, SameOrder
  <2>3. change' = NoChange \/ change' = <<m, "failed">>
    BY <2>1, FoundHandler
  <2>4. FirstTry' /\ ChangeIsDue'
    BY <2>1, <2>3 DEF TypeOK, FirstTry, ChangeIsDue
  <2> QED
    BY <1>1, <2>2, <2>4
<1>8. ASSUME NEW m \in Msg, Orphan(m) PROVE Inductive'
  BY <1>1, <1>8, SameOrder
     DEF Orphan, Orphaned, HasRequest, FirstTry, ChangeIsDue, message, table
<1>9. ASSUME NEW p \in Pattern, AddPattern(p) PROVE Inductive'
  BY <1>1, <1>9, AddPatternOrder DEF AddPattern, FirstTry, ChangeIsDue, message
<1>10. ASSUME NEW p \in Pattern, DelPattern(p) PROVE Inductive'
  <2>1. PICK i \in DOMAIN patterns : Forget(i)
    BY <1>10 DEF DelPattern
  <2>2. NewestPushFirst'
    BY <2>1, ForgetOrder
  <2> QED
    BY <1>1, <1>10, <2>2 DEF DelPattern, FirstTry, ChangeIsDue, message
<1>11. ASSUME NEW pr \in Proc, JoinSession(pr) PROVE Inductive'
  BY <1>1, <1>11, SameOrder DEF JoinSession, FirstTry, ChangeIsDue, message
<1>12. ASSUME NEW pr \in Proc, QuitSession(pr) PROVE Inductive'
  BY <1>1, <1>12, SameOrder DEF QuitSession, FirstTry, ChangeIsDue, message
<1>13. ASSUME NEW pr \in Proc, Deactivate(pr) PROVE Inductive'
  BY <1>1, <1>13, SameOrder DEF Deactivate, FirstTry, ChangeIsDue, message, table
<1>14. CASE UNCHANGED vars
  BY <1>1, <1>14, SameOrder DEF FirstTry, ChangeIsDue, vars, message, table
<1> QED
  BY <1>2, <1>3, <1>4, <1>5, <1>6, <1>7, <1>8, <1>9, <1>10, <1>11, <1>12, <1>13, <1>14
     DEF Next

LEMMA InductiveHolds == Spec => []Inductive
<1>1. Init => Inductive
  BY InitInductive
<1>2. Inductive /\ [Next]_vars => Inductive'
  BY InductiveStep
<1> QED
  BY <1>1, <1>2, PTL DEF Spec

-----------------------------------------------------------------------------
(* The choice of the handler.                                              *)

CanHandle(p, m, refused) ==
  Category[p] # "observe" /\ Owner[p] \notin refused /\ MatchScore(p, m, "sent") > 0

Taken(p, m) ==
  [pattern |-> p, category |-> Category[p], score |-> MatchScore(p, m, "sent"),
   stamp |-> timestamp[p]]

(* The j-th pattern is no reason not to choose the i-th.                   *)
Suits(i, j, m) ==
  LET p == patterns[i]
      q == patterns[j]
  IN /\ ~Trumps(Category[q], Category[p])
     /\ Category[q] = Category[p] => MatchScore(q, m, "sent") <= MatchScore(p, m, "sent")
     /\ (Category[q] = Category[p] /\ Category[p] # "rotate"
           /\ MatchScore(q, m, "sent") = MatchScore(p, m, "sent")) => i <= j

(* What the loop has after n rounds.                                       *)
RightSoFar(best, n, m, refused) ==
  \/ best = NoBest /\ \A j \in 1 .. n : ~CanHandle(patterns[j], m, refused)
  \/ \E i \in 1 .. n :
       /\ CanHandle(patterns[i], m, refused) /\ best = Taken(patterns[i], m)
       /\ \A j \in 1 .. n : CanHandle(patterns[j], m, refused) => Suits(i, j, m)

(* All PUSH patterns that match a message match it equally well.           *)
PushPatternsTie ==
  \A m \in Msg : \A p, q \in Pattern :
    (Category[p] = "push" /\ Category[q] = "push" /\ Score[p][m] > 0 /\ Score[q][m] > 0)
      => Score[p][m] = Score[q][m]

LEMMA RoundRight ==
  ASSUME Inductive, PushPatternsTie, NEW m \in Msg, NEW refused, NEW best,
         NEW n \in 1 .. Len(patterns), RightSoFar(best, n - 1, m, refused)
  PROVE  RightSoFar(Round(best, patterns[n], m, refused), n, m, refused)
<1> DEFINE p == patterns[n]
           score(k) == MatchScore(patterns[k], m, "sent")
           cat(k) == Category[patterns[k]]
<1>1. /\ Len(patterns) \in Nat /\ n \in Nat /\ 1 <= n /\ DOMAIN patterns = 1 .. Len(patterns)
      /\ \A k \in 1 .. n : patterns[k] \in Pattern /\ k \in Nat
      /\ n - 1 \in Nat /\ \A k \in 1 .. n : k = n \/ (k \in 1 .. n - 1 /\ k < n)
      /\ \A k \in 1 .. n - 1 : k \in 1 .. n
  BY DEF Inductive, TypeOK
<1>2. \A k \in 1 .. n : /\ score(k) \in Nat /\ timestamp[patterns[k]] \in Nat
                        /\ cat(k) \in {"handle", "rotate", "push", "observe"}
  BY <1>1, ScoreType, TypesListed, ConstantsAssumption DEF Inductive, Listed
<1>3. n \in 1 .. n
  BY <1>1
<1>4. CASE ~CanHandle(p, m, refused)
  <2>1. Round(best, p, m, refused) = best
    BY <1>2, <1>3, <1>4 DEF CanHandle, Round, MatchHandler
  <2> QED
    BY <1>1, <1>4, <2>1 DEF RightSoFar
<1>5. CASE CanHandle(p, m, refused) /\ best = NoBest
  <2>1. Round(best, p, m, refused) = Taken(p, m)
    BY <1>2, <1>3, <1>5
       DEF CanHandle, Round, MatchHandler, NoBest, Trumped, NotBetter, Rivals, Taken
  <2>2. \A j \in 1 .. n - 1 : ~CanHandle(patterns[j], m, refused)
    <3>1. \A k \in 1 .. n - 1 : CanHandle(patterns[k], m, refused) => best # Taken(patterns[k], m)
      <4>1. ASSUME NEW k \in 1 .. n - 1, CanHandle(patterns[k], m, refused)
            PROVE  Taken(patterns[k], m).score # NoBest.score
        BY <1>1, <1>2, <4>1 DEF Taken, NoBest, CanHandle
      <4> QED
        BY <1>5, <4>1
    <3> QED
      BY <1>5, <3>1 DEF RightSoFar
  <2>3. Suits(n, n, m)
    BY <1>2, <1>3 DEF Suits, Trumps
  <2> QED
    BY <1>1, <1>3, <1>5, <2>1, <2>2, <2>3 DEF RightSoFar
<1>6. CASE CanHandle(p, m, refused) /\ best # NoBest
  <2>1. PICK i \in 1 .. n - 1 :
          /\ CanHandle(patterns[i], m, refused) /\ best = Taken(patterns[i], m)
          /\ \A j \in 1 .. n - 1 : CanHandle(patterns[j], m, refused) => Suits(i, j, m)
    BY <1>6 DEF RightSoFar
  <2>2. /\ best.category = cat(i) /\ best.score = score(i)
        /\ best.stamp = timestamp[patterns[i]]
    BY <2>1 DEF Taken
  <2>3. i \in 1 .. n /\ i < n /\ cat(i) # "observe" /\ cat(n) # "observe"
        /\ score(i) > 0 /\ score(n) > 0
    BY <1>1, <1>6, <2>1 DEF CanHandle
  <2>4. Round(best, p, m, refused) =
          IF Trumped(best, p) \/ NotBetter(best, p, score(n)) THEN best ELSE Taken(p, m)
    BY <1>2, <1>3, <1>6, <2>3 DEF CanHandle, Round, MatchHandler, Taken
  <2>5. CASE Trumped(best, p) \/ NotBetter(best, p, score(n))
    <3>1. Suits(i, n, m)
      <4>1. ~Trumps(cat(n), cat(i))
        BY <2>2, <2>5 DEF Trumps, Trumped, NotBetter, Rivals
      <4>2. cat(n) = cat(i) => score(n) <= score(i)
        BY <1>2, <1>3, <2>2, <2>3, <2>5 DEF Trumped, NotBetter, Rivals
      <4>3. i <= n
        BY <1>1, <2>3
      <4> QED
        BY <4>1, <4>2, <4>3 DEF Suits
    <3> QED
      BY <1>1, <2>1, <2>3, <2>4, <2>5, <3>1 DEF RightSoFar
  <2>6. CASE ~(Trumped(best, p) \/ NotBetter(best, p, score(n)))
    <3>1. cat(n) = "push" => cat(i) # "push"
      <4>1. SUFFICES ASSUME cat(n) = "push", cat(i) = "push" PROVE FALSE
        OBVIOUS
      <4>2. score(i) = score(n)
        <5>1. \A k \in 1 .. n : score(k) > 0 => score(k) = Score[patterns[k]][m]
          BY <1>1, ConstantsAssumption DEF MatchScore
        <5>2. score(i) = Score[patterns[i]][m] /\ score(n) = Score[patterns[n]][m]
          BY <1>3, <2>3, <5>1
        <5>3. Score[patterns[i]][m] > 0 /\ Score[patterns[n]][m] > 0
          BY <2>3, <5>2
        <5>4. patterns[i] \in Pattern /\ patterns[n] \in Pattern
          BY <1>1, <1>3, <2>3
        <5> QED
          BY <4>1, <5>2, <5>3, <5>4 DEF PushPatternsTie
      <4>3. timestamp[patterns[n]] <= timestamp[patterns[i]]
        <5>1. i \in DOMAIN patterns /\ n \in DOMAIN patterns /\ i < n
          BY <1>1, <2>3
        <5> QED
          BY <4>1, <5>1 DEF Inductive, NewestPushFirst
      <4> QED
        BY <1>2, <1>3, <2>2, <2>3, <2>6, <4>1, <4>2, <4>3 DEF NotBetter, Rivals
    <3>2. cat(n) = "rotate" => cat(i) # "push" /\ (cat(i) = "rotate" => score(n) >= score(i))
      BY <1>2, <1>3, <2>2, <2>3, <2>6 DEF Trumped, NotBetter, Rivals
    <3>3. cat(n) = "handle" => cat(i) = "handle" /\ score(n) > score(i)
      BY <1>2, <1>3, <2>2, <2>3, <2>6 DEF Trumped, NotBetter, Rivals
    <3>4. ASSUME NEW j \in 1 .. n, CanHandle(patterns[j], m, refused) PROVE Suits(n, j, m)
      <4>1. CASE j = n
        BY <1>1, <1>2, <4>1 DEF Suits, Trumps
      <4>2. CASE j # n
        <5>1. j \in 1 .. n - 1 /\ j \in 1 .. n
          BY <1>1, <4>2
        <5>2. /\ ~Trumps(cat(j), cat(i))
              /\ cat(j) = cat(i) => score(j) <= score(i)
          BY <2>1, <3>4, <5>1 DEF Suits
        <5>3. cat(j) # "observe" /\ cat(n) \in {"handle", "rotate", "push", "observe"}
              /\ cat(i) \in {"handle", "rotate", "push", "observe"}
          BY <1>2, <1>3, <2>3, <3>4 DEF CanHandle
        <5>4. score(j) \in Nat /\ score(n) \in Nat /\ score(i) \in Nat
          BY <1>2, <1>3, <2>3, <5>1
        <5>5. CASE cat(n) = "push"
          BY <2>3, <3>1, <5>2, <5>3, <5>5 DEF Suits, Trumps
        <5>6. CASE cat(n) = "rotate"
          BY <2>3, <3>2, <5>2, <5>3, <5>4, <5>6 DEF Suits, Trumps
        <5>7. CASE cat(n) = "handle"
          BY <2>3, <3>3, <5>2, <5>3, <5>4, <5>7 DEF Suits, Trumps
        <5> QED
          BY <2>3, <5>3, <5>5, <5>6, <5>7
      <4> QED
        BY <4>1, <4>2
    <3> QED
      BY <1>3, <1>6, <2>4, <2>6, <3>4 DEF RightSoFar
  <2> QED
    BY <2>5, <2>6
<1> QED
  BY <1>4, <1>5, <1>6

LEMMA LoopRight ==
  ASSUME Inductive, PushPatternsTie, NEW m \in Msg, NEW refused
  PROVE  RightSoFar(Rounds(m, refused)[Len(patterns)], Len(patterns), m, refused)
<1> DEFINE L == Len(patterns)
           r == Rounds(m, refused)
           T == {n \in Nat : n <= L => RightSoFar(r[n], n, m, refused)}
<1>1. L \in Nat
  BY DEF Inductive, TypeOK
<1>2. r[0] = NoBest /\ \A n \in 1 .. L : r[n] = Round(r[n - 1], patterns[n], m, refused)
  BY RoundsDefined, TypesListed DEF Inductive
<1>3. 0 \in T
  BY <1>2 DEF RightSoFar
<1>4. ASSUME NEW n \in T PROVE n + 1 \in T
  <2>1. SUFFICES ASSUME n + 1 <= L PROVE RightSoFar(r[n + 1], n + 1, m, refused)
    OBVIOUS
  <2>2. n + 1 \in 1 .. L /\ (n + 1) - 1 = n /\ n <= L
    BY <1>1, <2>1
  <2>3. RightSoFar(r[n], n, m, refused) /\ r[n + 1] = Round(r[n], patterns[n + 1], m, refused)
    BY <1>2, <2>2
  <2> HIDE DEF r
  <2> QED
    BY <2>2, <2>3, RoundRight
<1>5. T = Nat
  <2> HIDE DEF T
  <2>1. T \in SUBSET Nat
    BY DEF T
  <2> QED
    BY <1>3, <1>4, <2>1, Induction
<1> QED
  BY <1>1, <1>5

LEMMA ChoiceRight ==
  ASSUME Inductive, PushPatternsTie, NEW m \in Msg, NEW refused, tried'[m] = refused,
         pattern_id'[m] = BestHandler(m, refused)
  PROVE  RightChoice(m)
<1> DEFINE L == Len(patterns)
           best == Rounds(m, refused)[L]
           able == Eligible(m, refused)
           p == pattern_id'[m]
<1>1. /\ L \in Nat /\ DOMAIN patterns = 1 .. L /\ IsInjective(patterns)
      /\ \A i \in 1 .. L : patterns[i] \in Pattern
  BY DEF Inductive, TypeOK
<1>2. \A q : q \in able <=> \E j \in 1 .. L : q = patterns[j] /\ CanHandle(q, m, refused)
  BY <1>1 DEF Eligible, CanHandle, ToSet
<1>3. p = best.pattern
  BY DEF BestHandler
<1>4. RightSoFar(best, L, m, refused)
  BY LoopRight
<1>5. \A q \in able : Score[q][m] = MatchScore(q, m, "sent")
  BY <1>1, <1>2, ConstantsAssumption DEF CanHandle, MatchScore
<1> HIDE DEF best, able, L
<1>6. CASE best = NoBest /\ \A j \in 1 .. L : ~CanHandle(patterns[j], m, refused)
  <2>1. able = {} /\ p = NoPattern
    BY <1>2, <1>3, <1>6 DEF NoBest
  <2> QED
    BY <2>1 DEF RightChoice, able
<1>7. ASSUME NEW i \in 1 .. L, CanHandle(patterns[i], m, refused), best = Taken(patterns[i], m),
             \A j \in 1 .. L : CanHandle(patterns[j], m, refused) => Suits(i, j, m)
      PROVE  RightChoice(m)
  <2>1. p = patterns[i] /\ p \in able
    BY <1>2, <1>3, <1>7 DEF Taken
  <2> HIDE DEF p
  <2>2. ASSUME NEW q \in able
        PROVE  /\ ~Trumps(Category[q], Category[p])
               /\ Category[q] = Category[p] => Score[q][m] <= Score[p][m]
               /\ (Category[q] = Category[p] /\ Category[p] # "rotate"
                     /\ Score[q][m] = Score[p][m]) => ~Newer(q, p)
    <3>1. PICK j \in 1 .. L : q = patterns[j] /\ CanHandle(q, m, refused)
      BY <1>2
    <3>2. Suits(i, j, m)
      BY <1>7, <3>1
    <3>3. Score[q][m] = MatchScore(q, m, "sent") /\ Score[p][m] = MatchScore(p, m, "sent")
      BY <1>5, <2>1
    <3>4. i <= j => ~Newer(q, p)
      <4>1. ASSUME NEW k \in DOMAIN patterns, NEW l \in DOMAIN patterns,
                   k < l, patterns[k] = q, patterns[l] = p, i <= j
            PROVE  FALSE
        <5>1. k = j /\ l = i
          BY <1>1, <2>1, <3>1, <4>1 DEF IsInjective
        <5> QED
          BY <1>1, <4>1, <5>1
      <4> QED
        BY <4>1 DEF Newer
    <3> QED
      BY <2>1, <3>1, <3>2, <3>3, <3>4 DEF Suits
  <2>3. able # {}
    BY <2>1
  <2> QED
    BY <2>1, <2>2, <2>3 DEF RightChoice, able, p
<1> QED
  BY <1>4, <1>6, <1>7 DEF RightSoFar

LEMMA StepChoosesBest ==
  ASSUME Inductive, PushPatternsTie, [Next]_vars, NEW m \in Msg, Chosen(m)
  PROVE  RightChoice(m)
<1>1. ASSUME NEW k \in Msg, Dispatch(k) PROVE RightChoice(m)
  <2>1. /\ state' = [state EXCEPT ![k] = "sent"] /\ tried' = tried
        /\ FindHandler(k, {}) /\ state[k] = "created"
    BY <1>1 DEF Dispatch
  <2>2. m = k
    BY <2>1 DEF Chosen, Inductive, TypeOK
  <2>3. tried'[m] = {}
    BY <2>1, <2>2 DEF Inductive, FirstTry
  <2>4. pattern_id' = [pattern_id EXCEPT ![m] = BestHandler(m, {})]
    BY <2>1, <2>2, FoundHandler DEF Inductive
  <2>5. pattern_id'[m] = BestHandler(m, {})
    BY <2>4 DEF Inductive, TypeOK
  <2> QED
    BY <2>3, <2>5, ChoiceRight
<1>2. ASSUME NEW k \in Msg, Reject(k) PROVE RightChoice(m)
  <2> DEFINE refused == tried[k] \union {Owner[pattern_id[k]]}
  <2>1. /\ state' = state /\ tried' = [tried EXCEPT ![k] = refused]
        /\ FindHandler(k, refused)
    BY <1>2 DEF Reject
  <2> HIDE DEF refused
  <2>2. m = k /\ tried'[m] = refused
    BY <2>1 DEF Chosen, Inductive, TypeOK
  <2>3. pattern_id' = [pattern_id EXCEPT ![m] = BestHandler(m, refused)]
    BY <2>1, <2>2, FoundHandler DEF Inductive
  <2>4. pattern_id'[m] = BestHandler(m, refused)
    BY <2>3 DEF Inductive, TypeOK
  <2> QED
    BY <2>2, <2>4, ChoiceRight
<1>3. CASE ChangeState
  <2>1. /\ change \in Msg \X {"handled", "failed"}
        /\ state' = [state EXCEPT ![change[1]] = change[2]]
        /\ tried' = [tried EXCEPT ![change[1]] = {}]
    BY <1>3 DEF ChangeState, Inductive, TypeOK
  <2> QED
    BY <2>1 DEF Chosen, Inductive, TypeOK
<1>4. CASE UNCHANGED <<state, tried>>
  BY <1>4 DEF Chosen
<1>5. CASE \/ PatternDeleted \/ Deactivated
           \/ \E k \in Msg : Answer(k) \/ Orphan(k)
           \/ \E p \in Pattern : AddPattern(p) \/ DelPattern(p)
           \/ \E pr \in Proc : JoinSession(pr) \/ QuitSession(pr) \/ Deactivate(pr)
           \/ UNCHANGED vars
  <2>1. UNCHANGED <<state, tried>>
    BY <1>5 DEF PatternDeleted, Deactivated, Answer, Orphan, AddPattern, DelPattern,
                JoinSession, QuitSession, Deactivate, message, vars
  <2> QED
    BY <1>4, <2>1
<1> QED
  BY <1>1, <1>2, <1>3, <1>5 DEF Next

(* A request goes to the pattern that the categories, the scores and the   *)
(* clock call for, whatever patterns there are and whoever refused it      *)
(* (slib/mp_s_message.C:1157-1340).  Where PUSH patterns match a message   *)
(* unequally the code chooses otherwise (1258-1260).                       *)
THEOREM TheBestIsChosen == PushPatternsTie => (Spec => BestIsChosen)
<1>1. SUFFICES ASSUME PushPatternsTie PROVE Spec => BestIsChosen
  OBVIOUS
<1>2. Inductive /\ [Next]_vars => \A m \in Msg : Chosen(m) => RightChoice(m)
  BY <1>1, StepChoosesBest
<1> QED
  BY <1>2, InductiveHolds, PTL DEF Spec, BestIsChosen

-----------------------------------------------------------------------------
(* What observers hear.                                                    *)

(* No observer asks for final states only: it would be passed over.        *)
ObserveFromTheStart ==
  \A p \in Pattern : Category[p] = "observe" => States[p] = {} \/ "sent" \in States[p]

(* A step brings no observer that has registered into the session.         *)
NobodyJoins ==
  \A p \in ToSet(patterns) : Category[p] = "observe" /\ in_session'[p] => in_session[p]

NobodyJoinsLate == [][NobodyJoins]_vars

(* Where needs_observer_match says no, nobody observes the message.        *)
NobodyWatches(m) ==
  \A p \in ToSet(patterns) : Category[p] = "observe" => MatchScore(p, m, "sent") = 0

NothingMissed ==
  \A m \in Msg :
    (state[m] = "sent" /\ ~observers_match[m]
       /\ when_last_observer_registered <= when_last_matched[m]) => NobodyWatches(m)

LEMMA AllVisible ==
  ASSUME TypeOK, leaving = NoProc, NEW m, NEW s
  PROVE  Observers(m, s) = Watching(m, s)
<1>1. \A i \in DOMAIN patterns : patterns[i] \in Pattern
  BY DEF TypeOK
<1>2. \A i \in DOMAIN patterns : Owner[patterns[i]] # leaving
  BY <1>1, ConstantsAssumption
<1>3. Visible = DOMAIN patterns
  BY <1>2 DEF Visible
<1> QED
  BY <1>3 DEF Observers, Watching, ToSet

(* A message that goes on as it was misses nobody, if no observer turns up. *)
LEMMA StillNobody ==
  ASSUME TypeOK, NEW m \in Msg, NobodyWatches(m), NobodyJoins,
         \A p \in ToSet(patterns') : Category[p] = "observe" => p \in ToSet(patterns),
         in_session' \in [Pattern -> BOOLEAN]
  PROVE  NobodyWatches(m)'
<1>1. ASSUME NEW p \in ToSet(patterns'), Category[p] = "observe"
      PROVE  MatchScore(p, m, "sent")' = 0
  <2>1. p \in ToSet(patterns) /\ MatchScore(p, m, "sent") = 0
    BY <1>1 DEF NobodyWatches
  <2>2. p \in Pattern
    BY <2>1 DEF TypeOK, ToSet
  <2>3. in_session'[p] => in_session[p]
    BY <1>1, <2>1 DEF NobodyJoins
  <2> QED
    BY <2>1, <2>2, <2>3 DEF MatchScore
<1> QED
  BY <1>1 DEF NobodyWatches

LEMMA ForgetsOnly ==
  ASSUME TypeOK, NEW i \in DOMAIN patterns, Forget(i)
  PROVE  ToSet(patterns') \subseteq ToSet(patterns)
<1>1. patterns \in Seq(registered) /\ IsInjective(patterns) /\ patterns' = RemoveAt(patterns, i)
  BY DEF TypeOK, Forget
<1>2. \A j \in DOMAIN RemoveAt(patterns, i) :
        /\ RemoveAt(patterns, i)[j] = patterns[IF j < i THEN j ELSE j + 1]
        /\ (IF j < i THEN j ELSE j + 1) \in DOMAIN patterns
  BY <1>1, Removed
<1> QED
  BY <1>1, <1>2 DEF ToSet

LEMMA NothingMissedStep ==
  ASSUME Inductive, NothingMissed, NobodyJoins \/ UNCHANGED vars, [Next]_vars
  PROVE  NothingMissed'
<1> USE DEF Inductive
<1>0. TypeOK'
  BY TypeStep
<1>1. SUFFICES ASSUME NEW m \in Msg, state'[m] = "sent", ~observers_match'[m],
                      when_last_observer_registered' <= when_last_matched'[m]
               PROVE  NobodyWatches(m)'
  BY DEF NothingMissed
<1>2. CASE UNCHANGED vars
  <2>1. NobodyWatches(m)
    BY <1>1, <1>2 DEF NothingMissed, vars, message, clock
  <2> QED
    BY <1>2, <2>1 DEF NobodyWatches, MatchScore, vars, table
<1>3. ASSUME NobodyJoins,
             state[m] = "sent", ~observers_match[m],
             when_last_observer_registered <= when_last_matched[m],
             \A p \in ToSet(patterns') : Category[p] = "observe" => p \in ToSet(patterns)
      PROVE  NobodyWatches(m)'
  <2>1. NobodyWatches(m)
    BY <1>3 DEF NothingMissed
  <2>2. in_session' \in [Pattern -> BOOLEAN]
    BY <1>0 DEF TypeOK
  <2> QED
    BY <1>3, <2>1, <2>2, StillNobody
<1>4. CASE ChangeState /\ NobodyJoins
  <2>1. PICK k \in Msg, s \in {"handled", "failed"} : change = <<k, s>>
    BY <1>4 DEF TypeOK, ChangeState
  <2>2. /\ state' = [state EXCEPT ![k] = s]
        /\ when_last_matched' = [when_last_matched EXCEPT ![k] = 0]
        /\ observers_match' = [observers_match EXCEPT ![k] = FALSE]
        /\ UNCHANGED <<table, clock>>
    BY <1>4, <2>1 DEF ChangeState
  <2>3. m # k
    BY <1>1, <2>2 DEF TypeOK
  <2> QED
    BY <1>1, <1>3, <1>4, <2>2, <2>3 DEF TypeOK, table, clock
<1>5. ASSUME NEW k \in Msg, Dispatch(k), NobodyJoins PROVE NobodyWatches(m)'
  <2>1. /\ state' = [state EXCEPT ![k] = "sent"] /\ MatchObservers(k) /\ leaving = NoProc
        /\ UNCHANGED <<patterns, in_session, when_last_observer_registered>>
    BY <1>5 DEF Dispatch, Idle
  <2>2. /\ observers_match' = [observers_match EXCEPT ![k] = Observers(k, "sent") # {}]
        /\ when_last_matched' = [when_last_matched EXCEPT ![k] = now]
    BY <2>1 DEF MatchObservers
  <2>3. CASE m = k
    <3>1. Watching(m, "sent") = {}
      <4>1. Observers(m, "sent") = {}
        BY <1>1, <2>2, <2>3 DEF TypeOK
      <4> QED
        BY <2>1, <4>1, AllVisible
    <3>2. \A p \in ToSet(patterns) : Category[p] = "observe" => MatchScore(p, m, "sent") \in Nat
      <4>1. \A p \in ToSet(patterns) : p \in Pattern
        BY DEF TypeOK, ToSet
      <4> QED
        BY <4>1, ScoreType, TypesListed
    <3>3. NobodyWatches(m)
      BY <3>1, <3>2 DEF Watching, NobodyWatches
    <3> QED
      BY <2>1, <3>3 DEF NobodyWatches, MatchScore
  <2>4. CASE m # k
    <3>1. state'[m] = state[m] /\ observers_match'[m] = observers_match[m]
          /\ when_last_matched'[m] = when_last_matched[m]
      BY <2>1, <2>2, <2>4 DEF TypeOK
    <3> QED
      BY <1>1, <1>3, <1>5, <2>1, <3>1
  <2> QED
    BY <2>3, <2>4
<1>6. ASSUME NEW p \in Pattern, AddPattern(p), NobodyJoins PROVE NobodyWatches(m)'
  <2>1. /\ patterns' = <<p>> \o patterns /\ now' = now + 1 /\ UNCHANGED message
        /\ p \notin registered
        /\ when_last_observer_registered' =
             IF Category[p] = "observe" THEN now' ELSE when_last_observer_registered
    BY <1>6 DEF AddPattern
  <2>2. now \in Nat /\ when_last_matched[m] \in 0 .. now
    BY DEF TypeOK
  <2>3. Category[p] # "observe"
    BY <1>1, <2>1, <2>2 DEF message
  <2>4. \A q \in ToSet(patterns') : q = p \/ q \in ToSet(patterns)
    <3>1. patterns \in Seq(registered) /\ IsInjective(patterns)
      BY DEF TypeOK
    <3>2. /\ DOMAIN (<<p>> \o patterns) = 1 .. Len(patterns) + 1
          /\ (<<p>> \o patterns)[1] = p
          /\ \A j \in 2 .. Len(patterns) + 1 :
               (<<p>> \o patterns)[j] = patterns[j - 1] /\ j - 1 \in DOMAIN patterns
      BY <2>1, <3>1, Pushed
    <3>3. Len(patterns) \in Nat
      BY <3>1
    <3>4. \A j \in 1 .. Len(patterns) + 1 : j = 1 \/ j \in 2 .. Len(patterns) + 1
      BY <3>3
    <3> QED
      BY <2>1, <3>2, <3>4 DEF ToSet
  <2> QED
    BY <1>1, <1>3, <1>6, <2>1, <2>3, <2>4 DEF message
<1>7. ASSUME NEW i \in DOMAIN patterns, Forget(i), UNCHANGED <<clock, message>>, NobodyJoins
      PROVE  NobodyWatches(m)'
  BY <1>1, <1>3, <1>7, ForgetsOnly DEF clock, message
<1>8. CASE PatternDeleted /\ NobodyJoins
  BY <1>7, <1>8 DEF PatternDeleted
<1>9. ASSUME NEW p \in Pattern, DelPattern(p), NobodyJoins PROVE NobodyWatches(m)'
  BY <1>7, <1>9 DEF DelPattern
<1>10. ASSUME NEW k \in Msg, Reject(k), NobodyJoins PROVE NobodyWatches(m)'
  BY <1>1, <1>3, <1>10 DEF Reject
<1>11. CASE /\ NobodyJoins
            /\ \/ Deactivated
               \/ \E k \in Msg : Answer(k) \/ Orphan(k)
               \/ \E pr \in Proc : JoinSession(pr) \/ QuitSession(pr) \/ Deactivate(pr)
  <2>1. UNCHANGED <<patterns, state, observers_match, when_last_matched,
                    when_last_observer_registered>>
    BY <1>11 DEF Deactivated, Answer, Orphan, JoinSession, QuitSession, Deactivate,
                 table, clock, message
  <2> QED
    BY <1>1, <1>3, <1>11, <2>1
<1> QED
  BY <1>2, <1>4, <1>5, <1>6, <1>8, <1>9, <1>10, <1>11 DEF Next

(* What the property asks of a step.                                       *)
Heard(m) ==
  (state'[m] # state[m] /\ leaving = NoProc) =>
    \A p \in Watching(m, state'[m]) : <<m, state'[m]>> \in heard'[p]

LEMMA AllHear ==
  ASSUME Inductive, NothingMissed, ObserveFromTheStart, [Next]_vars, NEW m \in Msg
  PROVE  Heard(m)
<1> USE DEF Inductive
<1>1. \A s : \A p \in Watching(m, s) : p \in Pattern
  BY DEF Watching, ToSet, TypeOK
<1>2. ASSUME NEW k \in Msg, Dispatch(k) PROVE Heard(m)
  <2>1. state' = [state EXCEPT ![k] = "sent"] /\ MatchObservers(k) /\ leaving = NoProc
    BY <1>2 DEF Dispatch, Idle
  <2>2. heard' = HeardBy(k, "sent") /\ Observers(k, "sent") = Watching(k, "sent")
    BY <2>1, AllVisible DEF MatchObservers
  <2>3. state'[m] # state[m] => m = k /\ state'[m] = "sent"
    BY <2>1 DEF TypeOK
  <2> QED
    BY <1>1, <2>2, <2>3 DEF Heard, HeardBy
<1>3. CASE ChangeState
  <2>1. PICK k \in Msg, s \in {"handled", "failed"} : change = <<k, s>>
    BY <1>3 DEF TypeOK, ChangeState
  <2>2. /\ state' = [state EXCEPT ![k] = s] /\ state[k] = "sent"
        /\ heard' = IF NeedsObserverMatch(k) THEN HeardBy(k, s) ELSE heard
    BY <1>3, <2>1 DEF ChangeState, ChangeIsDue
  <2>3. state'[m] # state[m] => m = k /\ state'[m] = s
    BY <2>2 DEF TypeOK
  <2>4. CASE NeedsObserverMatch(k)
    <3>1. ASSUME leaving = NoProc, m = k PROVE \A p \in Watching(m, s) : <<m, s>> \in heard'[p]
      <4>1. Observers(k, s) = Watching(k, s)
        BY <3>1, AllVisible
      <4> QED
        BY <1>1, <2>2, <2>4, <3>1, <4>1 DEF HeardBy
    <3> QED
      BY <2>3, <3>1 DEF Heard
  <2>5. CASE ~NeedsObserverMatch(k)
    <3>1. ~observers_match[k] /\ when_last_observer_registered <= when_last_matched[k]
      <4>1. /\ when_last_matched[k] \in Nat /\ when_last_observer_registered \in Nat
        BY DEF TypeOK
      <4> QED
        BY <2>5, <4>1 DEF NeedsObserverMatch
    <3>2. NobodyWatches(k)
      BY <2>2, <3>1 DEF NothingMissed
    <3>3. ASSUME NEW p \in Watching(k, s) PROVE FALSE
      <4>1. p \in ToSet(patterns) /\ Category[p] = "observe" /\ MatchScore(p, k, s) > 0
        BY DEF Watching
      <4>2. p \in Pattern
        BY <4>1 DEF ToSet, TypeOK
      <4>3. MatchScore(p, k, "sent") = 0
        BY <3>2, <4>1 DEF NobodyWatches
      <4>4. MatchScore(p, k, s) = MatchScore(p, k, "sent")
        BY <4>1, <4>2, ConstantsAssumption DEF MatchScore, ObserveFromTheStart
      <4> QED
        BY <4>1, <4>3, <4>4
    <3> QED
      BY <2>3, <3>3 DEF Heard
  <2> QED
    BY <2>4, <2>5
<1>4. CASE \/ PatternDeleted \/ Deactivated
           \/ \E k \in Msg : Answer(k) \/ Reject(k) \/ Orphan(k)
           \/ \E p \in Pattern : AddPattern(p) \/ DelPattern(p)
           \/ \E pr \in Proc : JoinSession(pr) \/ QuitSession(pr) \/ Deactivate(pr)
           \/ UNCHANGED vars
  <2>1. UNCHANGED state
    BY <1>4 DEF PatternDeleted, Deactivated, Answer, Reject, Orphan, AddPattern, DelPattern,
                JoinSession, QuitSession, Deactivate, message, vars
  <2> QED
    BY <2>1 DEF Heard
<1> QED
  BY <1>2, <1>3, <1>4 DEF Next

(* Nobody who observes a message misses a state of it, for any patterns    *)
(* and messages: the matching that needs_observer_match saves              *)
(* (slib/mp_s_message.C:205-224) would find nobody.  That takes observers  *)
(* that match when the message is sent if they match at all and that do    *)
(* not join the session with patterns they registered before; the code     *)
(* passes over others.                                                     *)
THEOREM NobodyIsPassedOver == ObserveFromTheStart => (Spec /\ NobodyJoinsLate => ObserversHear)
<1>1. SUFFICES ASSUME ObserveFromTheStart PROVE Spec /\ NobodyJoinsLate => ObserversHear
  OBVIOUS
<1>2. Init => NothingMissed
  BY DEF Init, NothingMissed
<1>3. Inductive /\ NothingMissed /\ [NobodyJoins]_vars /\ [Next]_vars => NothingMissed'
  BY NothingMissedStep
<1>4. Inductive /\ NothingMissed /\ [Next]_vars => \A m \in Msg : Heard(m)
  BY <1>1, AllHear
<1> QED
  BY <1>2, <1>3, <1>4, InductiveHolds, PTL DEF Spec, NobodyJoinsLate, ObserversHear, Heard

-----------------------------------------------------------------------------
(* The ROTATE patterns take turns.                                         *)

(* No two of them had their last turn at the same time.                    *)
TurnsDiffer ==
  \A p, q \in Pattern :
    (Category[p] = "rotate" /\ Category[q] = "rotate" /\ timestamp[p] > 0
       /\ timestamp[p] = timestamp[q]) => p = q

LEMMA Stamped ==
  ASSUME TypeOK, NEW m \in Msg, NEW refused, FindHandler(m, refused)
  PROVE  \/ /\ BestHandler(m, refused) \in Pattern
            /\ Category[BestHandler(m, refused)] = "rotate"
            /\ timestamp' = [timestamp EXCEPT ![BestHandler(m, refused)] = now + 1]
         \/ /\ \/ BestHandler(m, refused) = NoPattern
               \/ Category[BestHandler(m, refused)] # "rotate"
            /\ timestamp' = timestamp
<1>1. BestHandler(m, refused) \in Pattern \union {NoPattern}
  BY BestHandlerType
<1> QED
  BY <1>1 DEF FindHandler, HandOver

LEMMA TurnsDifferStep == ASSUME TypeOK, TurnsDiffer, [Next]_vars PROVE TurnsDiffer'
<1>1. timestamp \in [Pattern -> 0 .. now] /\ now \in Nat
  BY DEF TypeOK
<1>2. CASE timestamp' = timestamp
  BY <1>2 DEF TurnsDiffer
<1>3. ASSUME NEW p \in Pattern, timestamp' = [timestamp EXCEPT ![p] = now + 1]
      PROVE  TurnsDiffer'
  <2>1. \A q \in Pattern : timestamp[q] \in Nat /\ timestamp[q] # now + 1
    BY <1>1
  <2> QED
    BY <1>1, <1>3, <2>1 DEF TurnsDiffer
<1>4. ASSUME NEW p \in Pattern, timestamp' = [timestamp EXCEPT ![p] = 0]
      PROVE  TurnsDiffer'
  BY <1>1, <1>4 DEF TurnsDiffer
<1>5. ASSUME NEW m \in Msg, NEW refused, FindHandler(m, refused) PROVE TurnsDiffer'
  BY <1>2, <1>3, <1>5, Stamped
<1>6. ASSUME NEW m \in Msg, Dispatch(m) \/ Reject(m) PROVE TurnsDiffer'
  <2>1. \E refused : FindHandler(m, refused)
    BY <1>6 DEF Dispatch, Reject
  <2> QED
    BY <1>5, <2>1
<1>7. ASSUME NEW p \in Pattern, AddPattern(p) PROVE TurnsDiffer'
  <2>1. timestamp' = [timestamp EXCEPT ![p] = IF Category[p] = "push" THEN now + 1 ELSE 0]
    BY <1>7 DEF AddPattern
  <2> QED
    BY <1>3, <1>4, <2>1
<1>8. ASSUME NEW i \in DOMAIN patterns, Forget(i) PROVE TurnsDiffer'
  <2>1. patterns[i] \in Pattern
    BY DEF TypeOK
  <2> QED
    BY <1>4, <1>8, <2>1 DEF Forget
<1>9. CASE PatternDeleted \/ \E p \in Pattern : DelPattern(p)
  BY <1>8, <1>9 DEF PatternDeleted, DelPattern
<1>10. CASE \/ ChangeState \/ Deactivated
            \/ \E m \in Msg : Answer(m) \/ Orphan(m)
            \/ \E pr \in Proc : JoinSession(pr) \/ QuitSession(pr) \/ Deactivate(pr)
            \/ UNCHANGED vars
  <2>1. timestamp' = timestamp
    BY <1>10 DEF ChangeState, Deactivated, Answer, Orphan, JoinSession, QuitSession,
                 Deactivate, table, vars
  <2> QED
    BY <1>2, <2>1
<1> QED
  BY <1>6, <1>7, <1>9, <1>10 DEF Next

(* Of two ROTATE patterns the i-th goes before the j-th or is the j-th.    *)
GoesFirst(i, j, m) ==
  LET p == patterns[i]
      q == patterns[j]
  IN \/ MatchScore(q, m, "sent") < MatchScore(p, m, "sent")
     \/ /\ MatchScore(q, m, "sent") = MatchScore(p, m, "sent")
        /\ timestamp[p] < timestamp[q] \/ (timestamp[p] = timestamp[q] /\ j <= i)

(* What the loop knows of the ROTATE patterns after n rounds.              *)
TurnSoFar(best, n, m, refused) ==
  \/ best.category = "push"
  \/ /\ best.category \in {"undefined", "handle"}
     /\ \A j \in 1 .. n : CanHandle(patterns[j], m, refused) => Category[patterns[j]] # "rotate"
  \/ \E i \in 1 .. n :
       /\ CanHandle(patterns[i], m, refused) /\ Category[patterns[i]] = "rotate"
       /\ best = Taken(patterns[i], m)
       /\ \A j \in 1 .. n :
            (CanHandle(patterns[j], m, refused) /\ Category[patterns[j]] = "rotate")
              => GoesFirst(i, j, m)

LEMMA RoundTurn ==
  ASSUME TypeOK, NEW m \in Msg, NEW refused, NEW best,
         NEW n \in 1 .. Len(patterns), TurnSoFar(best, n - 1, m, refused)
  PROVE  TurnSoFar(Round(best, patterns[n], m, refused), n, m, refused)
<1> DEFINE p == patterns[n]
           score(k) == MatchScore(patterns[k], m, "sent")
           cat(k) == Category[patterns[k]]
           ts(k) == timestamp[patterns[k]]
           able(k) == CanHandle(patterns[k], m, refused)
<1>1. /\ Len(patterns) \in Nat /\ n \in Nat /\ 1 <= n
      /\ \A k \in 1 .. n : patterns[k] \in Pattern /\ k \in Nat
      /\ n - 1 \in Nat /\ \A k \in 1 .. n : k = n \/ (k \in 1 .. n - 1 /\ k < n)
      /\ \A k \in 1 .. n - 1 : k \in 1 .. n
  BY DEF TypeOK
<1>2. \A k \in 1 .. n : /\ score(k) \in Nat /\ ts(k) \in Nat
                        /\ cat(k) \in {"handle", "rotate", "push", "observe"}
  BY <1>1, ScoreType, TypesListed, ConstantsAssumption DEF Listed
<1>3. n \in 1 .. n
  BY <1>1
<1>4. CASE ~able(n)
  <2>1. Round(best, p, m, refused) = best
    BY <1>2, <1>3, <1>4 DEF CanHandle, Round, MatchHandler
  <2> QED
    BY <1>1, <1>4, <2>1 DEF TurnSoFar
<1>5. CASE able(n)
  <2>0. score(n) > 0 /\ cat(n) \in {"handle", "rotate", "push"}
    BY <1>2, <1>3, <1>5 DEF CanHandle
  <2>1. Round(best, p, m, refused) =
          IF Trumped(best, p) \/ NotBetter(best, p, score(n)) THEN best ELSE Taken(p, m)
    BY <1>2, <1>3, <1>5 DEF CanHandle, Round, MatchHandler, Taken
  <2>2. Taken(p, m).category = cat(n)
    BY DEF Taken
  <2>3. CASE cat(n) = "push" /\ best.category # "push"
    <3>1. Round(best, p, m, refused) = Taken(p, m)
      BY <2>1, <2>3 DEF Trumped, NotBetter, Rivals
    <3> QED
      BY <2>2, <2>3, <3>1 DEF TurnSoFar
  <2>4. CASE best.category = "push"
    <3>1. Round(best, p, m, refused).category = "push"
      BY <2>0, <2>1, <2>2, <2>4 DEF Trumped
    <3> QED
      BY <3>1 DEF TurnSoFar
  <2>5. CASE /\ cat(n) # "push" /\ best.category \in {"undefined", "handle"}
             /\ \A j \in 1 .. n - 1 : able(j) => cat(j) # "rotate"
    <3>1. CASE cat(n) = "rotate"
      <4>1. Round(best, p, m, refused) = Taken(p, m)
        BY <2>1, <2>5, <3>1 DEF Trumped, NotBetter, Rivals
      <4>2. GoesFirst(n, n, m)
        BY <1>2, <1>3 DEF GoesFirst
      <4> QED
        BY <1>1, <1>3, <1>5, <2>5, <3>1, <4>1, <4>2 DEF TurnSoFar
    <3>2. CASE cat(n) = "handle"
      <4>1. Round(best, p, m, refused).category \in {"undefined", "handle"}
        BY <2>1, <2>2, <2>5, <3>2
      <4>2. \A j \in 1 .. n : able(j) => cat(j) # "rotate"
        BY <1>1, <2>5, <3>2
      <4> QED
        BY <4>1, <4>2 DEF TurnSoFar
    <3> QED
      BY <2>0, <2>5, <3>1, <3>2
  <2>6. ASSUME NEW i \in 1 .. n - 1, able(i), cat(i) = "rotate", best = Taken(patterns[i], m),
               \A j \in 1 .. n - 1 : (able(j) /\ cat(j) = "rotate") => GoesFirst(i, j, m),
               cat(n) # "push"
        PROVE  TurnSoFar(Round(best, p, m, refused), n, m, refused)
    <3>1. best.category = "rotate" /\ best.score = score(i) /\ best.stamp = ts(i)
      BY <2>6 DEF Taken
    <3>2. i \in 1 .. n /\ i < n /\ score(i) \in Nat /\ ts(i) \in Nat
      BY <1>1, <1>2, <2>6
    <3>3. CASE cat(n) = "handle"
      <4>1. Round(best, p, m, refused) = best
        BY <2>1, <3>1, <3>3 DEF Trumped
      <4>2. \A j \in 1 .. n : (able(j) /\ cat(j) = "rotate") => GoesFirst(i, j, m)
        BY <1>1, <2>6, <3>3
      <4> QED
        BY <2>6, <3>2, <4>1, <4>2 DEF TurnSoFar
    <3>4. CASE cat(n) = "rotate" /\ (score(i) > score(n) \/ (score(i) = score(n) /\ ts(i) < ts(n)))
      <4>1. Round(best, p, m, refused) = best
        BY <2>1, <3>1, <3>4 DEF NotBetter, Rivals
      <4>2. GoesFirst(i, n, m)
        BY <1>2, <1>3, <3>2, <3>4 DEF GoesFirst
      <4>3. \A j \in 1 .. n : (able(j) /\ cat(j) = "rotate") => GoesFirst(i, j, m)
        BY <1>1, <2>6, <4>2
      <4> QED
        BY <2>6, <3>2, <4>1, <4>3 DEF TurnSoFar
    <3>5. CASE /\ cat(n) = "rotate"
               /\ ~(score(i) > score(n) \/ (score(i) = score(n) /\ ts(i) < ts(n)))
      <4>1. Round(best, p, m, refused) = Taken(p, m)
        BY <2>1, <3>1, <3>5 DEF Trumped, NotBetter, Rivals
      <4>2. /\ score(n) \in Nat /\ ts(n) \in Nat
            /\ score(i) < score(n) \/ (score(i) = score(n) /\ ts(n) <= ts(i))
        BY <1>2, <1>3, <3>2, <3>5
      <4>3. ASSUME NEW j \in 1 .. n, able(j), cat(j) = "rotate" PROVE GoesFirst(n, j, m)
        <5>1. CASE j = n
          BY <1>1, <1>2, <5>1 DEF GoesFirst
        <5>2. CASE j # n
          <6>1. j \in 1 .. n - 1 /\ j < n /\ score(j) \in Nat /\ ts(j) \in Nat
            BY <1>1, <1>2, <5>2
          <6>2. \/ score(j) < score(i)
                \/ score(j) = score(i) /\ ts(i) <= ts(j)
            BY <2>6, <3>2, <4>3, <6>1 DEF GoesFirst
          <6>3. \/ score(j) < score(n)
                \/ score(j) = score(n) /\ ts(n) <= ts(j)
            BY <3>2, <4>2, <6>1, <6>2
          <6>4. score(j) = score(n) /\ ts(n) <= ts(j) =>
                  score(j) = score(n) /\ (ts(n) < ts(j) \/ (ts(n) = ts(j) /\ j <= n))
            BY <1>1, <4>2, <6>1
          <6> QED
            BY <6>3, <6>4 DEF GoesFirst
        <5> QED
          BY <5>1, <5>2
      <4> QED
        BY <1>3, <1>5, <3>5, <4>1, <4>3 DEF TurnSoFar
    <3> QED
      BY <2>0, <2>6, <3>3, <3>4, <3>5
  <2> QED
    BY <2>3, <2>4, <2>5, <2>6 DEF TurnSoFar
<1> QED
  BY <1>4, <1>5

(* The record of the best is about its pattern.                            *)
Fits(best) == best.pattern = NoPattern \/ Category[best.pattern] = best.category

LEMMA RoundFits ==
  ASSUME NEW best, Fits(best), NEW p, NEW m, NEW refused
  PROVE  Fits(Round(best, p, m, refused))
BY DEF Fits, Round, MatchHandler

LEMMA LoopTurn ==
  ASSUME TypeOK, NEW m \in Msg, NEW refused
  PROVE  /\ TurnSoFar(Rounds(m, refused)[Len(patterns)], Len(patterns), m, refused)
         /\ Fits(Rounds(m, refused)[Len(patterns)])
<1> DEFINE L == Len(patterns)
           r == Rounds(m, refused)
           T == {n \in Nat : n <= L => TurnSoFar(r[n], n, m, refused) /\ Fits(r[n])}
<1>1. L \in Nat
  BY DEF TypeOK
<1>2. r[0] = NoBest /\ \A n \in 1 .. L : r[n] = Round(r[n - 1], patterns[n], m, refused)
  BY RoundsDefined, TypesListed
<1>3. 0 \in T
  BY <1>2 DEF TurnSoFar, NoBest, Fits
<1>4. ASSUME NEW n \in T PROVE n + 1 \in T
  <2>1. SUFFICES ASSUME n + 1 <= L
                 PROVE  TurnSoFar(r[n + 1], n + 1, m, refused) /\ Fits(r[n + 1])
    OBVIOUS
  <2>2. n + 1 \in 1 .. L /\ (n + 1) - 1 = n /\ n <= L
    BY <1>1, <2>1
  <2>3. /\ TurnSoFar(r[n], n, m, refused) /\ Fits(r[n])
        /\ r[n + 1] = Round(r[n], patterns[n + 1], m, refused)
    BY <1>2, <2>2
  <2> HIDE DEF r
  <2> QED
    BY <2>2, <2>3, RoundTurn, RoundFits
<1>5. T = Nat
  <2> HIDE DEF T
  <2>1. T \in SUBSET Nat
    BY DEF T
  <2> QED
    BY <1>3, <1>4, <2>1, Induction
<1> QED
  BY <1>1, <1>5

(* Who waits how long, when patterns come and go.                          *)

LEMMA PushedNewer ==
  ASSUME TypeOK, NEW p \in Pattern, p \notin registered, patterns' = <<p>> \o patterns
  PROVE  /\ ToSet(patterns') = ToSet(patterns) \union {p}
         /\ p \notin ToSet(patterns) /\ ~Newer(p, p)'
         /\ \A q \in ToSet(patterns) : Newer(p, q)' /\ ~Newer(q, p)'
         /\ \A q, r \in ToSet(patterns) : Newer(q, r)' <=> Newer(q, r)
<1> DEFINE L == Len(patterns)
<1>1. /\ patterns \in Seq(registered) /\ IsInjective(patterns) /\ L \in Nat
      /\ DOMAIN patterns = 1 .. L
  BY DEF TypeOK
<1>2. /\ DOMAIN patterns' = 1 .. L + 1 /\ patterns'[1] = p
      /\ \A j \in 2 .. L + 1 : patterns'[j] = patterns[j - 1] /\ j - 1 \in DOMAIN patterns
  BY <1>1, Pushed
<1>3. \A j \in 1 .. L : patterns'[j + 1] = patterns[j] /\ j + 1 \in 2 .. L + 1
  BY <1>1, <1>2
<1>4. \A j \in 1 .. L + 1 : j = 1 \/ j \in 2 .. L + 1
  BY <1>1
<1>5. \A j \in 1 .. L : patterns[j] # p
  BY <1>1
<1> HIDE DEF L
<1>6. p \notin ToSet(patterns)
  BY <1>1, <1>5 DEF ToSet
<1>7. ToSet(patterns') = ToSet(patterns) \union {p}
  <2>1. \A q \in ToSet(patterns') : q \in ToSet(patterns) \union {p}
    BY <1>2, <1>4 DEF ToSet
  <2>2. ASSUME NEW q \in ToSet(patterns) PROVE q \in ToSet(patterns')
    <3>1. PICK j \in 1 .. L : q = patterns[j]
      BY <1>1 DEF ToSet
    <3>2. q = patterns'[j + 1] /\ j + 1 \in 2 .. L + 1
      BY <1>3, <3>1
    <3>3. j + 1 \in DOMAIN patterns'
      BY <1>1, <1>2, <3>2
    <3> QED
      BY <3>2, <3>3 DEF ToSet
  <2>3. p \in ToSet(patterns')
    BY <1>1, <1>2 DEF ToSet
  <2> QED
    BY <2>1, <2>2, <2>3
<1>8. \A j \in 2 .. L + 1 : patterns'[j] # p
  BY <1>1, <1>2, <1>5
<1>9. ~Newer(p, p)' /\ \A q \in ToSet(patterns) : ~Newer(q, p)'
  <2>1. ASSUME NEW q, NEW i \in 1 .. L + 1, NEW j \in 1 .. L + 1, i < j,
               patterns'[i] = q, patterns'[j] = p
        PROVE  FALSE
    <3>1. j = 1
      BY <1>4, <1>8, <2>1
    <3> QED
      BY <1>1, <2>1, <3>1
  <2> QED
    BY <1>2, <2>1 DEF Newer
<1>10. ASSUME NEW q \in ToSet(patterns) PROVE Newer(p, q)'
  <2>1. PICK j \in 1 .. L : q = patterns[j]
    BY <1>1 DEF ToSet
  <2>2. /\ 1 \in 1 .. L + 1 /\ j + 1 \in 1 .. L + 1 /\ 1 < j + 1
        /\ patterns'[1] = p /\ patterns'[j + 1] = q
    BY <1>1, <1>2, <1>3, <2>1
  <2> QED
    BY <1>2, <2>2 DEF Newer
<1>11. ASSUME NEW q \in ToSet(patterns), NEW r \in ToSet(patterns), Newer(q, r)
       PROVE  Newer(q, r)'
  <2>1. PICK i \in 1 .. L, j \in 1 .. L : i < j /\ patterns[i] = q /\ patterns[j] = r
    BY <1>1, <1>11 DEF Newer
  <2>2. /\ i + 1 \in 1 .. L + 1 /\ j + 1 \in 1 .. L + 1 /\ i + 1 < j + 1
        /\ patterns'[i + 1] = q /\ patterns'[j + 1] = r
    BY <1>1, <1>3, <2>1
  <2> QED
    BY <1>2, <2>2 DEF Newer
<1>12. ASSUME NEW q \in ToSet(patterns), NEW r \in ToSet(patterns), Newer(q, r)'
       PROVE  Newer(q, r)
  <2>1. PICK i \in 1 .. L + 1, j \in 1 .. L + 1 : i < j /\ patterns'[i] = q /\ patterns'[j] = r
    BY <1>2, <1>12 DEF Newer
  <2>2. i \in 2 .. L + 1 /\ j \in 2 .. L + 1
    BY <1>2, <1>4, <1>6, <2>1
  <2>3. /\ i - 1 \in DOMAIN patterns /\ j - 1 \in DOMAIN patterns
        /\ patterns[i - 1] = q /\ patterns[j - 1] = r
    BY <1>2, <2>1, <2>2
  <2>4. i - 1 < j - 1
    BY <1>1, <2>1, <2>2
  <2> QED
    BY <2>3, <2>4 DEF Newer
<1> QED
  BY <1>6, <1>7, <1>9, <1>10, <1>11, <1>12

LEMMA RemovedNewer ==
  ASSUME TypeOK, NEW i \in DOMAIN patterns, Forget(i)
  PROVE  /\ ToSet(patterns') = ToSet(patterns) \ {patterns[i]}
         /\ \A q, r \in ToSet(patterns') : Newer(q, r)' <=> Newer(q, r)
<1> DEFINE L == Len(patterns)
           at(j) == IF j < i THEN j ELSE j + 1
           to(k) == IF k < i THEN k ELSE k - 1
<1>1. /\ patterns \in Seq(registered) /\ IsInjective(patterns) /\ L \in Nat
      /\ DOMAIN patterns = 1 .. L /\ i \in Nat /\ 1 <= i /\ i <= L
  BY DEF TypeOK
<1>2. patterns' = RemoveAt(patterns, i)
  BY DEF Forget
<1>3. /\ DOMAIN patterns' = 1 .. L - 1
      /\ \A j \in 1 .. L - 1 : patterns'[j] = patterns[at(j)] /\ at(j) \in DOMAIN patterns \ {i}
  <2>1. /\ DOMAIN RemoveAt(patterns, i) = 1 .. L - 1
        /\ \A j \in DOMAIN RemoveAt(patterns, i) :
             RemoveAt(patterns, i)[j] = patterns[at(j)] /\ at(j) \in DOMAIN patterns \ {i}
    BY <1>1, Removed
  <2> QED
    BY <1>2, <2>1
<1>4. \A k \in 1 .. L : k # i => to(k) \in 1 .. L - 1 /\ at(to(k)) = k
  BY <1>1
<1>5. \A j, k \in 1 .. L - 1 : j < k <=> at(j) < at(k)
  BY <1>1
<1>6. \A k \in 1 .. L : k # i => patterns'[to(k)] = patterns[k]
  BY <1>3, <1>4
<1>7. \A j, k \in 1 .. L : (j # i /\ k # i) => (j < k <=> to(j) < to(k))
  BY <1>1
<1> HIDE DEF L, at, to
<1>8. \A k \in 1 .. L : patterns[k] = patterns[i] <=> k = i
  BY <1>1 DEF IsInjective
<1>9. ToSet(patterns') = ToSet(patterns) \ {patterns[i]}
  <2>1. \A q \in ToSet(patterns') : q \in ToSet(patterns) \ {patterns[i]}
    BY <1>1, <1>3, <1>8 DEF ToSet
  <2>2. \A q \in ToSet(patterns) \ {patterns[i]} : q \in ToSet(patterns')
    BY <1>1, <1>3, <1>4, <1>6 DEF ToSet
  <2> QED
    BY <2>1, <2>2
<1>10. ASSUME NEW q, NEW r, Newer(q, r)' PROVE Newer(q, r)
  <2>1. PICK j \in 1 .. L - 1, k \in 1 .. L - 1 : j < k /\ patterns'[j] = q /\ patterns'[k] = r
    BY <1>3, <1>10 DEF Newer
  <2>2. /\ at(j) \in DOMAIN patterns /\ at(k) \in DOMAIN patterns /\ at(j) < at(k)
        /\ patterns[at(j)] = q /\ patterns[at(k)] = r
    BY <1>3, <1>5, <2>1
  <2> QED
    BY <2>2 DEF Newer
<1>11. ASSUME NEW q \in ToSet(patterns'), NEW r \in ToSet(patterns'), Newer(q, r)
       PROVE  Newer(q, r)'
  <2>1. PICK j \in 1 .. L, k \in 1 .. L : j < k /\ patterns[j] = q /\ patterns[k] = r
    BY <1>1, <1>11 DEF Newer
  <2>2. j # i /\ k # i
    BY <1>9, <2>1
  <2>3. /\ to(j) \in DOMAIN patterns' /\ to(k) \in DOMAIN patterns' /\ to(j) < to(k)
        /\ patterns'[to(j)] = q /\ patterns'[to(k)] = r
    BY <1>3, <1>4, <1>6, <1>7, <2>1, <2>2
  <2> QED
    BY <2>3 DEF Newer
<1> QED
  BY <1>9, <1>10, <1>11

-----------------------------------------------------------------------------
(* The steps of TtTurns.                                                   *)

Rotate == {p \in Pattern : Category[p] = "rotate"}

LEMMA RotatingTypes ==
  ASSUME TypeOK
  PROVE  /\ \A p \in Rotating : p \in Rotate /\ p \in Pattern /\ timestamp[p] \in Nat
         /\ Fresh \subseteq Rotate /\ Fresh \union Used = Rotating
<1>1. \A p \in ToSet(patterns) : p \in Pattern
  BY DEF TypeOK, ToSet
<1> QED
  BY <1>1 DEF Rotating, Rotate, Fresh, Used, TypeOK

LEMMA LineStays ==
  ASSUME TypeOK, Rotating' = Rotating, \A p \in Rotating : timestamp'[p] = timestamp[p],
         \A p, q \in Rotating : Newer(p, q)' <=> Newer(p, q)
  PROVE  UNCHANGED <<Fresh, Used, Ahead>>
<1>1. \A p, q \in Rotating : Colder(p, q)' <=> Colder(p, q)
  BY DEF Colder
<1>2. Fresh' = Fresh /\ Used' = Used
  BY DEF Fresh, Used
<1>3. Ahead' = Ahead
  BY <1>1 DEF Ahead
<1> QED
  BY <1>2, <1>3

LEMMA SameLine ==
  ASSUME TypeOK, patterns' = patterns, \A p \in Rotate : timestamp'[p] = timestamp[p]
  PROVE  UNCHANGED <<Fresh, Used, Ahead>>
<1>1. Rotating' = Rotating
  BY DEF Rotating
<1>2. \A p, q : Newer(p, q)' <=> Newer(p, q)
  BY DEF Newer
<1> QED
  BY <1>1, <1>2, RotatingTypes, LineStays

LEMMA AddPatternTurns ==
  ASSUME TypeOK, NEW p \in Pattern, AddPattern(p)
  PROVE  Turns!Next \/ UNCHANGED Turns!vars
<1>1. /\ p \notin registered /\ patterns' = <<p>> \o patterns
      /\ timestamp' = [timestamp EXCEPT ![p] = IF Category[p] = "push" THEN now + 1 ELSE 0]
      /\ in_session' = [in_session EXCEPT ![p] = p \notin Late]
      /\ UNCHANGED message
  BY DEF AddPattern
<1>2. /\ ToSet(patterns') = ToSet(patterns) \union {p} /\ p \notin ToSet(patterns)
      /\ ~Newer(p, p)' /\ \A q \in ToSet(patterns) : Newer(p, q)' /\ ~Newer(q, p)'
      /\ \A q, r \in ToSet(patterns) : Newer(q, r)' <=> Newer(q, r)
  BY <1>1, PushedNewer
<1>3. UNCHANGED <<tried, Given>>
  BY <1>1 DEF message, Given
<1>4. \A q \in Rotating : /\ timestamp'[q] = timestamp[q] /\ q # p
                          /\ timestamp[q] \in Nat /\ q \in ToSet(patterns)
  <2>1. \A q \in Rotating : q \in ToSet(patterns) /\ q # p /\ q \in Pattern
    BY <1>2, RotatingTypes DEF Rotating
  <2> QED
    BY <1>1, <2>1, RotatingTypes DEF TypeOK
<1>5. CASE Category[p] = "rotate"
  <2>1. Rotating' = Rotating \union {p} /\ timestamp'[p] = 0
    BY <1>1, <1>2, <1>5 DEF Rotating, TypeOK
  <2>2. p \notin Fresh \union Used
    BY <1>4 DEF Fresh, Used
  <2>3. Fresh' = Fresh \union {p} /\ Used' = Used
    BY <1>4, <2>1 DEF Fresh, Used
  <2>4. Ahead' = Ahead \union (Fresh \X {p}) \union ({p} \X Used)
    <3>1. \A q, r \in Rotating : Colder(q, r)' <=> Colder(q, r)
      BY <1>2, <1>4 DEF Colder
    <3>2. \A q \in Rotating : Colder(q, p)' <=> q \in Fresh
      BY <1>2, <1>4, <2>1 DEF Colder, Fresh
    <3>3. \A q \in Rotating : Colder(p, q)' <=> q \in Used
      BY <1>2, <1>4, <2>1 DEF Colder, Used
    <3>4. ~Colder(p, p)'
      BY <1>2, <2>1 DEF Colder
    <3>5. Fresh \subseteq Rotating /\ Used \subseteq Rotating
      BY DEF Fresh, Used
    <3>6. \A pair : pair \in Ahead' <=>
            /\ pair \in (Rotating \union {p}) \X (Rotating \union {p})
            /\ Colder(pair[1], pair[2])'
      BY <2>1 DEF Ahead
    <3>7. ASSUME NEW pair \in (Rotating \union {p}) \X (Rotating \union {p})
          PROVE  Colder(pair[1], pair[2])' <=>
                   pair \in Ahead \union (Fresh \X {p}) \union ({p} \X Used)
      <4>1. PICK q \in Rotating \union {p}, r \in Rotating \union {p} : pair = <<q, r>>
        OBVIOUS
      <4>2. Colder(q, r)' <=> \/ q \in Rotating /\ r \in Rotating /\ Colder(q, r)
                              \/ q \in Fresh /\ r = p
                              \/ q = p /\ r \in Used
        BY <1>4, <3>1, <3>2, <3>3, <3>4, <3>5
      <4>3. <<q, r>> \in Ahead <=> q \in Rotating /\ r \in Rotating /\ Colder(q, r)
        BY DEF Ahead
      <4> QED
        BY <4>1, <4>2, <4>3
    <3>8. Ahead \union (Fresh \X {p}) \union ({p} \X Used)
            \subseteq (Rotating \union {p}) \X (Rotating \union {p})
      BY <3>5 DEF Ahead
    <3> QED
      BY <3>6, <3>7, <3>8
  <2>5. Joined' \in {Joined \union {p}, Joined \ {p}}
    BY <1>1, <1>5 DEF Joined, TypeOK
  <2>6. Turns!Register(p)
    BY <1>3, <2>2, <2>3, <2>4, <2>5 DEF Turns!Register, Turns!Line
  <2> QED
    BY <1>5, <2>6 DEF Turns!Next
<1>6. CASE Category[p] # "rotate"
  <2>1. Rotating' = Rotating
    BY <1>2, <1>6 DEF Rotating
  <2>2. UNCHANGED <<Fresh, Used, Ahead>>
    BY <1>2, <1>4, <2>1, LineStays
  <2>3. Joined' = Joined
    BY <1>1, <1>6 DEF Joined, TypeOK
  <2> QED
    BY <1>3, <2>2, <2>3 DEF Turns!vars, Turns!line
<1> QED
  BY <1>5, <1>6

LEMMA ForgetTurns ==
  ASSUME TypeOK, NEW i \in DOMAIN patterns, Forget(i), UNCHANGED message
  PROVE  Turns!Next \/ UNCHANGED Turns!vars
<1> DEFINE p == patterns[i]
<1>1. /\ timestamp' = [timestamp EXCEPT ![p] = 0] /\ in_session' = [in_session EXCEPT ![p] = FALSE]
      /\ p \in Pattern
  BY DEF Forget, TypeOK
<1>2. /\ ToSet(patterns') = ToSet(patterns) \ {p}
      /\ \A q, r \in ToSet(patterns') : Newer(q, r)' <=> Newer(q, r)
  BY RemovedNewer
<1>3. UNCHANGED <<tried, Given>>
  BY DEF message, Given
<1> HIDE DEF p
<1>4. Rotating' = Rotating \ {p}
  BY <1>2 DEF Rotating
<1>5. \A q \in Rotating' : /\ timestamp'[q] = timestamp[q] /\ q \in Rotating
                           /\ q \in ToSet(patterns')
  <2>1. \A q \in Rotating' : q \in Rotating /\ q # p
    BY <1>4
  <2>2. \A q \in Rotating : q \in Pattern
    BY RotatingTypes
  <2> QED
    BY <1>1, <2>1, <2>2 DEF TypeOK, Rotating
<1>6. \A q, r \in Rotating' : Colder(q, r)' <=> Colder(q, r)
  BY <1>2, <1>5 DEF Colder
<1>7. Joined' = Joined \ {p}
  BY <1>1 DEF Joined, TypeOK
<1>8. Fresh' = Fresh \ {p} /\ Used' = Used \ {p}
  BY <1>4, <1>5 DEF Fresh, Used
<1>9. Ahead' = {pair \in Ahead : pair[1] \notin {p} /\ pair[2] \notin {p}}
  <2>1. \A pair \in Rotating' \X Rotating' : Colder(pair[1], pair[2])' <=> Colder(pair[1], pair[2])
    BY <1>6
  <2>2. Ahead' = {pair \in Rotating' \X Rotating' : Colder(pair[1], pair[2])'}
    BY DEF Ahead
  <2>3. \A pair : pair \in Rotating' \X Rotating' <=>
          pair \in Rotating \X Rotating /\ pair[1] # p /\ pair[2] # p
    BY <1>4
  <2> QED
    BY <2>1, <2>2, <2>3 DEF Ahead
<1>10. CASE p \in Rotate
  <2>1. Turns!Unregister({p})
    BY <1>3, <1>7, <1>8, <1>9 DEF Turns!Unregister, Turns!Without
  <2> QED
    BY <1>10, <2>1 DEF Turns!Next, Rotate
<1>11. CASE p \notin Rotate
  <2>1. p \notin Rotating /\ p \notin Joined
    BY <1>11, RotatingTypes DEF Rotate, Joined
  <2>2. Joined' = Joined
    BY <1>7, <2>1
  <2>3. Fresh' = Fresh /\ Used' = Used
    BY <1>8, <2>1 DEF Fresh, Used
  <2>4. Ahead' = Ahead
    <3>1. \A pair \in Ahead : pair[1] # p /\ pair[2] # p
      BY <2>1 DEF Ahead
    <3> QED
      BY <1>9, <3>1
  <2> QED
    BY <1>3, <2>2, <2>3, <2>4 DEF Turns!vars, Turns!line
<1> QED
  BY <1>10, <1>11

(* A ROTATE pattern that is chosen is the one whose turn it is.            *)
LEMMA ItsTurn ==
  ASSUME TypeOK, TurnsDiffer, NEW m \in Msg, NEW refused, NEW p,
         p = BestHandler(m, refused), p \in Rotate
  PROVE  /\ p \in Rotating /\ CanHandle(p, m, refused)
         /\ \A q \in Rotating : CanHandle(q, m, refused) =>
              /\ MatchScore(q, m, "sent") <= MatchScore(p, m, "sent")
              /\ (MatchScore(q, m, "sent") = MatchScore(p, m, "sent") /\ q # p) => Colder(p, q)
<1> DEFINE L == Len(patterns)
           best == Rounds(m, refused)[L]
           score(q) == MatchScore(q, m, "sent")
<1>1. /\ L \in Nat /\ DOMAIN patterns = 1 .. L
      /\ \A i \in 1 .. L : patterns[i] \in Pattern
      /\ timestamp \in [Pattern -> 0 .. now] /\ now \in Nat
  BY DEF TypeOK
<1>2. p = best.pattern /\ TurnSoFar(best, L, m, refused) /\ Fits(best)
  BY LoopTurn DEF BestHandler
<1>3. p # NoPattern /\ Category[p] = "rotate"
  BY ConstantsAssumption DEF Rotate
<1>4. best.category = "rotate"
  BY <1>2, <1>3 DEF Fits
<1> HIDE DEF best
<1>5. PICK i \in 1 .. L :
        /\ CanHandle(patterns[i], m, refused) /\ Category[patterns[i]] = "rotate"
        /\ best = Taken(patterns[i], m)
        /\ \A j \in 1 .. L :
             (CanHandle(patterns[j], m, refused) /\ Category[patterns[j]] = "rotate")
               => GoesFirst(i, j, m)
  BY <1>2, <1>4 DEF TurnSoFar
<1>6. p = patterns[i]
  BY <1>2, <1>5 DEF Taken
<1>7. p \in Rotating /\ CanHandle(p, m, refused)
  BY <1>1, <1>5, <1>6 DEF Rotating, ToSet
<1>8. ASSUME NEW q \in Rotating, CanHandle(q, m, refused)
      PROVE  /\ score(q) <= score(p)
             /\ (score(q) = score(p) /\ q # p) => Colder(p, q)
  <2>1. PICK j \in 1 .. L : q = patterns[j]
    BY <1>1 DEF Rotating, ToSet
  <2>2. GoesFirst(i, j, m)
    BY <1>5, <1>8, <2>1 DEF Rotating
  <2>3. /\ score(q) \in Nat /\ score(p) \in Nat
        /\ timestamp[p] \in Nat /\ timestamp[q] \in Nat /\ p \in Pattern /\ q \in Pattern
    BY <1>1, <1>6, <2>1, ScoreType, TypesListed
  <2>4. /\ score(q) <= score(p)
        /\ score(q) = score(p) =>
             timestamp[p] < timestamp[q] \/ (timestamp[p] = timestamp[q] /\ j <= i)
    BY <1>6, <2>1, <2>2, <2>3 DEF GoesFirst
  <2>5. ASSUME timestamp[p] = timestamp[q], j <= i, q # p PROVE Colder(p, q)
    <3>1. timestamp[p] = 0
      BY <1>3, <2>3, <2>5 DEF TurnsDiffer, Rotating
    <3>2. j < i
      BY <1>1, <1>6, <2>1, <2>5
    <3>3. Newer(q, p)
      BY <1>1, <1>6, <2>1, <3>2 DEF Newer
    <3> QED
      BY <2>5, <3>1, <3>3 DEF Colder
  <2> QED
    BY <2>4, <2>5 DEF Colder
<1> QED
  BY <1>7, <1>8

(* Those that TtTurns thinks able are those that can handle the message.   *)
LEMMA AbleRotating ==
  ASSUME TypeOK, NEW m \in Msg, NEW refused, tried'[m] = refused
  PROVE  /\ Turns!Able(m) = {p \in Rotating : CanHandle(p, m, refused)}
         /\ \A p \in Turns!Able(m) : Worth[p][m] = MatchScore(p, m, "sent")
<1>1. \A p \in Rotating : p \in Pattern /\ p \in Rotate /\ Category[p] = "rotate"
  BY RotatingTypes DEF Rotate
<1>2. \A p \in Rotating : p \in Joined <=> in_session[p]
  BY <1>1 DEF Joined
<1>3. \A p \in Rotating : in_session[p] => MatchScore(p, m, "sent") = Worth[p][m]
  BY <1>1 DEF MatchScore, Worth
<1>4. \A p \in Rotating : ~in_session[p] => MatchScore(p, m, "sent") = 0
  BY DEF MatchScore
<1>5. \A p \in Rotating :
        CanHandle(p, m, refused) <=> p \in Joined /\ Worth[p][m] > 0 /\ Owner[p] \notin refused
  BY <1>1, <1>2, <1>3, <1>4 DEF CanHandle
<1>6. Turns!Able(m) =
        {p \in Rotating \intersect Joined : Worth[p][m] > 0 /\ Owner[p] \notin refused}
  BY RotatingTypes DEF Turns!Able, Turns!Line
<1>7. Turns!Able(m) = {p \in Rotating : CanHandle(p, m, refused)}
  BY <1>5, <1>6
<1> QED
  BY <1>2, <1>3, <1>5, <1>7

(* The line after a turn.                                                  *)
LEMMA TurnTaken ==
  ASSUME TypeOK, NEW p \in Rotating, patterns' = patterns,
         timestamp' = [timestamp EXCEPT ![p] = now + 1]
  PROVE  /\ Fresh' = Fresh \ {p} /\ Used' = Used \union {p}
         /\ Ahead' = {pair \in Ahead : pair[1] \notin {p} /\ pair[2] \notin {p}}
                       \union ((Rotating \ {p}) \X {p})
<1>1. now \in Nat /\ timestamp \in [Pattern -> 0 .. now]
  BY DEF TypeOK
<1>2. Rotating' = Rotating /\ \A q, r : Newer(q, r)' <=> Newer(q, r)
  BY DEF Rotating, Newer
<1>3. \A q \in Rotating : q \in Pattern
  BY RotatingTypes
<1>4. \A q \in Rotating : timestamp[q] \in 0 .. now
  BY <1>1, <1>3
<1>5. timestamp'[p] = now + 1 /\ \A q \in Rotating \ {p} : timestamp'[q] = timestamp[q]
  BY <1>1, <1>3
<1>6. Fresh' = Fresh \ {p} /\ Used' = Used \union {p}
  BY <1>1, <1>2, <1>4, <1>5 DEF Fresh, Used
<1>7. ASSUME NEW q \in Rotating, NEW r \in Rotating
      PROVE  Colder(q, r)' <=> \/ q # p /\ r # p /\ Colder(q, r)
                               \/ q # p /\ r = p
  <2>1. CASE q # p /\ r # p
    BY <1>2, <1>5, <2>1 DEF Colder
  <2>2. CASE q # p /\ r = p
    <3>1. timestamp'[q] \in 0 .. now /\ timestamp'[r] = now + 1
      BY <1>4, <1>5, <2>2
    <3>2. timestamp'[q] < timestamp'[r]
      BY <1>1, <3>1
    <3> QED
      BY <2>2, <3>2 DEF Colder
  <2>3. CASE q = p
    <3>1. timestamp'[q] = now + 1 /\ timestamp'[r] \in 0 .. now + 1
      BY <1>1, <1>4, <1>5, <2>3
    <3>2. ~(timestamp'[q] < timestamp'[r]) /\ timestamp'[q] # 0
      BY <1>1, <3>1
    <3> QED
      BY <2>3, <3>2 DEF Colder
  <2> QED
    BY <2>1, <2>2, <2>3
<1>8. Ahead' = {pair \in Rotating \X Rotating : Colder(pair[1], pair[2])'}
  BY <1>2 DEF Ahead
<1>9. ASSUME NEW q \in Rotating, NEW r \in Rotating
      PROVE  <<q, r>> \in Ahead' <=>
               \/ <<q, r>> \in Ahead /\ q # p /\ r # p
               \/ q # p /\ r = p
  BY <1>7, <1>8 DEF Ahead
<1>10. Ahead \subseteq Rotating \X Rotating /\ Ahead' \subseteq Rotating \X Rotating
  BY <1>8 DEF Ahead
<1> QED
  BY <1>6, <1>9, <1>10

LEMMA GivenTo ==
  ASSUME NEW m \in Msg, NEW p, pattern_id' = [pattern_id EXCEPT ![m] = p], TypeOK
  PROVE  Given' = [Given EXCEPT ![m] =
                     IF p # NoPattern /\ Category[p] = "rotate" THEN p ELSE NoPattern]
<1>1. DOMAIN pattern_id = Msg
  BY DEF TypeOK
<1> QED
  BY <1>1 DEF Given

(* Whoever match_handler chooses, the ROTATE patterns see to it that it is *)
(* the turn of the one that gets the message.                              *)
LEMMA HandOutTurns ==
  ASSUME TypeOK, TurnsDiffer, NEW m \in Msg, NEW refused, FindHandler(m, refused),
         UNCHANGED <<patterns, in_session>>, tried'[m] = refused,
         \/ tried' = tried
         \/ \E pr \in Proc : tried' = [tried EXCEPT ![m] = @ \union {pr}]
  PROVE  Turns!Next
<1> DEFINE p == BestHandler(m, refused)
<1>1. pattern_id' = [pattern_id EXCEPT ![m] = p]
  BY FoundHandler
<1>2. Joined' = Joined
  BY DEF Joined
<1>3. CASE p \in Rotate
  <2>1. p \in Pattern /\ Category[p] = "rotate" /\ p # NoPattern
    BY <1>3, ConstantsAssumption DEF Rotate
  <2>2. timestamp' = [timestamp EXCEPT ![p] = now + 1]
    BY <2>1, Stamped
  <2>3. Given' = [Given EXCEPT ![m] = p]
    BY <1>1, <2>1, GivenTo
  <2>4. /\ p \in Rotating /\ CanHandle(p, m, refused)
        /\ \A q \in Rotating : CanHandle(q, m, refused) =>
             /\ MatchScore(q, m, "sent") <= MatchScore(p, m, "sent")
             /\ (MatchScore(q, m, "sent") = MatchScore(p, m, "sent") /\ q # p) => Colder(p, q)
    BY <1>3, ItsTurn
  <2> HIDE DEF p
  <2>5. /\ Turns!Able(m) = {q \in Rotating : CanHandle(q, m, refused)}
        /\ \A q \in Turns!Able(m) : Worth[q][m] = MatchScore(q, m, "sent")
    BY AbleRotating
  <2>6. p \in Turns!Best(m)
    BY <2>4, <2>5 DEF Turns!Best
  <2>7. \A q \in Turns!Best(m) \ {p} : <<p, q>> \in Ahead
    <3>1. ASSUME NEW q \in Turns!Best(m) \ {p} PROVE <<p, q>> \in Ahead
      <4>1. /\ q \in Rotating /\ CanHandle(q, m, refused) /\ q # p
            /\ MatchScore(p, m, "sent") <= MatchScore(q, m, "sent")
        BY <2>4, <2>5 DEF Turns!Best
      <4>2. MatchScore(p, m, "sent") \in Nat /\ MatchScore(q, m, "sent") \in Nat
        BY <2>1, <4>1, RotatingTypes, ScoreType, TypesListed
      <4>3. MatchScore(q, m, "sent") = MatchScore(p, m, "sent")
        BY <2>4, <4>1, <4>2
      <4>4. Colder(p, q)
        BY <2>4, <4>1, <4>3
      <4> QED
        BY <2>4, <4>1, <4>4 DEF Ahead
    <3> QED
      BY <3>1
  <2>8. /\ Fresh' = Fresh \ {p} /\ Used' = Used \union {p}
        /\ Ahead' = {pair \in Ahead : pair[1] \notin {p} /\ pair[2] \notin {p}}
                      \union ((Rotating \ {p}) \X {p})
    BY <2>2, <2>4, TurnTaken
  <2>9. Turns!Without({p}) = {pair \in Ahead : pair[1] \notin {p} /\ pair[2] \notin {p}}
        /\ Turns!Line = Rotating
    BY RotatingTypes DEF Turns!Without, Turns!Line
  <2>10. Turns!Turn(m)
    BY <2>3, <2>6, <2>7, <2>8, <2>9 DEF Turns!Turn
  <2>11. Turns!HandOut(m)
    BY <1>2, <2>10 DEF Turns!HandOut
  <2> QED
    BY <2>11 DEF Turns!Next
<1>4. CASE p \notin Rotate
  <2>1. p = NoPattern \/ Category[p] # "rotate"
    BY <1>4, BestHandlerType DEF Rotate
  <2>2. timestamp' = timestamp
    BY <2>1, Stamped, ConstantsAssumption
  <2>3. UNCHANGED <<Fresh, Used, Ahead>>
    BY <2>2, SameLine
  <2>4. Given' = [Given EXCEPT ![m] = NoPattern]
    BY <1>1, <2>1, GivenTo
  <2>5. Turns!HandOut(m)
    BY <1>2, <2>3, <2>4 DEF Turns!HandOut, Turns!line
  <2> QED
    BY <2>5 DEF Turns!Next
<1> QED
  BY <1>3, <1>4

LEMMA SessionTurns ==
  ASSUME TypeOK, UNCHANGED <<patterns, timestamp, message>>
  PROVE  Turns!Next
<1>1. UNCHANGED <<Fresh, Used, Ahead>>
  BY SameLine
<1>2. UNCHANGED <<tried, Given>>
  BY DEF message, Given
<1>3. Joined' \in SUBSET Rotate
  BY DEF Joined, Rotate
<1>4. Turns!JoinOrQuit
  BY <1>1, <1>2, <1>3 DEF Turns!JoinOrQuit, Turns!line, Rotate
<1> QED
  BY <1>4 DEF Turns!Next

LEMMA ChangeStateTurns == ASSUME TypeOK, ChangeState PROVE Turns!Next
<1>1. PICK m \in Msg, s \in {"handled", "failed"} : change = <<m, s>>
  BY DEF TypeOK, ChangeState
<1>2. /\ tried' = [tried EXCEPT ![m] = {}]
      /\ pattern_id' = [pattern_id EXCEPT ![m] = NoPattern]
      /\ UNCHANGED table
  BY <1>1 DEF ChangeState
<1>3. UNCHANGED <<Fresh, Used, Ahead>>
  BY <1>2, SameLine DEF table
<1>4. Joined' = Joined
  BY <1>2 DEF table, Joined
<1>5. Given' = [Given EXCEPT ![m] = NoPattern]
  BY <1>2, GivenTo
<1>6. Turns!Answered(m)
  BY <1>2, <1>3, <1>4, <1>5 DEF Turns!Answered, Turns!line
<1> QED
  BY <1>6 DEF Turns!Next

LEMMA TurnsStep ==
  ASSUME Inductive, TurnsDiffer, [Next]_vars PROVE Turns!Next \/ UNCHANGED Turns!vars
<1>1. TypeOK /\ FirstTry
  BY DEF Inductive
<1>2. ASSUME NEW m \in Msg, Dispatch(m) PROVE Turns!Next
  <2>1. /\ state[m] = "created" /\ FindHandler(m, {})
        /\ UNCHANGED <<patterns, in_session, tried>>
    BY <1>2 DEF Dispatch
  <2>2. tried'[m] = {}
    BY <1>1, <2>1 DEF FirstTry
  <2> QED
    BY <1>1, <2>1, <2>2, HandOutTurns
<1>3. ASSUME NEW m \in Msg, Reject(m) PROVE Turns!Next
  <2> DEFINE pr == Owner[pattern_id[m]]
             refused == tried[m] \union {pr}
  <2>1. /\ HasRequest(m) /\ tried' = [tried EXCEPT ![m] = refused]
        /\ FindHandler(m, refused) /\ UNCHANGED <<patterns, in_session>>
    BY <1>3 DEF Reject
  <2>2. pr \in Proc
    BY <1>1, <2>1, ConstantsAssumption DEF HasRequest, TypeOK
  <2>3. tried'[m] = refused
    BY <1>1, <2>1 DEF TypeOK
  <2> HIDE DEF pr
  <2>4. \E q \in Proc : tried' = [tried EXCEPT ![m] = @ \union {q}]
    BY <2>1, <2>2
  <2> HIDE DEF refused
  <2> QED
    BY <1>1, <2>1, <2>3, <2>4, HandOutTurns
<1>4. ASSUME NEW pr \in Proc, JoinSession(pr) \/ QuitSession(pr) PROVE Turns!Next
  BY <1>1, <1>4, SessionTurns DEF JoinSession, QuitSession
<1>5. CASE PatternDeleted \/ \E p \in Pattern : DelPattern(p)
  <2>1. PICK i \in DOMAIN patterns : Forget(i) /\ UNCHANGED message
    BY <1>5 DEF PatternDeleted, DelPattern
  <2> QED
    BY <1>1, <2>1, ForgetTurns
<1>6. CASE \/ Deactivated \/ UNCHANGED vars
           \/ \E m \in Msg : Answer(m) \/ Orphan(m)
           \/ \E pr \in Proc : Deactivate(pr)
  <2>1. UNCHANGED <<table, message>>
    BY <1>6 DEF Deactivated, Answer, Orphan, Deactivate, vars
  <2>2. UNCHANGED <<Fresh, Used, Ahead>>
    BY <1>1, <2>1, SameLine DEF table
  <2>3. UNCHANGED <<Joined, tried, Given>>
    BY <2>1 DEF table, message, Joined, Given
  <2> QED
    BY <2>2, <2>3 DEF Turns!vars, Turns!line
<1>7. CASE ChangeState
  BY <1>1, <1>7, ChangeStateTurns
<1>8. CASE \E p \in Pattern : AddPattern(p)
  BY <1>1, <1>8, AddPatternTurns
<1> QED
  BY <1>2, <1>3, <1>4, <1>5, <1>6, <1>7, <1>8 DEF Next

LEMMA TurnsInit == Init => TurnsDiffer /\ Turns!Init
<1>1. SUFFICES ASSUME Init PROVE TurnsDiffer /\ Turns!Init
  OBVIOUS
<1>2. TypeOK
  BY <1>1, InitTypes
<1>3. /\ \A p \in Pattern : Category[p] = "rotate" => timestamp[p] = 0
      /\ tried = [m \in Msg |-> {}] /\ pattern_id = [m \in Msg |-> NoPattern]
  BY <1>1 DEF Init
<1>4. TurnsDiffer
  BY <1>3 DEF TurnsDiffer
<1>5. Fresh = Rotating /\ Used = {} /\ Fresh \subseteq Rotate
      /\ \A p \in Rotating : timestamp[p] = 0
  BY <1>2, <1>3, RotatingTypes DEF Fresh, Used, Rotate
<1>6. \A p, q \in Rotating : <<p, q>> \in Ahead <=> Newer(q, p)
  BY <1>5 DEF Ahead, Colder
<1>7. PICK N \in Nat : DOMAIN patterns = 1 .. N
  BY <1>2 DEF TypeOK
<1>8. \A i, j \in 1 .. N : patterns[i] = patterns[j] => i = j
  BY <1>2, <1>7 DEF TypeOK, IsInjective
<1>9. ASSUME NEW p \in Rotating, NEW q \in Rotating
      PROVE  /\ ~Newer(p, p) /\ (p # q => (Newer(p, q) <=> ~Newer(q, p)))
             /\ \A r \in Rotating : Newer(p, q) /\ Newer(q, r) => Newer(p, r)
  <2>1. \A r \in Rotating : \E i \in 1 .. N : r = patterns[i]
    BY <1>7 DEF Rotating, ToSet
  <2>2. \A i, j \in 1 .. N : Newer(patterns[i], patterns[j]) <=> i < j
    BY <1>7, <1>8 DEF Newer
  <2>3. PICK i \in 1 .. N, j \in 1 .. N : p = patterns[i] /\ q = patterns[j]
    BY <2>1
  <2>4. ~Newer(p, p) /\ (p # q => (Newer(p, q) <=> ~Newer(q, p)))
    <3>1. p # q => i # j
      BY <2>3
    <3> QED
      BY <2>2, <2>3, <3>1
  <2>5. ASSUME NEW r \in Rotating PROVE Newer(p, q) /\ Newer(q, r) => Newer(p, r)
    <3>1. PICK k \in 1 .. N : r = patterns[k]
      BY <2>1
    <3>2. (i < j /\ j < k) => i < k
      OBVIOUS
    <3> QED
      BY <2>2, <2>3, <3>1, <3>2
  <2> QED
    BY <2>4, <2>5
<1>10. /\ Ahead \subseteq Fresh \X Fresh
       /\ \A p, q \in Fresh : p # q => (<<p, q>> \in Ahead <=> <<q, p>> \notin Ahead)
       /\ \A p, q, r \in Fresh : (<<p, q>> \in Ahead /\ <<q, r>> \in Ahead) => <<p, r>> \in Ahead
       /\ \A p \in Fresh : <<p, p>> \notin Ahead
  <2>1. Ahead \subseteq Fresh \X Fresh
    BY <1>5 DEF Ahead
  <2>2. \A p, q \in Fresh : p # q => (<<p, q>> \in Ahead <=> <<q, p>> \notin Ahead)
    BY <1>5, <1>6, <1>9
  <2>3. ASSUME NEW p \in Rotating, NEW q \in Rotating, NEW r \in Rotating,
               <<p, q>> \in Ahead, <<q, r>> \in Ahead
        PROVE  <<p, r>> \in Ahead
    <3>1. Newer(q, p) /\ Newer(r, q)
      BY <1>6, <2>3
    <3>2. Newer(r, p)
      BY <1>9, <3>1
    <3> QED
      BY <1>6, <3>2
  <2>4. \A p \in Fresh : <<p, p>> \notin Ahead
    BY <1>5, <1>6, <1>9
  <2> QED
    BY <1>5, <2>1, <2>2, <2>3, <2>4
<1>11. Joined \subseteq Rotate /\ Given = [m \in Msg |-> NoPattern]
  BY <1>3 DEF Joined, Rotate, Given
<1>12. Turns!Init
  BY <1>3, <1>5, <1>10, <1>11 DEF Turns!Init, Rotate
<1> QED
  BY <1>4, <1>12

(* The ROTATE patterns take turns as TtTurns says, of all that match best  *)
(* the one that waits longest, although the code keeps nothing but the     *)
(* time of the last turn and the order of the table                        *)
(* (slib/mp_s_message.C:1072-1077, 1280-1292).                             *)
THEOREM TurnsAreTaken == Spec => TakesTurns
<1>1. Init => TurnsDiffer /\ Turns!Init
  BY TurnsInit
<1>2. Inductive /\ TurnsDiffer /\ [Next]_vars => TurnsDiffer'
  BY TurnsDifferStep DEF Inductive
<1>3. Inductive /\ TurnsDiffer /\ [Next]_vars => [Turns!Next]_(Turns!vars)
  BY TurnsStep
<1> QED
  BY <1>1, <1>2, <1>3, InductiveHolds, PTL DEF Spec, TakesTurns, Turns!Spec

=============================================================================
