------------------------------ MODULE TtTurns ------------------------------
(***************************************************************************)
(* What TT_HANDLE_ROTATE promises: the handlers of that category take      *)
(* turns.  Of those that match a message best and have not refused it, the *)
(* one gets it that has waited longest since its last turn; one that had   *)
(* no turn yet goes before all that had.                                   *)
(***************************************************************************)
EXTENDS Naturals

CONSTANTS Proc, Pattern, Msg, NoPattern,
          Owner,        \* the process that registered a pattern
          Score         \* Score[p][m]: how well p matches m, 0 if not at all

VARIABLES fresh,        \* the registered patterns that had no turn
          used,         \* the others
          ahead,        \* <<p, q>>: both are registered, and p waits longer
          joined,       \* the patterns that are in the session
          refused,      \* processes that had a message and do not get it again
          given         \* the pattern a message went to, if of this category

Line == fresh \union used

line == <<fresh, used, ahead>>
vars == <<line, joined, refused, given>>

(* Those that are there at first had no turn, and wait in some order.      *)
Init ==
  /\ fresh \subseteq Pattern /\ used = {} /\ joined \subseteq Pattern
  /\ ahead \subseteq fresh \X fresh
  /\ \A p, q \in fresh : p # q => (<<p, q>> \in ahead <=> <<q, p>> \notin ahead)
  /\ \A p, q, r \in fresh : (<<p, q>> \in ahead /\ <<q, r>> \in ahead) => <<p, r>> \in ahead
  /\ \A p \in fresh : <<p, p>> \notin ahead
  /\ refused = [m \in Msg |-> {}] /\ given = [m \in Msg |-> NoPattern]

Register(p) ==
  /\ p \notin Line
  /\ fresh' = fresh \union {p}
  /\ ahead' = ahead \union (fresh \X {p}) \union ({p} \X used)
  /\ joined' \in {joined \union {p}, joined \ {p}}
  /\ UNCHANGED <<used, refused, given>>

Without(gone) == {pair \in ahead : pair[1] \notin gone /\ pair[2] \notin gone}

Unregister(gone) ==
  /\ fresh' = fresh \ gone /\ used' = used \ gone
  /\ ahead' = Without(gone)
  /\ joined' = joined \ gone
  /\ UNCHANGED <<refused, given>>

JoinOrQuit == joined' \in SUBSET Pattern /\ UNCHANGED <<line, refused, given>>

Able(m) ==
  {p \in Line \intersect joined : Score[p][m] > 0 /\ Owner[p] \notin refused'[m]}

Best(m) == {p \in Able(m) : \A q \in Able(m) : Score[q][m] <= Score[p][m]}

(* After its turn a pattern waits behind all others.                       *)
Turn(m) ==
  \E p \in Best(m) :
    /\ \A q \in Best(m) \ {p} : <<p, q>> \in ahead
    /\ fresh' = fresh \ {p} /\ used' = used \union {p}
    /\ ahead' = Without({p}) \union ((Line \ {p}) \X {p})
    /\ given' = [given EXCEPT ![m] = p]

(* A message is handed out, or handed on after a refusal; to nobody of     *)
(* this category, if another goes first.                                   *)
HandOut(m) ==
  /\ \/ UNCHANGED refused
     \/ \E pr \in Proc : refused' = [refused EXCEPT ![m] = @ \union {pr}]
  /\ \/ Turn(m)
     \/ given' = [given EXCEPT ![m] = NoPattern] /\ UNCHANGED line
  /\ UNCHANGED joined

Answered(m) ==
  /\ refused' = [refused EXCEPT ![m] = {}]
  /\ given' = [given EXCEPT ![m] = NoPattern]
  /\ UNCHANGED <<line, joined>>

Next ==
  \/ \E p \in Pattern : Register(p)
  \/ \E gone \in SUBSET Pattern : Unregister(gone)
  \/ JoinOrQuit
  \/ \E m \in Msg : HandOut(m) \/ Answered(m)

Spec == Init /\ [][Next]_vars
=============================================================================
