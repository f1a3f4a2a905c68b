----------------------------- MODULE MCTtMatch -----------------------------
(* Instances of TtMatch for TLC.                                           *)
EXTENDS TtMatch

CONSTANTS a, b, r1, r2, u1, u2, h1, o1, m1, m2

MCNoChange == <<>>

PushAndPlain == <<u2, h1, u1>>

(* Each process has one pattern of a category.                             *)
MCOwner == [p \in Pattern |->
  IF p \in {r1, u1, h1} THEN a ELSE b]

MCCategory == [p \in Pattern |->
  CASE p \in {r1, r2} -> "rotate" [] p \in {u1, u2} -> "push"
    [] p = h1 -> "handle" [] OTHER -> "observe"]

(* The PUSH patterns do not match m2, which the plain handlers match best. *)
MCScore == [p \in Pattern |-> [m \in Msg |->
  CASE m = m1 -> 1 [] p \in {u1, u2} -> 0 [] p = h1 -> 2 [] OTHER -> 1]]

AnyState == [p \in Pattern |-> {}]
=============================================================================
