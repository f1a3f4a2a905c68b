SPECIFICATION Spec
CONSTANTS
  a = a b = b r1 = r1 r2 = r2 u1 = u1 u2 = u2
  h1 = h1 o1 = o1 m1 = m1 m2 = m2
  NoProc = NoProc NoPattern = NoPattern
  NoChange <- MCNoChange
  Proc = {a, b}
  Pattern = {r1, r2, u1, u2, h1, o1}
  Msg = {m1, m2}
  Owner <- MCOwner
  Category <- MCCategory
  AtStart <- PushAndPlain
  Score <- MCScore
  States <- AnyState
  Late = {}
  Leaver = {a}
INVARIANTS TypeOK
PROPERTIES BestIsChosen ObserversHear TakesTurns
CHECK_DEADLOCK FALSE
