SPECIFICATION PtypeFairSpec
CONSTANTS
  p1 = p1 p2 = p2 p3 = p3 m1 = m1 m2 = m2 op1 = op1 pt1 = pt1
  NoProc = NoProc NoMsg = NoMsg NoPtype = NoPtype
  Proc = {p1, p2}
  Tools = {p1}
  Msg = {m1}
  Op = {op1}
  Ptype = {pt1}
  SenderOf <- SenderP1
  OpOf <- SameOp
  SigPtype <- Typed
  Disp <- Start
  ForkMayFail = TRUE
  MaxDeaths = 2
  Registering = {p1}
INVARIANTS TypeOK Accounted
PROPERTY EveryRequestEnds
CHECK_DEADLOCK FALSE
