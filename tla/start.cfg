SPECIFICATION PtypeSpec
CONSTANTS
  p1 = p1 p2 = p2 p3 = p3 m1 = m1 m2 = m2 op1 = op1 pt1 = pt1
  NoProc = NoProc NoMsg = NoMsg NoPtype = NoPtype
  Proc = {p1, p2, p3}
  Tools = {p1}
  Msg = {m1, m2}
  Op = {op1}
  Ptype = {pt1}
  SenderOf <- SenderP1
  OpOf <- SameOp
  SigPtype <- Typed
  Disp <- Start
  ForkMayFail = FALSE
  MaxDeaths = 1
  Registering = {}
INVARIANTS OneHandlerAtATime StartIsPending Accounted
PROPERTY KeepsPromise
SYMMETRY ChildrenAndMessages
CHECK_DEADLOCK FALSE
