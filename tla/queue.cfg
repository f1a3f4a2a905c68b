SPECIFICATION Spec
CONSTANTS
  p1 = p1 p2 = p2 p3 = p3 m1 = m1 m2 = m2 op1 = op1 pt1 = pt1
  NoProc = NoProc NoMsg = NoMsg NoPtype = NoPtype
  Proc = {p1, p2}
  Tools = {p1}
  Msg = {m1}
  Op = {op1}
  Ptype = {pt1}
  SenderOf <- SenderP1
  OpOf <- SameOp
  SigPtype <- Typed
  Disp <- StartAndQueue
  ForkMayFail = FALSE
  MaxDeaths = 3
  Registering = {}
INVARIANTS Inductive NothingLeftBehind RejectedStaysRejected SenderWillKnow
CHECK_DEADLOCK FALSE
