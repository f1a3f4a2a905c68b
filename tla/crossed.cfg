SPECIFICATION Spec
CONSTANTS
  p1 = p1 p2 = p2 p3 = p3 m1 = m1 m2 = m2 op1 = op1 pt1 = pt1
  NoProc = NoProc NoMsg = NoMsg NoPtype = NoPtype
  Proc = {p1, p2}
  Tools = {p1, p2}
  Msg = {m1, m2}
  Op = {op1}
  Ptype = {}
  SenderOf <- MCSenderOf
  OpOf <- SameOp
  SigPtype <- Untyped
  Disp <- Discard
  ForkMayFail = FALSE
  MaxDeaths = 2
  Registering = {}
INVARIANTS SignalInv Accounted SenderWillKnow NothingLeftBehind RejectedStaysRejected
PROPERTIES HandledOnce KeepsPromise
CHECK_DEADLOCK FALSE
