SPECIFICATION Spec
CONSTANTS
  c1 = c1
  c2 = c2
  NoClient = NoClient
  Client = {c1, c2}
  MaxSaves = 2
  MaxPending = 1
INVARIANTS
  ExitWanted
CHECK_DEADLOCK FALSE
