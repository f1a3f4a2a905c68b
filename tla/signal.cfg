SPECIFICATION BoundedSpec
CONSTANTS
  Msg = {m1, m2, m3}
  NoMsg = NoMsg
  MaxBytes = 4
INVARIANTS TypeOK Covered WakeUp
PROPERTY GetsOn
