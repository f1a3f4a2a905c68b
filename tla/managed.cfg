SPECIFICATION Spec
CONSTANTS
  L = L
  F = F
  Display = {L}
  Local = {L}
  Removable = {}
  Children = 1
  startAttempts = 2
PROPERTIES
  Managed
CHECK_DEADLOCK FALSE
