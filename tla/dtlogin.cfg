SPECIFICATION Spec
CONSTANTS
  L = L
  F = F
  Display = {L, F}
  Local = {L}
  Removable = {L}
  Children = 1
  startAttempts = 2
INVARIANTS
  TypeOK
  NoOrphanServer
  
PROPERTIES
  KeptRunning
  
CHECK_DEADLOCK FALSE
