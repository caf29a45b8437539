SPECIFICATION Spec
CONSTANTS
  p = p
  q = q
  t1 = t1
  t2 = t2
  Names = {p, q}
  Tables = {t1, t2}
  NULL = NULL
  NoEvent = NoEvent
  MaxTrans = 3
  EVENTS_ARRAY_SIZE = 4
  MaxArraySize = 6
  EventObjects <- MCEventObjects
  MaxCalls = 5
SYMMETRY MCSymmetry
INVARIANTS
  StatusMatchesServer
  PendingIsTracked
  
  NoFreedEvent
  
CHECK_DEADLOCK FALSE
