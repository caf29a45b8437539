SPECIFICATION Spec
CONSTANTS
  Users = {u1, u2}
  Opener = u1
  NoUser = none
  MaxTasks = 3
  Polling = {}
  Usage = {"cancel waiting", "cancel running", "reset", "close", "drop"}
INVARIANTS
  ExecutedInOrder
  
  NeverStalled
  NoFreedTaskInUse

  
CHECK_DEADLOCK FALSE
