SPECIFICATION FairSpec
CONSTANTS
  Threads = {t1, t2}
  NoThread = none
  OwnerAtOpen = "none"
  MaxSessions = 2
INVARIANTS
  UserIsOwner
  NothingLeftLocked
  
PROPERTIES
  LockIsObtained
CHECK_DEADLOCK FALSE
