SPECIFICATION FairSpec
CONSTANTS
  Users = {u1}
  Opener = u1
  NoUser = none
  MaxTasks = 3
  Polling = {u1}
  Usage = {"cancel waiting"}
PROPERTIES
  EveryTaskDelivered
CHECK_DEADLOCK FALSE
