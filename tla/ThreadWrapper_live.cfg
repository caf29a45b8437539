SPECIFICATION FairSpec
CONSTANTS
  Clients = {c1, c2}
  Worker = w
  MaxJobs = 2
  PipeCapacity = 1
  PipeUsers = {c1}
  FaultyPipes = {c1}
INVARIANTS
  TypeOK
  
  NoLostReply
PROPERTIES
  JobsSettle
  FetchReturns
  WorkerTerminates
CHECK_DEADLOCK FALSE
