SPECIFICATION FairSpec
CONSTANTS
  Clients = {c1, c2}
  Worker = w
  Specs = {s1}
  NoThread = none
  SignalsBound = 2
  PipeCapacity = 1
  PipeUsers = {c1}
  Usage = {"steal", "foreign", "in callback"}
INVARIANTS
  ReferencesCounted
  
PROPERTIES
  CallsGoOn
CHECK_DEADLOCK FALSE
