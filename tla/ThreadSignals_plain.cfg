SPECIFICATION Spec
CONSTANTS
  Clients = {c1, c2}
  Worker = w
  Specs = {s1, s2}
  NoThread = none
  SignalsBound = 2
  PipeCapacity = 1
  PipeUsers = {}
  Usage = {"bad signal"}
SYMMETRY Symmetry
INVARIANTS
  NoDanglingSpec
PROPERTIES
  NoCallbackAfterDisconnect
  
CHECK_DEADLOCK FALSE
