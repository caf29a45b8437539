SPECIFICATION Spec
CONSTANTS
  Clients = {c1, c2}
  Worker = w
  MaxJobs = 3
  PipeCapacity = 1
  PipeUsers = {}
  FaultyPipes = {}
SYMMETRY ClientSymmetry
INVARIANTS
  CancelExcludesExecution
  ArgumentDestroyedOnce
  ExecutedInOrder
PROPERTIES
  ImplementsJobService
CHECK_DEADLOCK FALSE
