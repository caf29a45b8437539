SPECIFICATION Spec
CONSTANTS
  c1 = c1
  c2 = c2
  a = a
  Columns = {c1}
  Values = {a}
  NULL = NULL
  NoChunk = NoChunk
  Direct = Direct
  SampleSizes = {0, 2}
  NullEntries = {TRUE, FALSE}
  Defers = {TRUE, FALSE}
  Caches = {FALSE}
  IDLE_STEP = 1
  NRowsAtStart = 2
  i1 = i1
  i2 = i2
  i3 = i3
  Ids = {i1, i2, i3}
  MaxModifs = 1
INVARIANTS
  ShownRowsExist
  ListenersInSync
PROPERTIES
  
  SyncFinishes
CHECK_DEADLOCK FALSE
