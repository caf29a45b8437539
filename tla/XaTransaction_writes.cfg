SPECIFICATION Spec
CONSTANTS
  a = a
  b = b
  c = c
  n = n
  s1 = s1
  s2 = s2
  Cncs <- MCCncs
  Servers <- MCServers
  ServerOf <- MCServerOf
  NonXa = {n}
  NoCnc = none
  MaxFaults = 0
INVARIANTS
  CommitWritesData
CHECK_DEADLOCK FALSE
