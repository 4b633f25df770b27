SPECIFICATION Spec
CONSTANTS
  c1 = c1
  c2 = c2
  c3 = c3
  c4 = c4
  a = a
  b = b
  Connections = {c1, c2, c3, c4}
  Runners = {a, b}
  NoConnection = NoConnection
  MaxEvents = 3
  MaxForces = 1
INVARIANTS
  PoolsAgree
PROPERTIES
  ContractSpec
  RunStarts
CHECK_DEADLOCK FALSE
