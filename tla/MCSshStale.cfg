SPECIFICATION Spec
CONSTANTS
  c1 = c1
  c2 = c2
  a = a
  Connections = {c1, c2}
  Runners = {a}
  NoConnection = NoConnection
  MaxEvents = 3
  MaxForces = 0
INVARIANTS
  ProcessIsCreated
CHECK_DEADLOCK FALSE
