SPECIFICATION Spec
CONSTANTS
  engine = engine
  Engines = {engine}
  Master = engine
  Gdb = engine
  MaxResumes = 1
  MaxStops = 2
  MaxEnds = 2
  MaxDisturbances = 3
  MaxHits = 1
INVARIANTS
  StopIsReal
PROPERTIES
  BreakpointsNeedStop
  TemporaryStopEnds
  WaitingCommandsStopProgram
  ContractSpec
  AbortEnds
CHECK_DEADLOCK FALSE
