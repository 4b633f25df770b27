SPECIFICATION MixedSpec
CONSTANTS
  master = master
  cpp = cpp
  qml = qml
  Engines = {master, cpp, qml}
  Master = master
  Gdb = cpp
  Qml = qml
  MaxResumes = 2
  MaxStops = 0
  MaxEnds = 2
  MaxDisturbances = 2
  MaxHits = 2
INVARIANTS
  ActiveEngineIsStopped
  FinishedMeansGdbGone
CHECK_DEADLOCK FALSE
