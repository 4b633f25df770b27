SPECIFICATION MixedSpec
CONSTANTS
  master = master
  cpp = cpp
  qml = qml
  Engines = {master, cpp, qml}
  Master = master
  Gdb = cpp
  Qml = qml
  MaxResumes = 1
  MaxStops = 1
  MaxEnds = 0
  MaxDisturbances = 1
  MaxHits = 2
PROPERTIES
  CppActiveWhenStopped
CHECK_DEADLOCK FALSE
