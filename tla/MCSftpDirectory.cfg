SPECIFICATION Spec
CONSTANTS
  Operations = {"UploadDir"}
  LocalFiles <- WholeFiles
  MaxJobs = 1
  FileSizes = {0, 1}
  MaxNames = 0
  MaxInFlightCount = 2
  MaxDepth = 1
  MaxDirFiles = 1
INVARIANTS
  OnlyRespectiveJobs
CHECK_DEADLOCK FALSE
