SPECIFICATION Spec
CONSTANTS
  Operations = {"StatFile", "ListDir", "MakeDir", "Rm", "CreateFile",
                "Download", "UploadFile", "UploadDir"}
  LocalFiles <- MCLocalFiles
  MaxJobs = 2
  FileSizes = {0, 1, 3}
  MaxNames = 1
  MaxInFlightCount = 2
  MaxDepth = 2
  MaxDirFiles = 2
INVARIANTS
  TransfersAreComplete
  HandlesAreClosed
PROPERTIES
  ContractSpec
  JobsEnd
CHECK_DEADLOCK FALSE
