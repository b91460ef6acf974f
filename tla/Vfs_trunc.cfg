CONSTANTS
  NDirect = 2
  Ptrs = 2
  BlockSize = 2
  DirCap = 3
  BlocksCount = 14
  FirstData = 1
  BlocksPerGroup = 7
  InodesCount = 6
  InodesPerGroup = 3
  Workloads <- Truncated
  AllPath <- MCPath
  Handle = {1, 2}
  TData <- MCData
  FaultIsCrash = TRUE
  Misuse = {}
  MaxFaults = 1
  MaxWrites = 24
SPECIFICATION Spec
INVARIANT EmptyHoldsNoBlock
