SPECIFICATION MCSpec
CONSTANTS
  NumKeys = 6
  SHASH = 2
  dimmhash <- MCdimmhash
  Pages <- MCPages
  Records <- MCRecords
  Configs <- MCConfigs
  Kernels <- MCKernels
  HostCpu <- MCHostCpu
  MaxRecords = 4
  MaxTime = 3
  LogLines <- MCLogLines
  MaxLines = 4
INVARIANTS RedBlack DatabasesHold BurstTriggers OfflinedOnce RecordsWhole
PROPERTIES ImplementsOrderedSet ImplementsLedger
CHECK_DEADLOCK FALSE
