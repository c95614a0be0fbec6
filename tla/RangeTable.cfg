SPECIFICATION TableSpec
CONSTANTS
  MIN_BLOCK_SIZE = 4
  CORE_COUNT = 5
  CoreNums = {0, 1, 2, 3, 4, 5, 6}
  Cpus <- MCCpus
  RWLists <- MCRWLists
  HALF_CORE_COUNT = 3
  RANGE_COUNT = 3
  UINT = 8
INVARIANTS
  SlicesRight
  TableHandsOver
CHECK_DEADLOCK FALSE
