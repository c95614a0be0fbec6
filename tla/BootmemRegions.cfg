SPECIFICATION Spec
CONSTANTS
  PAGE_SIZE = 2
  MAX_NUMNODES = 2
  PXM = {0, 1, 2}
  NR_NODE_MEMBLKS = 3
  E820_X_MAX = 5
  MAX_ACTIVE_REGIONS = 4
  MAX_BOOTMEM_REGIONS = 4
  Srats <- MCSrats
  Firmwares <- MCFirmwares
  MemLimits = {0, 7, 20, 40}
  MaxRuns = 2
INVARIANTS
  RegionsSafe
  RegionsComplete
PROPERTY RerunAddsNothing
CHECK_DEADLOCK FALSE
