SPECIFICATION MCSpec
CONSTANTS
  Frames = {0, 1, 2, 3}
  MTRR_MAX_VAR_RANGES = 3
  MTRRs <- MCMTRRs
  VmStart = 10
  Procs = {p1, p2}
  Addrs = {5, 10}
  PageBytes = 4
  HighBit = 64
  Tables <- MCTables
  Lens = {2, 4}
INVARIANTS MappingRight FailuresUndone AddressIsOwn
CHECK_DEADLOCK FALSE
