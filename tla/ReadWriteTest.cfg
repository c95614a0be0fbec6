SPECIFICATION FairSpec
CONSTANTS
  CORE_COUNT = 3
  ItemNum = 2
  range_num = 2
  slice_num <- MCslice_num
  Tid <- MCTid
  t1 = t1
  t2 = t2
  t3 = t3
  AlgorithmErrors = {"ERR_ALGORITHM"}
  RandomItem = TRUE
  StaleErrnos = {"ENOENT"}
  MaxCreateFailures = 1
INVARIANTS
  SuccessIsEarned
  RoundsApart
PROPERTIES
  SliceTestedOnce
  TestEnds
