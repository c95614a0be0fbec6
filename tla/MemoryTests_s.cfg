SPECIFICATION Spec
CONSTANTS
  UL_SIZE = 4
  Addresses <- MCAddresses
  HAS_COMPARISION = 1
  Iterations <- MCIterations
  SPINSZ = 8
  MOD_SZ = 3
  BYTE_BITS = 2
  Period = 7
  Draws <- MCDraws
  PageWords = 4
  BankWords = 8
  UL_BYTES = 2
  Rounds = 2
  RandBankWords = 8
  RandCount = 1
  mix_random <- MCmix_random
  MoveChunk = 32
  Slices <- MCSlices
  NoComps = {0, 1}
  Faults <- MCFaults
  Contents <- MCContents
  CNT_PER_BANK = 8
  WalkWatched = 3
  StuckWatched = 2
  CNT_PER_STEP = 8
  g_pat <- MCg_pat
INVARIANT SlowModeVerifies
CHECK_DEADLOCK FALSE
