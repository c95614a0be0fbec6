\* One bank that may log any kind of error, counters that wrap after 1, one sleep
\* before rmmod gives up, two pages, one try of the program and one turn more, and
\* at most one file that cannot be created.
SPECIFICATION DiagSpec
CONSTANTS
  BankCount = 1
  ULONG_MAX = 1
  StopTries = 1
  MaxMissing = 1
  PGCNT = 2
  SpillTries = 2
INVARIANTS UnloadIsSafe TestIsAlone
PROPERTIES ErrorCounted SpillReturns
