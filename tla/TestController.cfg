SPECIFICATION FairSpec
CONSTANTS
  RDResults <- MCRDResults
  RWResults <- MCRWResults
  Errnos = {1, 22}
  MaxFaults = 3
INVARIANTS
  PassIsEarned
  MceNotMasked
  ChildrenReaped
PROPERTIES
  Terminates
  CtrlCEndsAll
