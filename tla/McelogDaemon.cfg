SPECIFICATION FairSpec
CONSTANTS
  MAX_POLLFD = 4
  Pids = {1, 2, 3}
  children_max = 2
  Clients = {1, 2, 3}
  Allowed = {1, 2}
  Commands <- MCCommands
  Scripts <- MCScripts
  MaxEvents = 4
INVARIANTS TableRight AnswersRight ChildrenRight
PROPERTY ClientsServed
CHECK_DEADLOCK FALSE
