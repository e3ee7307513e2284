SPECIFICATION FairSpec
CONSTANTS
  N = 3
  IntMax = 3
  c1 = c1
  c2 = c2
  c3 = c3
  Clients = {c1, c2, c3}
  Free = Free
  NoCmd = NoCmd
  Commands <- Contending
  MaxCommands = 3
  Mortal = {c3}
INVARIANTS NoCircularWait
PROPERTIES CommandsComplete
CHECK_DEADLOCK FALSE
