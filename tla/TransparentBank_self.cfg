SPECIFICATION FairSpec
CONSTANTS
  N = 3
  IntMax = 3
  c1 = c1
  c2 = c2
  c3 = c3
  Clients = {c1, c2}
  Free = Free
  NoCmd = NoCmd
  Commands <- SelfTransfers
  MaxCommands = 2
  Mortal = {}
PROPERTIES TransfersComplete
CHECK_DEADLOCK FALSE
