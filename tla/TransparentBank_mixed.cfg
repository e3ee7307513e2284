SPECIFICATION Spec
CONSTANTS
  N = 2
  IntMax = 3
  c1 = c1
  c2 = c2
  c3 = c3
  Clients = {c1, c2}
  Free = Free
  NoCmd = NoCmd
  Commands <- MixedCommands
  MaxCommands = 3
  Mortal = {c1}
INVARIANT AccessesAreWhole
PROPERTIES FrozenIsUntouched MoneyIsConserved RescuedByATransfer ImplementsLedger
CHECK_DEADLOCK FALSE
