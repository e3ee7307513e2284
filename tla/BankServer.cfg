SPECIFICATION FairSpec
CONSTANTS
  a = a
  b = b
  c = c
  Clients = {a, b, c}
  ReportEvery = 2
INVARIANTS AtMostOneLate OversleepsOnlyIfMissed
PROPERTIES ReportsAreSpaced NextConnectionEndsMain
CHECK_DEADLOCK FALSE
