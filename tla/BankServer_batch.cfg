SPECIFICATION FairSpec
CONSTANTS
  a = a
  b = b
  c = c
  Clients = {a, b, c}
  ReportEvery = 2
PROPERTIES EveryBatchIsReported
CHECK_DEADLOCK FALSE
