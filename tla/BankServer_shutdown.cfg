SPECIFICATION FairSpec
CONSTANTS
  a = a
  b = b
  c = c
  Clients = {a, b, c}
  ReportEvery = 2
PROPERTIES ShutsDownGracefully
CHECK_DEADLOCK FALSE
