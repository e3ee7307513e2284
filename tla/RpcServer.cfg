SPECIFICATION FairSpec
CONSTANTS
  a = a
  b = b
  Clients = {a, b}
  Main = Main
  Closed = Closed
  MaxRequests = 2

INVARIANTS CutByALateWorker StrayAnswersHadNoAsker EveryOpenConnectionIsPolled
PROPERTIES RequestsAreAnswered ConnectionsAreAccepted
CHECK_DEADLOCK FALSE
