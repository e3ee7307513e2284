SPECIFICATION ProgramsSpec
CONSTANTS
  N = 2
  IntMax = 2
  Rows = 1
  Clients = {"c1", "c2", "c3"}
  Inits = {"i1", "i2"}
  Words = {"a", "b"}
  MaxTokens = 6
  Chatters = {"u1", "u2", "u3"}
  Talkers = {"t1", "t2"}
  MaxBytes = 2
  Threads = {"p1", "p2", "p3"}
  Rounds = 2
  MaxN = 5
  MaxM = 3
  BufferSize = 2
  MaxLength = 7
INVARIANTS OrderlyClientsAreSafe CommandsAreTheirOwn SignsLookBack FirstBroadcastIsTheLast MessagesAreWhole NothingIsLost SummedOnce ExactIffAligned
PROPERTY DeadForever
CHECK_DEADLOCK FALSE
