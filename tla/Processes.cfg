SPECIFICATION ProcessesSpec
CONSTANTS
  N = 4
  Rounds = 2
  MaxLaunches = 2
  Mortal = {1}
  Callers = {"c1", "c2"}
  Backlog = 1
  Launches = {"l1", "l2"}
  Writers = {"w1", "w2"}
  Readers = {"r1", "r2"}
  Size = 3
  Inputs <- TypedNumbers
  Garbage = 99
  MaxInputs = 3
  Largest = 17
INVARIANTS NeighboursTakeTurns NoDeadlock NoStickIsLost NoTornRead ResultsAreForTheAsked
PROPERTIES RunsEnd ServedUnlessHeld OneOrderIsServed TurnsUnlessKilledInside ChildEndsWithParent
CHECK_DEADLOCK FALSE
