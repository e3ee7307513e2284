SPECIFICATION FairSpec
CONSTANTS
  t1 = t1
  t2 = t2
  t3 = t3
  w1 = w1
  w2 = w2
  w3 = w3
  Tasks = {t1, t2, t3}
  Workers = {w1, w2, w3}
  Main = Main
  NoTask = NoTask
  Free = Free
  Parent <- Spawning
INVARIANTS NoForgottenTask DestroyedUnused
PROPERTIES ImplementsTaskPool TasksFinish DestructorReturns
CHECK_DEADLOCK FALSE
