SPECIFICATION FairSpec
CONSTANTS
  Waits = {t1}
  Streams = {t2}
  Stoppable = {t1}
  MaxConcurrentTask = 1
INVARIANTS
  TypeOK
  RemovedIsOver
  LeftIsFinished
  ToldTheTruth
PROPERTY RunnerSettles
CHECK_DEADLOCK FALSE
