SPECIFICATION FairSpec
CONSTANTS
  Client = {c1}
  Worker = {w1, w2}
  Task = {t1, t2}
  NoTask = NoTask
  MaxThreads = 1
PROPERTIES AcceptedTaskEnds AwaitTerminationReturns
CHECK_DEADLOCK FALSE
