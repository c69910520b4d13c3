SPECIFICATION FairSpec
CONSTANTS
  Client = {c1, c2}
  Looper = w
  Worker = {w}
  Task = {t1, t2}
  NoTask = NoTask
PROPERTY AwaitTerminationWaits
CHECK_DEADLOCK FALSE
