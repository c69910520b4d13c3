SPECIFICATION FairSpec
CONSTANTS
  Client = {c1, c2}
  Looper = w
  Worker = {w}
  Task = {t1, t2}
  NoTask = NoTask
PROPERTIES ImplementsContract AcceptedTaskEnds LooperEnds
CHECK_DEADLOCK FALSE
