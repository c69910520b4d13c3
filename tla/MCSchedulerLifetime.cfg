SPECIFICATION Spec
CONSTANTS
  Client = {c1}
  Worker = {w1, w2}
  Task = {t1, t2}
  NoTask = NoTask
  MaxThreads = 1
INVARIANT NoCallbackAfterFree
CHECK_DEADLOCK FALSE
