SPECIFICATION Spec
CONSTANTS
  Client = {c1}
  Worker = {w1, w2, w3}
  Task = {t1, t2, t3}
  NoTask = NoTask
  MaxThreads = 2
SYMMETRY Interchangeable
INVARIANTS ConcurrencyBound
CHECK_DEADLOCK FALSE
