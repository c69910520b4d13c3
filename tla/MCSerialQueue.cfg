SPECIFICATION Spec
CONSTANTS
  Client = {c1, c2}
  Worker = {w1, w2}
  Task = {t1, t2, t3}
  NoTask = NoTask
  MaxThreads = 1
SYMMETRY Interchangeable
INVARIANTS NoLostWakeup DestroyedQueueIsEmpty OwnerHeldIffPending
PROPERTIES AwaitTerminationWaits ImplementsContract FifoOrder
CHECK_DEADLOCK FALSE
