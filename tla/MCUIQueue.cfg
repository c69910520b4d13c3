SPECIFICATION FairSpec
CONSTANTS
  Client = {c1, c2}
  UI = w
  MaxHandlers = 0
  Worker = {w}
  Task = {t1, t2}
  NoTask = NoTask
INVARIANTS TerminatedHasNoHandlers
PROPERTIES ImplementsContract AcceptedTaskEnds AwaitTerminationReturns
CHECK_DEADLOCK FALSE
