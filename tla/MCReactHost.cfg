SPECIFICATION FairSpec
CONSTANTS
  View = {v1, v2}
  Options = {o1, o2}
  Inspectable = {o1}
  MaxRequests = 5
INVARIANTS LastRequestWins StaleViewIsUninited AttachedViewIsShown InspectorPageMatchesInstance
PROPERTIES NoLoadOverInstance ActionQueueDrains
CHECK_DEADLOCK FALSE
