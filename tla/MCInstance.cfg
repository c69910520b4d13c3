SPECIFICATION FairSpec
CONSTANTS
  JsCall = {c1, c2, c3}
  Sub = {s1, s2}
  Posted = {s1}
  Thread = {t1}
  dispatcher = d
  MaxSends = 1
  Timer = {a, b}
  Periods = {0, 1, 2}
  MaxNow = 3
INVARIANTS NoStrandedCall ListedIffSubscribed
PROPERTIES QueuedCallsKeepOrder FuturesComplete NoCallAfterUnsubscribe DeletedIsSilent TimersAreCalled
CHECK_DEADLOCK FALSE
