SPECIFICATION FairSpec
CONSTANTS
  Thread = {t1, t2}
  promise = promise
  then = then
  shared = shared
  copy1 = copy1
  copy2 = copy2
  any = any
  all = all
  Future = {promise, then, shared, copy1, copy2, any, all}
  IsVoid = FALSE
  Null = Null
  Invoked = Invoked
  Kind <- MCKind
  Parents <- MCParents
INVARIANTS TryMethodsDoNotCrash ContinuationIsSomewhere OutcomeFollowsParents SucceededIsReadable
PROPERTIES ContinuationsComplete
CHECK_DEADLOCK FALSE
