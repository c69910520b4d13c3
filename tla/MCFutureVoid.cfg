SPECIFICATION Spec
CONSTANTS
  Thread = {t1, t2}
  promise = promise
  then = then
  shared = shared
  copy1 = copy1
  copy2 = copy2
  any = any
  all = all
  Future = {promise, then}
  IsVoid = TRUE
  Null = Null
  Invoked = Invoked
  Kind <- MCKind
  Parents <- MCParents
INVARIANT TryMethodsDoNotCrash
CHECK_DEADLOCK FALSE
