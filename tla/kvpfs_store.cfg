SPECIFICATION Spec
CONSTANTS
  k1 = k1
  k2 = k2
  v1 = v1
  v2 = v2
  NoVal = NoVal
  Keys <- TwoKeys
  Values <- TwoValues
  DefaultEnv <- OneDefault
  Cap = 5
  UnsetPending = FALSE
  CrashBetween = FALSE
  MaxCrashes = 2
INVARIANTS OneValuePerKey OneBankValid
PROPERTIES StoreSpec SetIsRead
CHECK_DEADLOCK FALSE
