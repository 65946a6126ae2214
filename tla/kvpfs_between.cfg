SPECIFICATION Spec
CONSTANTS
  k1 = k1
  k2 = k2
  v1 = v1
  v2 = v2
  NoVal = NoVal
  Keys <- TwoKeys
  Values <- TwoValues
  DefaultEnv <- OneDefault
  Cap = 5
  UnsetPending = FALSE
  CrashBetween = TRUE
  MaxCrashes = 2
INVARIANTS OneBankValid
CHECK_DEADLOCK FALSE
