SPECIFICATION FairSpec
CONSTANTS
  c1 = c1
  e1 = e1
  e2 = e2
  rt = rt
  Callers <- OneCaller
  Echoes <- OneEcho
  Receiver = rt
  CallKinds <- SyncFinite
  EchoRetryCnt = 1
  BypassEcho = TRUE
  EvtIds <- TwoIds
  PostponableIds <- OneId
  MaxTransId = 1
  MaxCmds = 1
  MaxEvents = 2
  MaxSessions = 2
INVARIANTS EventOrder HeldUntilReady FinJoinsReceiver
PROPERTIES FinEnds PostponedReplayed
CHECK_DEADLOCK FALSE
