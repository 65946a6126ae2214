SPECIFICATION FairSpec
CONSTANTS
  c1 = c1
  e1 = e1
  e2 = e2
  rt = rt
  Callers <- OneCaller
  Echoes <- TwoEchoes
  Receiver = rt
  CallKinds <- Finite
  EchoRetryCnt = 2
  BypassEcho = FALSE
  EvtIds <- NoIds
  PostponableIds <- NoIds
  MaxTransId = 3
  MaxCmds = 3
  MaxEvents = 0
  MaxSessions = 2
INVARIANTS EchoGate AnswerIsOwn TableMatchesWaiters
PROPERTIES GateOpensOnEcho CallReturns PromiseSpec
CHECK_DEADLOCK FALSE
