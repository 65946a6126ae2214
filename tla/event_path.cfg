SPECIFICATION EventSpec
CONSTANTS
  w1 = w1
  w2 = w2
  e1 = e1
  e2 = e2
  e3 = e3
  e4 = e4
  e5 = e5
  Workers <- TwoWorkers
  deleter = deleter
  Deleter = deleter
  Tasks <- AllTasks
  Jobs <- FiveEvents
  NoJob = NoJob
  MaxQueNum = 1
  NoTask = NoTask
  QueCap = 1
  NBlocks = 10
  Calling <- FirstCalls
  Reporting <- TwoReport
  Unregistered <- ThirdUnheard
  Unsupported <- FourthUnknown
INVARIANTS BlocksAccounted
PROPERTIES PoolSpec EventsHandled DestroyEnds
CHECK_DEADLOCK FALSE
