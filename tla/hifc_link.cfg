SPECIFICATION FairSpec
CONSTANTS
  s1 = s1
  s2 = s2
  Senders <- TwoSenders
  Commands <- AllCommands
  MaxLate = 2
  MaxCommands = 2
INVARIANTS LineTellsState WaitIsTimed
PROPERTIES SuspendAgreed SenderServed
