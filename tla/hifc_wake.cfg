SPECIFICATION Spec
CONSTANTS
  s1 = s1
  s2 = s2
  Senders <- OneSender
  Commands <- NoCommand
  MaxLate = 1
  MaxCommands = 0
INVARIANTS M2hOnDuringDown
