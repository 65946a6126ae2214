SPECIFICATION FairSpec
CONSTANTS
  HeapBlocks = 2
  DataBlocks = 2
  Heap0Blocks = 1
  BlockSize = 2
  MaxSize = 3
  Gap = 4
  SectorSize = 4
  Durations <- UpToThree
  IdleTimes <- ShortAndLong
  Overheads <- NoneOrOne
  Sizes <- SmallOrLarge
  Threshold = 2
INVARIANTS LossExplained LinkDownAsleep
PROPERTIES BackAsBefore CycleEnds
CHECK_DEADLOCK FALSE
