SPECIFICATION Spec
CONSTANTS
  NFrames = 4
  DataLen <- FourFrames
  Magic = 3
  Header = 5
  BuffMax = 20
  RingSize = 3
  FifoSize = 2
  Preempting = FALSE
  MaxAgain = 1
INVARIANTS BytesInOrder ReadProtocol FramesRecognized
PROPERTIES AllBytesRead TerminateEnds
CHECK_DEADLOCK FALSE
