SPECIFICATION Spec
CONSTANTS
  NFrames = 3
  Port <- PortOf
  Prefix <- Prefixes
  DataLen <- Lengths
  FlagLike <- Like
  MaxMisread = 2
  RingSize = 2
  BuffSize = 2
  HalLens = {1}
  MaxSends = 1
  Uses <- LineUses
INVARIANTS TypeOK StreamsInOrder SuccessIsWhole FramesDelivered DeletedUnused
PROPERTIES RecvWakes
CHECK_DEADLOCK FALSE
