SPECIFICATION Spec
CONSTANTS
  Stride = 4
  MaxChunk = 2
  Vec = 1
  K = 2
  Threshold = 2
  Radix = 2
  Waves = 2
  Batches <- AllBatches
  Slots = {1, 2}
INVARIANTS TypeOK Lockstep SameRound HistogramExact TopKExact WritesInRow PositionsDistinct NoDeadlock
PROPERTY Ends
CHECK_DEADLOCK FALSE
