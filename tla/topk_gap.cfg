SPECIFICATION Spec
CONSTANTS
  Stride = 4
  MaxChunk = 2
  Vec = 1
  K = 2
  Threshold = 2
  Radix = 2
  Waves = 2
  Batches <- WithGap
  Slots = {1, 2}
INVARIANT MixedRowsExact
CHECK_DEADLOCK FALSE
