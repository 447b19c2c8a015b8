SPECIFICATION Spec
CONSTANTS
  NRanks = 2
  MaxGrid = 2
  BlockDim = 2
  Leaders = 1
  CommSize = 6
  Workloads <- Varying
  Empty = Empty
INVARIANTS TypeOK ReducesOwnRound AllGroupsReduced NoDeadlock
PROPERTIES WritesToEmpty KeptWhileNeeded Meets
CHECK_DEADLOCK FALSE
