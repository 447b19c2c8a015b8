SPECIFICATION FairSpec
CONSTANTS
  Leader = sweep
  Procs = {sweep, p1, p2, p3}
  Adopter = init
  NoOne = none
INVARIANTS
  TypeOK
  ObservedStopped
  LeaderGroupStopped
PROPERTIES
  NeverForgotten
  RunEnds
