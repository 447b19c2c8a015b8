SPECIFICATION Spec
CONSTANTS
  t1 = t1
  t2 = t2
  Tasks = {t1, t2}
  Benchmarks = {}
  NumUnits = 3
  Need <- NeedRanks
  Distributed = TRUE
  MaxWorkers = 1
  HttpPorts = {8000}
  MasterPorts = {29500}
INVARIANT
  NoStrayRank
