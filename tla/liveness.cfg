SPECIFICATION FairSpec
CONSTANTS
  t1 = t1
  t2 = t2
  Tasks = {t1, t2}
  Benchmarks = {t2}
  NumUnits = 1
  Need <- NeedOne
  Distributed = FALSE
  MaxWorkers = 1
  HttpPorts = {8000}
  MasterPorts = {}
PROPERTIES
  BatchEnds
  OverrunStopped
