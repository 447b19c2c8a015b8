SPECIFICATION Spec
CONSTANTS
  t1 = t1
  t2 = t2
  Tasks = {t1, t2}
  Benchmarks = {t2}
  NumUnits = 2
  Need <- NeedWide
  Distributed = FALSE
  MaxWorkers = 2
  HttpPorts = {8000, 8001}
  MasterPorts = {}
INVARIANTS
  TypeOK
  LeaseExclusive
  PortExclusive
  CleanupErrorMeansRetained
  CancelledByScheduler
  TimeoutReported
  VerdictIsClean
  ClosedMeansStopped
PROPERTIES
  NoStartAfterStop
  VerdictUninterrupted
  ImplementsLeaseProtocol
