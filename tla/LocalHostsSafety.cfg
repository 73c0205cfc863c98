CONSTANTS
  Threads = {t1, t2, t3}
  Runtimes = {r1, r2}
  Services = {s1}
  None = None
  MaxKillFailures = 0
SPECIFICATION Spec
CONSTRAINT Contention
SYMMETRY Symmetry
INVARIANTS
  TypeOK
  OwnAnswers
  NoOrphanHost
  ReachableRuntimeHoldsService
  SnapshotTableAgrees
  DroppedServiceIsOver
PROPERTY SessionOrder
