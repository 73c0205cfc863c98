SPECIFICATION Spec
CONSTANTS
  Threads = {t1, t2}
  Runtimes = {r1, r2}
  Workers = {w1, w2, w3}
  None = None
SYMMETRY Symmetry
INVARIANTS
  TypeOK
  OrphanBlocksStarts
  ConfirmedStatesAreTrue
  ReleaseMeetsNoCommand
