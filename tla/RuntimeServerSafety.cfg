SPECIFICATION Spec
CONSTANTS
  Handlers = {h1, h2}
  Runtimes = {r1, r2, r3}
  Main = Main
  None = None
  MaxStopped = 2
  MaxGeneration = 3
SYMMETRY Symmetry
INVARIANTS
  TypeOK
  LivingRuntimeIsAddressed
  EffectsAreUse
  OrderlyShutdownIsComplete
PROPERTIES
  StopIsFinal
  PassedRuntimeServes
  LastStopIsRemembered
CHECK_DEADLOCK FALSE
