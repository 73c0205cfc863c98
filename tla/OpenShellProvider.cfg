SPECIFICATION Spec
CONSTANTS
  Environments = {e1, e2}
  Sandboxes = {s1, s2, s3, s4}
  MaxPending = 2
  None = None
SYMMETRY Symmetry
INVARIANTS
  TypeOK
  ChecksProtectReplacements
  ReleasedMeansGone
  FailedPrepareLeavesNothing
CHECK_DEADLOCK FALSE
