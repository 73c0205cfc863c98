SPECIFICATION Spec
CONSTANTS
  Callers = {c1, c2}
  Streams = {s1, s2}
  Requests = {q1, q2}
  None = None
SYMMETRY Symmetry
INVARIANTS
  TypeOK
  OneNativeCall
  InvocationIsUndisturbed
  StatusIsHonest
  RegistrationIsOwned
  ReservationEnds
  FinalizedOnce
