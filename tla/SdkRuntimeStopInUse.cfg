SPECIFICATION Spec
CONSTANTS
  Callers = {c1, c2}
  Streams = {s1, s2}
  Requests = {q1}
  None = None
INVARIANT StopsOnlyIdle
