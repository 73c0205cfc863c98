SPECIFICATION Spec
CONSTANTS
  Callers = {c1}
  Streams = {s1, s2}
  Requests = {q1}
  None = None
PROPERTY ExitStops
