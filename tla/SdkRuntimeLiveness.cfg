SPECIFICATION FairSpec
CONSTANTS
  Callers = {c1, c2}
  Streams = {s1}
  Requests = {q1}
  None = None
PROPERTY CallsReturn
