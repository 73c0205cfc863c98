CONSTANTS
  Threads = {t1, t2, t3}
  Runtimes = {r1}
  Services = {s1}
  None = None
  MaxKillFailures = 0
SPECIFICATION Spec
INVARIANT ReleaseWaitsForInvocations
