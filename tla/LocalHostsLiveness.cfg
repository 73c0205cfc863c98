CONSTANTS
  Threads = {t1, t2}
  Runtimes = {r1}
  Services = {s1}
  None = None
  MaxKillFailures = 1
SPECIFICATION FairSpec
PROPERTY EveryCallReturns
