SPECIFICATION FairSpec
CONSTANTS
  Servers = {s1, s2, s3}
  MaxLifecycle = 2
  NoFile = NoFile
INVARIANTS
  TypeOK
  CleanSandbox
  SocketIsServed
  UseIsMarked
PROPERTY ExitIsBounded
CHECK_DEADLOCK FALSE
