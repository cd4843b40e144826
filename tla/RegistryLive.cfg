SPECIFICATION FairSpec
CONSTANTS
  a = a
  b = b
  r1 = r1
  r2 = r2
  Workers = {a, b}
  Replicas = {r1, r2}
  NoReplica = NoReplica
  FailsAt <- NoneFails
  Cancels = {a, b}
  MaxFaults = 1
  MaxLosses = 1
  MaxRuns = 1
PROPERTIES CtxEndsWait AllMeet WaitEndsOnOneRedis
