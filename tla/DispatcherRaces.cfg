SPECIFICATION FairSpec
CONSTANTS
  a = a
  b = b
  c = c
  NodeSets = {a, b}
  NilSets = {}
  EmptySets = {}
  NilWorkers = {}
  Refusable = {}
  BareNodes = FALSE
  Mounts <- OneMount
  InitialPVs = 1
  MaxFaults = 1
  MaxEvictions = 0
  CtxCancellable = FALSE
  MaxRuns = 1
INVARIANTS SoleInstaller ServiceAfterBackend
PROPERTIES RunEnds SerialRunsDeployAll
