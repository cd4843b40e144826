SPECIFICATION SchedSpec
CONSTANTS
  a = a
  b = b
  c = c
  NodeSets = {a, b}
  NilSets = {}
  EmptySets = {b}
  NilWorkers = {}
  Refusable = {}
  BareNodes = FALSE
  Mounts <- TwoMounts
  InitialPVs = 1
  MaxFaults = 0
  MaxEvictions = 2
  CtxCancellable = TRUE
  MaxRuns = 1
PROPERTIES CancelEndsRun LoneNodeSetIsDeployed
