SPECIFICATION Spec
CONSTANTS
  a = a
  b = b
  c = c
  NodeSets = {a, b}
  NilSets = {}
  EmptySets = {}
  NilWorkers = {}
  Refusable = {}
  BareNodes = FALSE
  Mounts <- NoMounts
  InitialPVs = 1
  MaxFaults = 0
  MaxEvictions = 0
  CtxCancellable = FALSE
  MaxRuns = 1
INVARIANTS AnnouncedMeansSomeDeployed
