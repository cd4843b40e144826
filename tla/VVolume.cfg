SPECIFICATION FairSpec
CONSTANTS
  a = a
  b = b
  c = c
  NodeSets = {a}
  NilSets = {}
  EmptySets = {}
  NilWorkers = {}
  Refusable = {}
  BareNodes = FALSE
  Mounts <- NoMounts
  InitialPVs = 0
  MaxFaults = 0
  MaxEvictions = 0
  CtxCancellable = FALSE
  MaxRuns = 1
PROPERTIES NewVolumeGetsClaim
