SPECIFICATION Spec
CONSTANTS
  a = a
  b = b
  c = c
  NodeSets = {a, b, c}
  NilSets = {c}
  EmptySets = {}
  NilWorkers = {b}
  Refusable = {a}
  BareNodes = TRUE
  Mounts <- OneMount
  InitialPVs = 0
  MaxFaults = 1
  MaxEvictions = 0
  CtxCancellable = FALSE
  MaxRuns = 2
INVARIANTS TypeOK PodIsUsable VolumesAreBounded CrashHasCause
PROPERTIES StrandedStays RunTestKeepsItsPromise
