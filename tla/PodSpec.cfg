SPECIFICATION Spec
CONSTANTS
  NodeSets = {"a", "b", "c", "d"}
  Workers = {"w1", "w2", "w3", "w4", "both"}
  Set <- MCSet
  GivenUID <- MCGivenUID
  NoUID <- MCNoUID
  UserEnvs <- MCUserEnvs
  Files <- MCFiles
  MaxFaults = 1
INVARIANTS TypeOK EnvIsOwn BootsAsNamed NamesIdentify RefusedForCause FilesArrive
