SPECIFICATION Spec
CONSTANTS
  a = a
  b = b
  r1 = r1
  r2 = r2
  Workers = {a, b}
  Replicas = {r1, r2}
  NoReplica = NoReplica
  FailsAt <- AnyFails
  Cancels = {a, b}
  MaxFaults = 2
  MaxLosses = 2
  MaxRuns = 2
INVARIANTS TypeOK AddressWasRegistered NobodyMeetsTheAbsent
SYMMETRY Alike
