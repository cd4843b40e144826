SPECIFICATION FairTransferSpec
CONSTANTS
  a = a
  b = b
  c = c
  r1 = r1
  Nodes = {a, b, c}
  Global = Global
  Uid <- Uids
  Program <- Exchange
  Replicas = {r1}
  NoReplica = NoReplica
  Pushes <- MCPushes
  MaxFaults = 0
  MaxStoreFaults = 2
INVARIANTS StoreTypeOK IDsResolve PulledIsPushed BucketRaceCostsOne
PROPERTIES TransferEnds
