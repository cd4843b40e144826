SPECIFICATION Spec
CONSTANTS
  a = a
  b = b
  c = c
  r1 = r1
  r2 = r2
  Nodes = {a, b, c}
  Global = Global
  Uid <- Uids
  Program <- Stream
  Replicas = {r1, r2}
  NoReplica = NoReplica
  MaxFaults = 1
INVARIANTS TypeOK NilMeansHeard ReceivesInOrder
PROPERTIES SubscriptionIsACell
CHECK_DEADLOCK FALSE
