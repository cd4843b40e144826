SPECIFICATION Spec
CONSTANTS
  a = a
  b = b
  c = c
  r1 = r1
  r2 = r2
  Nodes = {a, b, c}
  Global = Global
  Uid <- Uids
  Program <- Gather
  Replicas = {r1}
  NoReplica = NoReplica
  MaxFaults = 0
PROPERTIES HandlerIsSet
CHECK_DEADLOCK FALSE
