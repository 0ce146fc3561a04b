SPECIFICATION Spec
CONSTANTS
  n1 = n1
  n2 = n2
  n3 = n3
  k1 = k1
  k2 = k2
  Nodes = {n1, n2}
  Keys = {k1}
  ReplicaNodeIds <- OneKey
  Writers <- OneWriter
  Assigned <- OwnGroups
  Capacity = 1
  NoAck = NoAck
  FaultKinds = {"duplicated", "rewind", "ackFails"}
  MaxOps = 3
  MaxFaults = 1
CHECK_DEADLOCK FALSE
INVARIANTS
  Delivered
  

  
