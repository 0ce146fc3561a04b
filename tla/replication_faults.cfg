SPECIFICATION FairSpec
CONSTANTS
  n1 = n1
  n2 = n2
  n3 = n3
  k1 = k1
  k2 = k2
  Nodes = {n1, n2}
  Keys = {k1}
  ReplicaNodeIds <- OneKey
  Writers <- OneWriter
  Assigned <- OwnGroups
  Capacity = 1
  NoAck = NoAck
  FaultKinds = {"lost", "duplicated", "reordered", "ackFails", "rewind", "drop", "delay", "crash", "restart"}
  MaxOps = 2
  MaxFaults = 1
 
PROPERTIES EveryWaiterSettles EventReached
CHECK_DEADLOCK FALSE
