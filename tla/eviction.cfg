SPECIFICATION Spec
CONSTANTS
  k1 = k1
  k2 = k2
  k3 = k3
  Keys = {k1, k2, k3}
  Null = Null
  Rows = {1, 2}
  Columns = {1, 2}
  hash <- Collisions
  MaxCounter = 4
  agingThreshold = 3
  bottomK = 2
  MaxReplay = 2
  Capacity = 2
  MaxFrequency = 2
  MaxNow = 1
INVARIANTS
  StructuresIntact
  SketchSound
  RoomMade
  PolicyAgrees
  VictimColdest
PROPERTIES
  RefinesRecency
