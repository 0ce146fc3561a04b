SPECIFICATION Spec
CONSTANTS
  Nodes = {n1, n2, n3}
  Weights = {25, 150}
  baseVirtualNodeCount = 1
  Positions = {0, 1, 2}
SYMMETRY Symmetry
INVARIANTS
  RingFromMembers
  SuccessorFound
  ReplicasNested
PROPERTIES
  MovesOnlyItsKeys
