SPECIFICATION FairSpec
CONSTANTS
  k1 = k1
  Keys = {k1}
  MaxRetained = 1
  TtlWrites = {1}
  absent = absent
  torn = torn
  whole = whole
  FaultKinds = {"crash", "ioError", "taskFails", "kafkaDown", "KILL", "RESTART"}
  MaxWrites = 1
  MaxSnapshots = 3
  MaxFaults = 3
  MaxSweeps = 1
CHECK_DEADLOCK FALSE
INVARIANTS
  LatestComplete
  
  FinalSnapshotKept
PROPERTIES
  KeepsRetained
  NothingHangs
