SPECIFICATION FairSpec
CONSTANTS
  n1 = n1
  n2 = n2
  r1 = r1
  r2 = r2
  Nodes = {n1}
  Candidates <- OneCandidate
  Requests = {r1}
  Method <- WriteThenRead
  SuspectAfterMisses = 2
  DeadAfterMisses = 3
  Cycles = {1, 2}
  NoPoll = NoPoll
  MaxOpen = 1
  MaxFaults = 1
PROPERTIES KilledLeaves
CHECK_DEADLOCK FALSE
