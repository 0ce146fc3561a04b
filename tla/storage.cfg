SPECIFICATION FairSpec
CONSTANTS
  Keys = {k1, k2, k3}
  Sizes = {1, 2, 4}
  Ttls = {0, 1}
  Never = Never
  MaxEntries = 2
  MaxSizeBytes = 3
  MaxNow = 1
  MaxVersion = 2
  MaxCreated = 3
INVARIANTS
  Accounting
  EntryCap
PROPERTIES
  EvictionJustified
  ExpiredReclaimed
