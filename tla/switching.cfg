SPECIFICATION FairSpec
CONSTANTS
  Suffixes = {1, 2}
  NoNumber = NoNumber
  None = None
  minSamplesBeforeSwitch = 2
  cooldownMs = 1
  maxHistoryLength = 2
  MaxWindow = 2
INVARIANTS
  HistoryChains
  PinHolds
PROPERTIES
  AutoSpaced
  PressureAnswered
