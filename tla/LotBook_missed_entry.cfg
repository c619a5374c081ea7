SPECIFICATION Spec
CONSTANTS
  entry = entry
  exit = exit
  flatten = flatten
  s1 = s1
  none = none
  Orders <- EntryFlatten
  Buys <- Entries
  Shares <- EntryOfTwo
  Cancelable <- Entries
  Late <- Nothing
  Strategy <- StrategyOf
  NoStrategy <- none
  AlertCycles = 1
  MaySync = FALSE
  MaxTime = 1
  MaxAborts = 0
  MaxGlitches = 0
PROPERTIES
  RetryFailsOnlyWhileMissing
