SPECIFICATION FairSpec
CONSTANTS
  entry = entry
  exit = exit
  flatten = flatten
  s1 = s1
  none = none
  Orders <- EntryFlatten
  Buys <- Entries
  Shares <- One
  Cancelable <- Entries
  Late <- EntryFlatten
  Strategy <- StrategyOf
  NoStrategy <- none
  AlertCycles = 1
  MaySync = TRUE
  MaxTime = 1
  MaxAborts = 1
  MaxGlitches = 1
INVARIANTS
  OverwriteIsBooked
PROPERTIES
  BookConverges
  RemaindersAreApplied
  HeldIsNeverWiped
