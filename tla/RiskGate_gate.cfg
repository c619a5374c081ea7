SPECIFICATION Spec
CONSTANTS
  s1 = s1
  s2 = s2
  Symbols <- TwoSymbols
  MaxEntries = 1
  MaxPositions = 1
  StrategyPct = 3
  UnprovenPct = 2
  CeilingPct = 4
  Proven = FALSE
  DayMultiple = 2
  PortfolioPct = 1
  MaxLosses = 1
  HalvePct = 1
  HaltPct = 3
  Cooldown = 1
  Headroom = 50
  Price = 10
  Power = 100
  Equity0 = 110
  DayLen = 2
  Buffer = 0
  MaxMinute = 2
  MaxTrades = 4
  MaxCrashes = 1
SYMMETRY Sym
CHECK_DEADLOCK FALSE
INVARIANTS EntriesBounded
PROPERTIES PositionCap LossesStop LadderHolds
