SPECIFICATION FairSpec
CONSTANTS
  e1 = e1
  e2 = e2
  nobody = nobody
  Engines <- TwoEngines
  Tasks <- NoOtherTask
  Nobody <- nobody
  Depth = 2
  MaxDeaths = 1
  MaxLost = 1
CONSTRAINT SecondLoads
INVARIANTS WorksUnderLock AtMostOneSlips
PROPERTIES ShutdownEnds HaltHolds HeartbeatTells
