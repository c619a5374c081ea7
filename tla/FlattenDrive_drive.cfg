SPECIFICATION FairSpec
CONSTANTS
  cli = cli
  l1 = l1
  l2 = l2
  Operators <- OneOperator
  Liquidations <- TwoLiquidations
  MaxCommands = 1
  MaxCrashes = 1
PROPERTIES
  VerifiedIsFlatOnceQuiet
  FlattenReachesFlat
  ImplementsCommandLog
