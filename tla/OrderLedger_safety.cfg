SPECIFICATION FairSpec
CONSTANTS
  o1 = o1
  o2 = o2
  Orders <- OneOrder
  Qty = 2
  Modes <- EngineAndSync
  MayAge = TRUE
  MaxCrashes = 1
INVARIANTS
  LedgerWithinBroker
  RowIsBrokerTruth
  RejectedIsRefused
  IInv
PROPERTIES
  NothingRegresses
  BooksConverge
