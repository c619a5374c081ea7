SPECIFICATION FairSpec
CONSTANTS
  Gap = 2
  Requested = 1
  MinWindow = 1
  Continuous = FALSE
  Base = 1
  Cap = 4
INVARIANTS FailsClosed ClosesInAWindow
PROPERTIES NeverFlaps HealthIsEarned Reopens
